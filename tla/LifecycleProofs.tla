-------------------------- MODULE LifecycleProofs --------------------------
(***************************************************************************)
(* Proofs about Lifecycle, for any number of handlers, users, images,      *)
(* instances, ports and faults, and any set of operations.                 *)
(***************************************************************************)
EXTENDS Lifecycle, TLAPS

-----------------------------------------------------------------------------
(***************************************************************************)
(* The type invariant.  A request is well-formed when it has its type and  *)
(* its shape; every way of moving on keeps it so.                          *)
(***************************************************************************)
OK(r) == r \in Request /\ Shape(r)

ReqOK == req \in [Proc -> Request] /\ \A h \in Proc : Shape(req[h])

LEMMA PcsOK ==
    /\ \A p \in ScriptPc \cup ServerPc : p \in Pc
    /\ "idle" \in Pc /\ "reply" \in Pc
BY DEF Pc

LEMMA NewOK ==
    ASSUME NEW op \in Ops \cup {"none"}, NEW p \in Pc, NEW u \in User,
           NEW i \in ImageId \cup {0}, NEW n \in InstanceId \cup {0},
           Shape(New(op, p, u, i, n))
    PROVE  OK(New(op, p, u, i, n))
<1>1. op \in AllOps \cup {"none"}
  BY LifecycleAssumption
<1>2. New(op, p, u, i, n) \in Request
  BY <1>1 DEF New, Request
<1> QED BY <1>2 DEF OK

LEMMA IdleOK == OK(Idle)
<1>1. Shape(Idle)
  BY DEF Shape, Fits, Idle, New
<1> QED BY <1>1, NewOK, PcsOK, StoreAssumption DEF Idle

LEMMA MoveOK ==
    ASSUME NEW r, OK(r), NEW p \in Pc, Fits(r, p)
    PROVE  OK([r EXCEPT !.pc = p])
<1>1. [r EXCEPT !.pc = p] \in Request
  BY DEF OK, Request
<1>2. Shape([r EXCEPT !.pc = p])
  BY DEF OK, Request, Shape, Fits
<1> QED BY <1>1, <1>2 DEF OK

LEMMA RepliedOK ==
    ASSUME NEW r, OK(r), NEW s \in Status
    PROVE  OK(Replied(r, s))
<1>1. Replied(r, s) \in Request
  BY PcsOK DEF OK, Request, Replied
<1>2. Shape(Replied(r, s))
  BY DEF OK, Request, Replied, Shape, Fits
<1> QED BY <1>1, <1>2 DEF OK

LEMMA FailedOK ==
    ASSUME NEW r, OK(r)
    PROVE  OK(Failed(r))
<1>1. CASE r.op = "Clean"
  <2>1. Fits(r, "next")
    BY <1>1 DEF Fits
  <2> QED BY <1>1, <2>1, MoveOK, PcsOK DEF Failed, ServerPc
<1>2. CASE r.op # "Clean"
  BY <1>2, RepliedOK DEF Failed, Status
<1> QED BY <1>1, <1>2

LEMMA ParentOK ==
    ASSUME NEW r, OK(r), NEW w \in {"waiting", "killed", "gone"}
    PROVE  OK([r EXCEPT !.parent = w])
<1>1. [r EXCEPT !.parent = w] \in Request
  BY DEF OK, Request
<1>2. Shape([r EXCEPT !.parent = w])
  BY DEF OK, Request, Shape, Fits
<1> QED BY <1>1, <1>2 DEF OK

LEMMA InstOK ==
    ASSUME NEW r, OK(r), NEW p \in {"stop", "delrow"}, NEW n \in InstanceId,
           NEW T \in SUBSET (InstanceId \X User), r.op \in {"Clean", "ImageDestroy"}
    PROVE  OK([r EXCEPT !.pc = p, !.inst = n, !.todo = T])
<1>1. p \in Pc
  BY PcsOK DEF ScriptPc, CtxPc, ServerPc
<1>2. [r EXCEPT !.pc = p, !.inst = n, !.todo = T] \in Request
  BY <1>1 DEF OK, Request
<1>3. Shape([r EXCEPT !.pc = p, !.inst = n, !.todo = T])
  BY DEF OK, Request, Shape, Fits
<1> QED BY <1>2, <1>3 DEF OK

LEMMA TodoOK ==
    ASSUME NEW r, OK(r), NEW T \in SUBSET (InstanceId \X User)
    PROVE  OK([r EXCEPT !.todo = T])
<1>1. [r EXCEPT !.todo = T] \in Request
  BY DEF OK, Request
<1>2. Shape([r EXCEPT !.todo = T])
  BY DEF OK, Request, Shape, Fits
<1> QED BY <1>1, <1>2 DEF OK

LEMMA AtOK ==
    ASSUME ReqOK, NEW h \in Proc
    PROVE  OK(req[h])
BY DEF ReqOK, OK

LEMMA UpdateOK ==
    ASSUME ReqOK, NEW h \in Proc, NEW x, OK(x), req' = [req EXCEPT ![h] = x]
    PROVE  ReqOK'
BY DEF ReqOK, OK

LEMMA GotoOK ==
    ASSUME ReqOK, NEW h \in Proc, NEW p \in Pc, Fits(req[h], p), Goto(h, p)
    PROVE  ReqOK'
<1>1. req' = [req EXCEPT ![h] = [req[h] EXCEPT !.pc = p]]
  BY DEF Goto, ReqOK
<1> QED BY <1>1, UpdateOK, MoveOK, AtOK

LEMMA ReplyOK ==
    ASSUME ReqOK, NEW h \in Proc, NEW s \in Status, Reply(h, s)
    PROVE  ReqOK'
BY RepliedOK, UpdateOK, AtOK DEF Reply

LEMMA FailOK ==
    ASSUME ReqOK, NEW h \in Proc, Fail(h)
    PROVE  ReqOK'
BY FailedOK, UpdateOK, AtOK DEF Fail

LEMMA ScriptExitOK ==
    ASSUME ReqOK, NEW h \in Proc, NEW ok \in BOOLEAN, NEW next, OK(next),
           ScriptExit(h, ok, next)
    PROVE  ReqOK'
<1>1. OK(Failed([req[h] EXCEPT !.parent = "waiting"]))
  BY AtOK, ParentOK, FailedOK
<1>2. PICK x : OK(x) /\ req' = [req EXCEPT ![h] = x]
  BY <1>1, IdleOK DEF ScriptExit
<1> QED BY <1>2, UpdateOK

LEMMA ScriptFailOK ==
    ASSUME ReqOK, NEW h \in Proc, ScriptFail(h)
    PROVE  ReqOK'
BY ScriptExitOK, AtOK DEF ScriptFail

LEMMA ScriptReplyOK ==
    ASSUME ReqOK, NEW h \in Proc, NEW s \in Status, ScriptReply(h, s)
    PROVE  ReqOK'
BY ScriptExitOK, RepliedOK, AtOK DEF ScriptReply

LEMMA ScriptGotoOK ==
    ASSUME ReqOK, NEW h \in Proc, NEW p \in Pc, Fits(req[h], p), ScriptGoto(h, p)
    PROVE  ReqOK'
BY ScriptExitOK, MoveOK, AtOK DEF ScriptGoto

(* What TypeInv says besides ReqOK. *)
DataOK ==
    /\ StoreTypeOK
    /\ uploads \in [ImageId -> UploadState]
    /\ snapshots \subseteq ImageId
    /\ dirs \in [InstanceId -> DirState]
    /\ pg \in [InstanceId -> Port \cup {0}]
    /\ revoked \subseteq User \ {Upload}
    /\ faults \in 0..MaxFaults

LEMMA TypeInvParts == TypeInv <=> DataOK /\ ReqOK
BY DEF TypeInv, TypeOK, DataOK, ReqOK

LEMMA InitTypes == Init => TypeInv
<1> SUFFICES ASSUME Init PROVE DataOK /\ ReqOK
  BY TypeInvParts
<1>1. DataOK
  BY StoreAssumption, LifecycleAssumption
  DEF Init, StoreInit, DataOK, StoreTypeOK, UploadState, DirState, ImageId, InstanceId
<1>2. ReqOK
  BY IdleOK DEF Init, ReqOK, OK
<1> QED BY <1>1, <1>2

LEMMA ImageTypes ==
    ASSUME TypeInv, NEW h \in Proc, ImageStep(h)
    PROVE  TypeInv'
<1> SUFFICES DataOK' /\ ReqOK'
  BY DEF TypeInv, TypeOK, DataOK, ReqOK
<1>0. DataOK /\ ReqOK
  BY TypeInvParts
<1>1. CASE ImageCreate(h)
  <2>1. DataOK'
    BY <1>0, <1>1
    DEF ImageCreate, DataOK, StoreTypeOK, tables, imageTable, instanceTable, disk,
        InsertImage, ImageId
  <2>2. \A i \in ImageId : OK(New("ImageCreate", "mkvol", Upload, i, 0))
    BY <1>1, NewOK, PcsOK, StoreAssumption
    DEF ImageCreate, Accepts, Shape, Fits, New, ScriptPc, CtxPc
  <2>3. ReqOK'
    BY <1>0, <1>1, <2>2, UpdateOK DEF ImageCreate
  <2> QED BY <2>1, <2>3
<1>2. CASE CreateBtrfsSubvolume(h)
  <2>1. DataOK'
    BY <1>0, <1>2
    DEF CreateBtrfsSubvolume, DataOK, StoreTypeOK, tables, imageTable,
        instanceTable, disk, UploadState
  <2>2. ReqOK'
    BY <1>0, <1>2, ScriptReplyOK, ScriptFailOK DEF CreateBtrfsSubvolume, Status
  <2> QED BY <2>1, <2>2
<1>3. CASE ImageDone(h)
  <2>1. DataOK'
    BY <1>0, <1>3
    DEF ImageDone, DataOK, StoreTypeOK, tables, imageTable, instanceTable, disk
  <2>2. \A i \in ImageId : OK(New("ImageDone", "bootimage", Upload, i, 0))
    BY <1>3, NewOK, PcsOK, StoreAssumption
    DEF ImageDone, Accepts, Shape, Fits, New, ScriptPc, CtxPc
  <2> DEFINE r(i) == New("ImageDone", "bootimage", Upload, i, 0)
             x(i) == CASE images[i] = "none"  -> Replied(r(i), 404)
                       [] images[i] = "ready" -> Replied(r(i), 200)
                       [] OTHER               -> r(i)
  <2>3. \A i \in ImageId : OK(x(i))
    <3> SUFFICES ASSUME NEW i \in ImageId PROVE OK(x(i))
      OBVIOUS
    <3>1. OK(r(i)) /\ \A s \in Status : OK(Replied(r(i), s))
      BY <2>2, RepliedOK
    <3> QED BY <3>1 DEF Status
  <2>4. PICK i \in ImageId : req' = [req EXCEPT ![h] = x(i)]
    BY <1>3 DEF ImageDone
  <2>5. OK(x(i))
    BY <2>3
  <2> HIDE DEF x
  <2>6. ReqOK'
    BY <1>0, <2>4, <2>5, UpdateOK
  <2> QED BY <2>1, <2>6
<1>4. CASE BootImage(h)
  <2>1. DataOK'
    BY <1>0, <1>4
    DEF BootImage, DataOK, StoreTypeOK, tables, imageTable, instanceTable, disk,
        UploadState
  <2>2. Fits(req[h], "markstarted") /\ "markstarted" \in Pc /\ Fits(req[h], "seal") /\ "seal" \in Pc
    BY <1>0, <1>4, AtOK, PcsOK DEF BootImage, At, OK, Shape, Fits, ScriptPc, CtxPc
  <2>3. ReqOK'
    BY <1>0, <1>4, <2>2, GotoOK, ScriptFailOK DEF BootImage
  <2> QED BY <2>1, <2>3
<1>5. CASE MarkStarted(h)
  <2>1. DataOK'
    BY <1>0, <1>5
    DEF MarkStarted, DataOK, StoreTypeOK, tables, imageTable, instanceTable, disk,
        UploadState
  <2>2. Fits(req[h], "seal") /\ "seal" \in Pc
    BY <1>0, <1>5, AtOK, PcsOK DEF MarkStarted, At, OK, Shape, Fits, ScriptPc, CtxPc
  <2>3. ReqOK'
    BY <1>0, <1>5, <2>2, GotoOK, ScriptFailOK DEF MarkStarted
  <2> QED BY <2>1, <2>3
<1>6. CASE SealImage(h)
  <2>1. DataOK'
    BY <1>0, <1>6
    DEF SealImage, DataOK, StoreTypeOK, tables, imageTable, instanceTable, disk,
        UploadState
  <2>2. Fits(req[h], "snapshot") /\ "snapshot" \in Pc
    BY <1>0, <1>6, AtOK, PcsOK DEF SealImage, At, OK, Shape, Fits, ScriptPc, CtxPc
  <2>3. ReqOK'
    BY <1>0, <1>6, <2>2, GotoOK, ScriptFailOK DEF SealImage
  <2> QED BY <2>1, <2>3
<1>7. CASE SnapshotImage(h)
  <2>1. DataOK'
    BY <1>0, <1>7
    DEF SnapshotImage, DataOK, StoreTypeOK, tables, imageTable, instanceTable, disk,
        ReqOK, Shape, Fits
  <2>2. Fits(req[h], "markready") /\ "markready" \in Pc
    BY <1>0, <1>7, AtOK, PcsOK DEF SnapshotImage, At, OK, Shape, Fits, ServerPc
  <2>3. ReqOK'
    BY <1>0, <1>7, <2>2, ScriptGotoOK, ScriptFailOK DEF SnapshotImage
  <2> QED BY <2>1, <2>3
<1>8. CASE ImageMarkReady(h)
  <2>1. DataOK'
    BY <1>0, <1>8
    DEF ImageMarkReady, DataOK, StoreTypeOK, tables, imageTable, instanceTable,
        disk, CanMarkAsReady, MarkAsReady
  <2>2. ReqOK'
    BY <1>0, <1>8, ReplyOK, FailOK DEF ImageMarkReady, Status
  <2> QED BY <2>1, <2>2
<1>9. CASE ImageDestroy(h)
  <2>1. DataOK'
    BY <1>0, <1>9
    DEF ImageDestroy, DataOK, StoreTypeOK, tables, imageTable, instanceTable, disk
  <2>2. \A i \in ImageId, u \in User :
           OK(New("ImageDestroy", IF u = Upload THEN "list" ELSE "delimage", u, i, 0))
    BY <1>9, NewOK, PcsOK, StoreAssumption
    DEF ImageDestroy, Accepts, Shape, Fits, New, ServerPc
  <2> DEFINE r(i, u) == New("ImageDestroy", IF u = Upload THEN "list" ELSE "delimage", u, i, 0)
             x(i, u) == IF ImageExists(i) THEN r(i, u) ELSE Replied(r(i, u), 404)
  <2>3. \A i \in ImageId, u \in User : OK(x(i, u))
    <3> SUFFICES ASSUME NEW i \in ImageId, NEW u \in User PROVE OK(x(i, u))
      OBVIOUS
    <3>1. OK(r(i, u)) /\ \A s \in Status : OK(Replied(r(i, u), s))
      BY <2>2, RepliedOK
    <3> QED BY <3>1 DEF Status
  <2>4. PICK i \in ImageId, u \in User : req' = [req EXCEPT ![h] = x(i, u)]
    BY <1>9 DEF ImageDestroy
  <2>5. OK(x(i, u))
    BY <2>3
  <2> HIDE DEF x
  <2>6. ReqOK'
    BY <1>0, <2>4, <2>5, UpdateOK
  <2> QED BY <2>1, <2>6
<1>10. CASE ListInstances(h)
  <2>1. DataOK'
    BY <1>0, <1>10
    DEF ListInstances, DataOK, StoreTypeOK, tables, imageTable, instanceTable, disk
  <2> DEFINE T == {t \in InstanceList : t[1] \in InstancesOf(req[h].image)}
             r == [req[h] EXCEPT !.todo = T]
  <2>2. OK(r)
    <3>1. T \in SUBSET (InstanceId \X User)
      BY DEF InstanceList
    <3> QED BY <1>0, <3>1, AtOK, TodoOK
  <2>3. r.op = "ImageDestroy"
    BY <1>0, <1>10 DEF ListInstances, At, ReqOK, Request
  <2>4. OK([r EXCEPT !.pc = "next"])
    BY <2>2, <2>3, MoveOK, PcsOK DEF Fits, ServerPc
  <2>5. req' = [req EXCEPT ![h] = [r EXCEPT !.pc = "next"]]
    BY <1>0, <1>10 DEF ListInstances, ReqOK, Request
  <2>6. ReqOK'
    BY <1>0, <2>4, <2>5, UpdateOK
  <2> QED BY <2>1, <2>6
<1>11. CASE NextInstance(h)
  <2>1. DataOK'
    BY <1>0, <1>11
    DEF NextInstance, DataOK, StoreTypeOK, tables, imageTable, instanceTable, disk
  <2>2. req[h].op = "ImageDestroy"
    BY <1>11 DEF NextInstance, At
  <2>3. CASE req[h].todo = {}
    <3>1. Fits(req[h], "delimage") /\ "delimage" \in Pc
      BY <2>2, PcsOK DEF Fits, ServerPc
    <3> QED BY <1>0, <1>11, <2>1, <2>3, <3>1, GotoOK DEF NextInstance
  <2>4. CASE req[h].todo # {}
    <3>1. PICK t \in req[h].todo :
            req' = [req EXCEPT ![h].pc = "delrow", ![h].inst = t[1], ![h].todo = @ \ {t}]
      BY <1>11, <2>4 DEF NextInstance
    <3>2. t \in InstanceId \X User /\ req[h].todo \ {t} \in SUBSET (InstanceId \X User)
      BY <1>0 DEF ReqOK, Request
    <3> DEFINE r == [req[h] EXCEPT !.pc = "delrow", !.inst = t[1], !.todo = req[h].todo \ {t}]
    <3>3. OK(r)
      BY <1>0, <2>2, <3>2, InstOK, AtOK
    <3>4. req' = [req EXCEPT ![h] = r]
      BY <1>0, <3>1 DEF ReqOK, Request
    <3>5. ReqOK'
      BY <1>0, <3>3, <3>4, UpdateOK
    <3> QED BY <2>1, <3>5
  <2> QED BY <2>3, <2>4
<1>12. CASE ImageDeleteRow(h)
  <2>1. DataOK'
    BY <1>0, <1>12
    DEF ImageDeleteRow, DataOK, StoreTypeOK, tables, imageTable, instanceTable,
        disk, DeleteImage
  <2>2. Fits(req[h], "rmsnap") /\ "rmsnap" \in Pc
    BY <1>0, <1>12, AtOK, PcsOK
    DEF ImageDeleteRow, At, OK, Shape, Fits, ScriptPc, DetachedPc
  <2>3. ReqOK'
    BY <1>0, <1>12, <2>2, ReplyOK, GotoOK DEF ImageDeleteRow, Status
  <2> QED BY <2>1, <2>3
<1>13. CASE RemoveSnapshot(h)
  <2>1. DataOK'
    BY <1>0, <1>13
    DEF RemoveSnapshot, DataOK, StoreTypeOK, tables, imageTable, instanceTable, disk
  <2>2. Fits(req[h], "rmupload") /\ "rmupload" \in Pc
    BY <1>0, <1>13, AtOK, PcsOK
    DEF RemoveSnapshot, At, OK, Shape, Fits, ScriptPc, DetachedPc
  <2>3. ReqOK'
    BY <1>0, <1>13, <2>2, GotoOK DEF RemoveSnapshot
  <2> QED BY <2>1, <2>3
<1>14. CASE RemoveUpload(h)
  <2>1. DataOK'
    BY <1>0, <1>14
    DEF RemoveUpload, DataOK, StoreTypeOK, tables, imageTable, instanceTable, disk,
        UploadState
  <2>2. ReqOK'
    BY <1>0, <1>14, ScriptReplyOK, ScriptFailOK DEF RemoveUpload, Status
  <2> QED BY <2>1, <2>2
<1> QED BY <1>1, <1>2, <1>3, <1>4, <1>5, <1>6, <1>7, <1>8, <1>9, <1>10, <1>11, <1>12, <1>13,
<1>14
DEF ImageStep

LEMMA InstanceTypes ==
    ASSUME TypeInv, NEW h \in Proc, InstanceStep(h)
    PROVE  TypeInv'
<1> SUFFICES DataOK' /\ ReqOK'
  BY DEF TypeInv, TypeOK, DataOK, ReqOK
<1>0. DataOK /\ ReqOK
  BY TypeInvParts
<1>1. CASE InstanceCreate(h)
  <2>1. DataOK'
    BY <1>0, <1>1
    DEF InstanceCreate, DataOK, StoreTypeOK, tables, imageTable, instanceTable, disk
  <2>2. \A i \in ImageId, u \in User : OK(New("Create", "port", u, i, 0))
    BY <1>1, NewOK, PcsOK, StoreAssumption
    DEF InstanceCreate, Accepts, Shape, Fits, New, ServerPc
  <2> DEFINE r(i, u) == New("Create", "port", u, i, 0)
             x(i, u) == CASE images[i] = "none"    -> Replied(r(i, u), 404)
                          [] images[i] = "unready" -> Replied(r(i, u), 422)
                          [] OTHER                 -> r(i, u)
  <2>3. \A i \in ImageId, u \in User : OK(x(i, u))
    <3> SUFFICES ASSUME NEW i \in ImageId, NEW u \in User PROVE OK(x(i, u))
      OBVIOUS
    <3>1. OK(r(i, u)) /\ \A s \in Status : OK(Replied(r(i, u), s))
      BY <2>2, RepliedOK
    <3> QED BY <3>1 DEF Status
  <2>4. PICK i \in ImageId, u \in User : req' = [req EXCEPT ![h] = x(i, u)]
    BY <1>1 DEF InstanceCreate
  <2>5. OK(x(i, u))
    BY <2>3
  <2> HIDE DEF x
  <2>6. ReqOK'
    BY <1>0, <2>4, <2>5, UpdateOK
  <2> QED BY <2>1, <2>6
<1>2. CASE ChoosePort(h)
  <2>1. DataOK'
    BY <1>0, <1>2
    DEF ChoosePort, DataOK, StoreTypeOK, tables, imageTable, instanceTable, disk
  <2>2. CASE Fail(h)
    BY <1>0, <2>1, <2>2, FailOK
  <2>3. ASSUME NEW p \in Port, req' = [req EXCEPT ![h].pc = "insert", ![h].port = p]
        PROVE  ReqOK'
    <3> DEFINE r == [req[h] EXCEPT !.pc = "insert", !.port = p]
    <3>1. OK(req[h]) /\ req[h].op = "Create" /\ "insert" \in Pc
      BY <1>0, <1>2, AtOK, PcsOK DEF ChoosePort, At, ServerPc
    <3>2. r \in Request
      BY <3>1 DEF OK, Request
    <3>3. Shape(r)
      BY <3>1 DEF OK, Request, Shape, Fits
    <3>4. req' = [req EXCEPT ![h] = r]
      BY <1>0, <2>3 DEF ReqOK, Request
    <3> QED BY <1>0, <3>2, <3>3, <3>4, UpdateOK DEF OK
  <2> QED BY <1>2, <2>1, <2>2, <2>3 DEF ChoosePort
<1>3. CASE InsertRow(h)
  <2>1. DataOK'
    <3>1. req[h].image \in ImageId /\ req[h].port \in Port /\ req[h].user \in User
      BY <1>0, <1>3, AtOK DEF InsertRow, At, OK, Request, Shape, Fits
    <3>2. [image |-> req[h].image, port |-> req[h].port, user |-> req[h].user] \in InstanceRow
      BY <3>1 DEF InstanceRow
    <3>3. CASE UNCHANGED instanceTable
      BY <1>0, <1>3, <3>3
      DEF InsertRow, DataOK, StoreTypeOK, imageTable, instanceTable, disk
    <3>4. ASSUME NEW n \in InstanceId, InsertInstance(n, req[h].image, req[h].port, req[h].user)
          PROVE  DataOK'
      <4>1. /\ instances' \in [InstanceId -> InstanceRow \cup {NoRow}]
            /\ instanceSeq' \in 0..MaxInstances
        BY <1>0, <3>2, <3>4 DEF InsertInstance, DataOK, StoreTypeOK, InstanceId
      <4> QED BY <1>0, <1>3, <4>1 DEF InsertRow, DataOK, StoreTypeOK, imageTable, disk
    <3> QED BY <1>3, <3>3, <3>4 DEF InsertRow
  <2>2. CASE Reply(h, Aborted)
    BY <1>0, <2>1, <2>2, ReplyOK DEF Status
  <2>3. ASSUME NEW n \in InstanceId, req' = [req EXCEPT ![h].pc = "clone", ![h].inst = n]
        PROVE  ReqOK'
    <3> DEFINE r == [req[h] EXCEPT !.pc = "clone", !.inst = n]
    <3>1. OK(req[h]) /\ req[h].op = "Create" /\ "clone" \in Pc
      BY <1>0, <1>3, AtOK, PcsOK DEF InsertRow, At, ScriptPc, DetachedPc
    <3>2. r \in Request
      BY <3>1 DEF OK, Request
    <3>3. Shape(r)
      BY <3>1 DEF OK, Request, Shape, Fits
    <3>4. req' = [req EXCEPT ![h] = r]
      BY <1>0, <2>3 DEF ReqOK, Request
    <3> QED BY <1>0, <3>2, <3>3, <3>4, UpdateOK DEF OK
  <2> QED BY <1>3, <2>1, <2>2, <2>3 DEF InsertRow
<1>4. CASE CloneSnapshot(h)
  <2>1. DataOK'
    BY <1>0, <1>4
    DEF CloneSnapshot, DataOK, StoreTypeOK, tables, imageTable, instanceTable, disk,
        DirState
  <2>2. Fits(req[h], "certs") /\ "certs" \in Pc
    BY <1>0, <1>4, AtOK, PcsOK
    DEF CloneSnapshot, At, OK, Shape, Fits, ScriptPc, DetachedPc
  <2>3. ReqOK'
    BY <1>0, <1>4, <2>2, GotoOK, ScriptFailOK DEF CloneSnapshot
  <2> QED BY <2>1, <2>3
<1>5. CASE WriteCerts(h)
  <2>1. DataOK'
    BY <1>0, <1>5
    DEF WriteCerts, DataOK, StoreTypeOK, tables, imageTable, instanceTable, disk,
        DirState
  <2>2. Fits(req[h], "boot") /\ "boot" \in Pc
    BY <1>0, <1>5, AtOK, PcsOK DEF WriteCerts, At, OK, Shape, Fits, ScriptPc, DetachedPc
  <2>3. ReqOK'
    BY <1>0, <1>5, <2>2, GotoOK, ScriptFailOK DEF WriteCerts
  <2> QED BY <2>1, <2>3
<1>6. CASE StartPostgres(h)
  <2>1. DataOK'
    BY <1>0, <1>6
    DEF StartPostgres, DataOK, StoreTypeOK, tables, imageTable, instanceTable, disk,
        ReqOK, Request
  <2>2. Fits(req[h], "validate") /\ "validate" \in Pc
    BY <1>0, <1>6, AtOK, PcsOK
    DEF StartPostgres, At, OK, Shape, Fits, ScriptPc, DetachedPc
  <2>3. ReqOK'
    BY <1>0, <1>6, <2>2, GotoOK, ScriptFailOK DEF StartPostgres
  <2> QED BY <2>1, <2>3
<1>7. CASE ValidateAndRestart(h)
  <2>1. DataOK'
    BY <1>0, <1>7
    DEF ValidateAndRestart, DataOK, StoreTypeOK, tables, imageTable, instanceTable,
        disk
  <2>2. Fits(req[h], "creds") /\ "creds" \in Pc
    BY <1>0, <1>7, AtOK, PcsOK DEF ValidateAndRestart, At, OK, Shape, Fits, ServerPc
  <2>3. ReqOK'
    BY <1>0, <1>7, <2>2, ScriptGotoOK, ScriptFailOK DEF ValidateAndRestart
  <2> QED BY <2>1, <2>3
<1>8. CASE InstanceGet(h)
  <2>1. DataOK'
    BY <1>0, <1>8
    DEF InstanceGet, DataOK, StoreTypeOK, tables, imageTable, instanceTable, disk
  <2>2. \A n \in InstanceId, u \in User : OK(New("Get", "creds", u, 0, n))
    BY <1>8, NewOK, PcsOK, StoreAssumption
    DEF InstanceGet, Accepts, Shape, Fits, New, ServerPc
  <2> DEFINE r(n, u) == New("Get", "creds", u, 0, n)
             x(n, u) == IF instances[n] # NoRow /\ instances[n].user = u
                          THEN r(n, u) ELSE Replied(r(n, u), 404)
  <2>3. \A n \in InstanceId, u \in User : OK(x(n, u))
    <3> SUFFICES ASSUME NEW n \in InstanceId, NEW u \in User PROVE OK(x(n, u))
      OBVIOUS
    <3>1. OK(r(n, u)) /\ \A s \in Status : OK(Replied(r(n, u), s))
      BY <2>2, RepliedOK
    <3> QED BY <3>1 DEF Status
  <2>4. PICK n \in InstanceId, u \in User : req' = [req EXCEPT ![h] = x(n, u)]
    BY <1>8 DEF InstanceGet, InstanceExists
  <2>5. OK(x(n, u))
    BY <2>3
  <2> HIDE DEF x
  <2>6. ReqOK'
    BY <1>0, <2>4, <2>5, UpdateOK
  <2> QED BY <2>1, <2>6
<1>9. CASE RetrieveInstanceCredentials(h)
  <2>1. DataOK'
    BY <1>0, <1>9
    DEF RetrieveInstanceCredentials, DataOK, StoreTypeOK, tables, imageTable,
        instanceTable, disk
  <2>2. Fits(req[h], "whitelist") /\ "whitelist" \in Pc
    BY <1>0, <1>9, AtOK, PcsOK
    DEF RetrieveInstanceCredentials, At, OK, Shape, Fits, ServerPc
  <2>3. ReqOK'
    BY <1>0, <1>9, <2>2, ReplyOK, GotoOK DEF RetrieveInstanceCredentials, Status
  <2> QED BY <2>1, <2>3
<1>10. CASE WhitelistAddress(h)
  <2>1. DataOK'
    <3>1. req[h].inst \in InstanceId
      BY <1>0, <1>10, AtOK DEF WhitelistAddress, OK, Shape, Fits
    <3> QED BY <1>0, <1>10, <3>1 DEF WhitelistAddress, InsertAddress, CanWhitelist, DataOK, StoreTypeOK, tables, imageTable, instanceTable, disk
  <2>2. Fits(req[h], "apply") /\ "apply" \in Pc
    BY <1>0, <1>10, AtOK, PcsOK DEF WhitelistAddress, At, OK, Shape, Fits, ServerPc
  <2>3. ReqOK'
    BY <1>0, <1>10, <2>2, GotoOK, FailOK DEF WhitelistAddress
  <2> QED BY <2>1, <2>3
<1>11. CASE ApplyWhitelist(h)
  <2>1. DataOK'
    BY <1>0, <1>11
    DEF ApplyWhitelist, DataOK, StoreTypeOK, tables, imageTable, instanceTable, disk
  <2>2. req[h].op \in {"Create", "Get", "Destroy"}
    BY <1>0, <1>11, AtOK DEF ApplyWhitelist, OK, Shape, Fits
  <2>3. ReqOK'
    BY <1>0, <1>11, <2>2, ReplyOK DEF ApplyWhitelist, Status
  <2> QED BY <2>1, <2>3
<1>12. CASE InstanceDestroy(h)
  <2>1. DataOK'
    BY <1>0, <1>12
    DEF InstanceDestroy, DataOK, StoreTypeOK, tables, imageTable, instanceTable,
        disk
  <2>2. \A n \in InstanceId, u \in User : OK(New("Destroy", "stop", u, 0, n))
    BY <1>12, NewOK, PcsOK, StoreAssumption
    DEF InstanceDestroy, Accepts, Shape, Fits, New, ScriptPc, CtxPc
  <2> DEFINE r(n, u) == New("Destroy", "stop", u, 0, n)
             x(n, u) == IF instances[n] # NoRow /\ u \in {Upload, instances[n].user}
                          THEN r(n, u) ELSE Replied(r(n, u), 404)
  <2>3. \A n \in InstanceId, u \in User : OK(x(n, u))
    <3> SUFFICES ASSUME NEW n \in InstanceId, NEW u \in User PROVE OK(x(n, u))
      OBVIOUS
    <3>1. OK(r(n, u)) /\ \A s \in Status : OK(Replied(r(n, u), s))
      BY <2>2, RepliedOK
    <3> QED BY <3>1 DEF Status
  <2>4. PICK n \in InstanceId, u \in User : req' = [req EXCEPT ![h] = x(n, u)]
    BY <1>12 DEF InstanceDestroy, InstanceExists
  <2>5. OK(x(n, u))
    BY <2>3
  <2> HIDE DEF x
  <2>6. ReqOK'
    BY <1>0, <2>4, <2>5, UpdateOK
  <2> QED BY <2>1, <2>6
<1>13. CASE StopPostgres(h)
  <2>1. DataOK'
    BY <1>0, <1>13
    DEF StopPostgres, DataOK, StoreTypeOK, tables, imageTable, instanceTable, disk
  <2>2. Fits(req[h], "rmdir") /\ "rmdir" \in Pc
    BY <1>0, <1>13, AtOK, PcsOK DEF StopPostgres, At, OK, Shape, Fits, ScriptPc, CtxPc
  <2>3. ReqOK'
    BY <1>0, <1>13, <2>2, GotoOK DEF StopPostgres
  <2> QED BY <2>1, <2>3
<1>14. CASE RemoveDir(h)
  <2>1. DataOK'
    BY <1>0, <1>14
    DEF RemoveDir, DataOK, StoreTypeOK, tables, imageTable, instanceTable, disk,
        DirState
  <2>2. /\ "next" \in Pc /\ "delrow" \in Pc
        /\ Fits(req[h], "delrow")
        /\ req[h].op = "ImageDestroy" => Fits(req[h], "next")
    BY <1>0, <1>14, AtOK, PcsOK DEF RemoveDir, OK, Shape, Fits, ServerPc
  <2>3. ReqOK'
    BY <1>0, <1>14, <2>2, ScriptGotoOK, ScriptFailOK DEF RemoveDir
  <2> QED BY <2>1, <2>3
<1>15. CASE DeleteRow(h)
  <2>1. DataOK'
    BY <1>0, <1>15
    DEF DeleteRow, DataOK, StoreTypeOK, tables, imageTable, instanceTable, disk,
        DeleteInstance
  <2>2. req[h].op \in {"Destroy", "Clean", "ImageDestroy"} /\ req[h].inst \in InstanceId
    BY <1>0, <1>15, AtOK DEF DeleteRow, OK, Shape, Fits
  <2>3. /\ "apply" \in Pc /\ "next" \in Pc /\ "stop" \in Pc
        /\ req[h].op = "Destroy" => Fits(req[h], "apply")
        /\ req[h].op = "Clean" => Fits(req[h], "next")
        /\ req[h].op = "ImageDestroy" => Fits(req[h], "stop")
    BY <2>2, PcsOK DEF Fits, ServerPc, ScriptPc, CtxPc
  <2>4. ReqOK'
    BY <1>0, <1>15, <2>2, <2>3, GotoOK DEF DeleteRow
  <2> QED BY <2>1, <2>4
<1> QED BY <1>1, <1>2, <1>3, <1>4, <1>5, <1>6, <1>7, <1>8, <1>9, <1>10, <1>11, <1>12, <1>13,
<1>14, <1>15
DEF InstanceStep

LEMMA CleanerTypes ==
    ASSUME TypeInv, CleanerStep
    PROVE  TypeInv'
<1> SUFFICES DataOK' /\ ReqOK'
  BY DEF TypeInv, TypeOK, DataOK, ReqOK
<1>0. DataOK /\ ReqOK /\ Cleaner \in Proc
  BY TypeInvParts DEF Proc
<1>1. CASE Clean
  <2>1. DataOK'
    BY <1>0, <1>1
    DEF Clean, DataOK, StoreTypeOK, tables, imageTable, instanceTable, disk
  <2>2. OK(New("Clean", "next", Upload, 0, 0))
    BY <1>1, NewOK, PcsOK, StoreAssumption DEF Clean, Shape, Fits, New, ServerPc
  <2>3. OK([New("Clean", "next", Upload, 0, 0) EXCEPT !.todo = InstanceList])
    BY <2>2, TodoOK DEF InstanceList
  <2>4. ReqOK'
    BY <1>0, <1>1, <2>3, UpdateOK DEF Clean
  <2> QED BY <2>1, <2>4
<1>2. CASE CheckToken
  <2>1. DataOK'
    BY <1>0, <1>2, LifecycleAssumption
    DEF CheckToken, DataOK, StoreTypeOK, tables, imageTable, instanceTable, disk
  <2> DEFINE rest(t) == [req[Cleaner] EXCEPT !.todo = req[Cleaner].todo \ {t}]
             doomed(t) == [rest(t) EXCEPT !.pc = "stop", !.inst = t[1]]
  <2>2. PICK t \in req[Cleaner].todo :
           \/ req' = [req EXCEPT ![Cleaner] = rest(t)]
           \/ req' = [req EXCEPT ![Cleaner] = doomed(t)]
    BY <1>2 DEF CheckToken
  <2>3. t \in InstanceId \X User /\ req[Cleaner].todo \ {t} \in SUBSET (InstanceId \X User)
    BY <1>0 DEF ReqOK, Request
  <2>4. OK(rest(t))
    BY <1>0, <2>3, AtOK, TodoOK
  <2>5. OK(doomed(t))
    <3>1. req[Cleaner].op = "Clean"
      BY <1>2 DEF CheckToken, At
    <3>2. doomed(t) = [req[Cleaner] EXCEPT !.pc = "stop", !.inst = t[1],
                                           !.todo = req[Cleaner].todo \ {t}]
      BY <1>0 DEF ReqOK, Request
    <3>3. OK([req[Cleaner] EXCEPT !.pc = "stop", !.inst = t[1],
                                  !.todo = req[Cleaner].todo \ {t}])
      BY <1>0, <2>3, <3>1, AtOK, InstOK
    <3> QED BY <3>2, <3>3
  <2> HIDE DEF rest, doomed
  <2>6. ReqOK'
    BY <1>0, <2>2, <2>4, <2>5, UpdateOK
  <2> QED BY <2>1, <2>6
<1>3. CASE CleanEnd
  <2>1. DataOK'
    BY <1>0, <1>3
    DEF CleanEnd, DataOK, StoreTypeOK, tables, imageTable, instanceTable, disk
  <2>2. ReqOK'
    BY <1>0, <1>3, IdleOK, UpdateOK DEF CleanEnd
  <2> QED BY <2>1, <2>2
<1> QED BY <1>1, <1>2, <1>3 DEF CleanerStep

LEMMA OnStatementErrorOK ==
    ASSUME NEW r, OK(r), r.pc \in ServerPc
    PROVE  OK(OnStatementError(r))
<1>1. OK(Replied(r, 200)) /\ OK(Failed(r))
  BY RepliedOK, FailedOK DEF Status
<1>2. r.pc = "list" => OK([r EXCEPT !.pc = "next"])
  BY MoveOK, PcsOK DEF OK, Shape, Fits, ServerPc
<1> QED BY <1>1, <1>2 DEF OnStatementError

(* A statement whose answer is lost has the effect of one that is           *)
(* acknowledged; its handler goes on as if it had failed.                  *)
LEMMA UnacknowledgedTypes ==
    ASSUME TypeInv, NEW h \in Proc, Unacknowledged(h)
    PROVE  DataOK' /\ ReqOK'
<1> DEFINE r == req[h]
<1>0. DataOK /\ ReqOK /\ OK(r)
  BY TypeInvParts, AtOK
<1>1. /\ TakesEffect(r)
      /\ req' = [req EXCEPT ![h] = OnStatementError(r)]
      /\ UNCHANGED <<disk, revoked>>
      /\ faults' \in 0..MaxFaults
  BY <1>0, LifecycleAssumption DEF Unacknowledged, DataOK
<1>2. r.pc \in ServerPc
  BY <1>1 DEF TakesEffect, ServerPc
<1>3. ReqOK'
  BY <1>0, <1>1, <1>2, OnStatementErrorOK, UpdateOK
<1>4. StoreTypeOK'
  <2>1. CASE r.pc = "insert" /\ UNCHANGED <<imageTable, addresses>>
             /\ \E n \in InstanceId : InsertInstance(n, r.image, r.port, r.user)
    <3>1. r.image \in ImageId /\ r.port \in Port /\ r.user \in User
      BY <1>0, <2>1 DEF OK, Request, Shape, Fits
    <3>2. [image |-> r.image, port |-> r.port, user |-> r.user] \in InstanceRow
      BY <3>1 DEF InstanceRow
    <3>3. /\ instances' \in [InstanceId -> InstanceRow \cup {NoRow}]
          /\ instanceSeq' \in 0..MaxInstances
      BY <1>0, <2>1, <3>2 DEF InsertInstance, DataOK, StoreTypeOK, InstanceId
    <3> QED BY <1>0, <2>1, <3>3 DEF DataOK, StoreTypeOK, imageTable
  <2>2. CASE /\ r.pc = "whitelist" /\ UNCHANGED <<imageTable, instanceTable>>
             /\ \E a \in Addr : InsertAddress(a, r.inst)
    <3>1. r.inst \in InstanceId
      BY <1>0, <2>2 DEF OK, Shape, Fits
    <3> QED BY <1>0, <2>2, <3>1
            DEF InsertAddress, DataOK, StoreTypeOK, imageTable, instanceTable
  <2>3. CASE /\ MarkAsReady(r.image) \/ DeleteImage(r.image)
             /\ UNCHANGED <<instanceTable, addresses>>
    BY <1>0, <2>3 DEF MarkAsReady, DeleteImage, DataOK, StoreTypeOK, instanceTable
  <2>4. CASE DeleteInstance(r.inst) /\ UNCHANGED imageTable
    BY <1>0, <2>4 DEF DeleteInstance, DataOK, StoreTypeOK, imageTable
  <2> QED BY <1>1, <2>1, <2>2, <2>3, <2>4 DEF TakesEffect
<1> QED BY <1>0, <1>1, <1>3, <1>4 DEF DataOK, disk

LEMMA CreateUnacknowledgedTypes ==
    ASSUME TypeInv, NEW h \in Proc, CreateUnacknowledged(h)
    PROVE  DataOK' /\ ReqOK'
<1>0. DataOK /\ ReqOK
  BY TypeInvParts
<1>1. DataOK'
  BY <1>0, LifecycleAssumption
  DEF CreateUnacknowledged, InsertImage, ImageId, DataOK, StoreTypeOK, instanceTable, disk
<1>2. \A i \in ImageId : OK(New("ImageCreate", "mkvol", Upload, i, 0))
  BY NewOK, PcsOK, StoreAssumption
  DEF CreateUnacknowledged, Accepts, Shape, Fits, New, ScriptPc, CtxPc
<1>3. \A i \in ImageId : OK(Replied(New("ImageCreate", "mkvol", Upload, i, 0), 500))
  BY <1>2, RepliedOK DEF Status
<1>4. PICK i \in ImageId :
        req' = [req EXCEPT ![h] = Replied(New("ImageCreate", "mkvol", Upload, i, 0), 500)]
  BY DEF CreateUnacknowledged
<1>5. ReqOK'
  BY <1>0, <1>3, <1>4, UpdateOK
<1> QED BY <1>1, <1>5

(* A list that is cut short moves one request on, and nothing else. *)
LEMMA CutShort ==
    ASSUME TypeInv, NEW h \in Proc, TruncatedList(h)
    PROVE  /\ UNCHANGED <<tables, disk, revoked>>
           /\ \/ /\ At(h, "Create", "port")
                 /\ \E p \in Port :
                      req' = [req EXCEPT ![h] = [req[h] EXCEPT !.pc = "insert", !.port = p]]
              \/ /\ At(h, "ImageDestroy", "list")
                 /\ \E s \in SUBSET InstanceList :
                      req' = [req EXCEPT ![h] = [req[h] EXCEPT !.pc = "next", !.todo = s]]
              \/ /\ h = Cleaner /\ "Clean" \in Ops /\ req[h].pc = "idle"
                 /\ \E s \in SUBSET InstanceList :
                      req' = [req EXCEPT ![h] = [New("Clean", "next", Upload, 0, 0)
                                                  EXCEPT !.todo = s]]
<1>1. PICK k \in InstanceId :
        LET seen == {t \in InstanceList : t[1] < k}
        IN  \/ /\ At(h, "Create", "port")
               /\ \E p \in Port : req' = [req EXCEPT ![h].pc = "insert", ![h].port = p]
            \/ /\ At(h, "ImageDestroy", "list")
               /\ req' = [req EXCEPT ![h].pc = "next",
                                     ![h].todo = {t \in seen : t[1] \in InstancesOf(req[h].image)}]
            \/ /\ h = Cleaner /\ "Clean" \in Ops /\ req[h].pc = "idle"
               /\ req' = [req EXCEPT ![h] = [New("Clean", "next", Upload, 0, 0)
                                               EXCEPT !.todo = seen]]
  BY DEF TruncatedList
<1> DEFINE seen == {t \in InstanceList : t[1] < k}
           ours == {t \in seen : t[1] \in InstancesOf(req[h].image)}
<1>2. seen \in SUBSET InstanceList /\ ours \in SUBSET InstanceList
  OBVIOUS
<1> HIDE DEF seen, ours
<1>3. \/ /\ At(h, "Create", "port")
         /\ \E p \in Port : req' = [req EXCEPT ![h].pc = "insert", ![h].port = p]
      \/ /\ At(h, "ImageDestroy", "list")
         /\ req' = [req EXCEPT ![h].pc = "next", ![h].todo = ours]
      \/ /\ h = Cleaner /\ "Clean" \in Ops /\ req[h].pc = "idle"
         /\ req' = [req EXCEPT ![h] = [New("Clean", "next", Upload, 0, 0) EXCEPT !.todo = seen]]
  BY <1>1 DEF seen, ours
<1>4. \A p, s : /\ [req EXCEPT ![h].pc = "insert", ![h].port = p]
                     = [req EXCEPT ![h] = [req[h] EXCEPT !.pc = "insert", !.port = p]]
                /\ [req EXCEPT ![h].pc = "next", ![h].todo = s]
                     = [req EXCEPT ![h] = [req[h] EXCEPT !.pc = "next", !.todo = s]]
  BY DEF TypeInv, TypeOK, Request
<1> QED BY <1>2, <1>3, <1>4 DEF TruncatedList

LEMMA TruncatedListTypes ==
    ASSUME TypeInv, NEW h \in Proc, TruncatedList(h)
    PROVE  DataOK' /\ ReqOK'
<1>0. DataOK /\ ReqOK /\ OK(req[h])
  BY TypeInvParts, AtOK
<1>1. DataOK'
  BY <1>0, LifecycleAssumption
  DEF TruncatedList, DataOK, StoreTypeOK, tables, imageTable, instanceTable, disk
<1>2. ASSUME At(h, "Create", "port"), NEW p \in Port
      PROVE  OK([req[h] EXCEPT !.pc = "insert", !.port = p])
  <2>1. req[h].op = "Create" /\ "insert" \in Pc
    BY <1>2, PcsOK DEF At, ServerPc
  <2> QED BY <1>0, <2>1 DEF OK, Request, Shape, Fits
<1>3. ASSUME At(h, "ImageDestroy", "list"), NEW s \in SUBSET (InstanceId \X User)
      PROVE  OK([req[h] EXCEPT !.pc = "next", !.todo = s])
  <2>1. req[h].op = "ImageDestroy" /\ "next" \in Pc
    BY <1>3, PcsOK DEF At, ServerPc
  <2> QED BY <1>0, <2>1 DEF OK, Request, Shape, Fits
<1>4. ASSUME "Clean" \in Ops, NEW s \in SUBSET (InstanceId \X User)
      PROVE  OK([New("Clean", "next", Upload, 0, 0) EXCEPT !.todo = s])
  <2>1. OK(New("Clean", "next", Upload, 0, 0))
    BY <1>4, NewOK, PcsOK, StoreAssumption DEF Shape, Fits, New, ServerPc
  <2> QED BY <2>1, TodoOK
<1>5. ReqOK'
  <2>1. InstanceList \subseteq InstanceId \X User
    BY DEF InstanceList
  <2> QED BY <1>0, <1>2, <1>3, <1>4, <2>1, CutShort, UpdateOK
<1> QED BY <1>1, <1>5

LEMMA OtherTypes ==
    ASSUME TypeInv, (\E h \in Proc : Finish(h)) \/ (\E u \in User : Revoke(u)) \/ Fault
    PROVE  TypeInv'
<1> SUFFICES DataOK' /\ ReqOK'
  BY DEF TypeInv, TypeOK, DataOK, ReqOK
<1>0. DataOK /\ ReqOK
  BY TypeInvParts
<1>1. ASSUME NEW h \in Proc, Finish(h) PROVE DataOK' /\ ReqOK'
  <2>1. DataOK'
    BY <1>0, <1>1
    DEF Finish, DataOK, StoreTypeOK, tables, imageTable, instanceTable, disk
  <2>2. ReqOK'
    BY <1>0, <1>1, IdleOK, UpdateOK DEF Finish
  <2> QED BY <2>1, <2>2
<1>2. ASSUME NEW u \in User, Revoke(u) PROVE DataOK' /\ ReqOK'
  BY <1>0, <1>2
  DEF Revoke, DataOK, ReqOK, StoreTypeOK, tables, imageTable, instanceTable, disk, Shape, Fits
<1>3. ASSUME NEW h \in Proc, ScriptFault(h) PROVE DataOK' /\ ReqOK'
  <2>1. DataOK'
    BY <1>0, <1>3, LifecycleAssumption
    DEF ScriptFault, DataOK, StoreTypeOK, tables, imageTable, instanceTable, disk
  <2>2. CASE ScriptFail(h)
    BY <1>0, <2>1, <2>2, ScriptFailOK
  <2>3. CASE req[h].pc = "stop" /\ Goto(h, "rmdir")
    <3>1. Fits(req[h], "rmdir") /\ "rmdir" \in Pc
      BY <1>0, <2>3, AtOK, PcsOK DEF OK, Shape, Fits, ScriptPc, CtxPc
    <3> QED BY <1>0, <2>1, <2>3, <3>1, GotoOK
  <2> QED BY <1>3, <2>2, <2>3 DEF ScriptFault
<1>4. ASSUME NEW h \in Proc, StatementFault(h) PROVE DataOK' /\ ReqOK'
  <2>1. DataOK'
    BY <1>0, <1>4, LifecycleAssumption
    DEF StatementFault, DataOK, StoreTypeOK, tables, imageTable, instanceTable, disk
  <2>2. OK(OnStatementError(req[h]))
    BY <1>0, <1>4, AtOK, OnStatementErrorOK DEF StatementFault
  <2>3. ReqOK'
    BY <1>0, <1>4, <2>2, UpdateOK DEF StatementFault
  <2> QED BY <2>1, <2>3
<1>5. ASSUME NEW h \in Proc, Disconnect(h) PROVE DataOK' /\ ReqOK'
  <2>1. DataOK'
    BY <1>0, <1>5, LifecycleAssumption
    DEF Disconnect, DataOK, StoreTypeOK, tables, imageTable, instanceTable, disk
  <2>2. OK([req[h] EXCEPT !.parent = "killed"])
    BY <1>0, AtOK, ParentOK
  <2>3. \/ req' = [req EXCEPT ![h] = [req[h] EXCEPT !.parent = "killed"]]
        \/ Fail(h)
    BY <1>0, <1>5 DEF Disconnect, ReqOK
  <2>4. ReqOK'
    BY <1>0, <2>2, <2>3, UpdateOK, FailOK
  <2> QED BY <2>1, <2>4
<1>6. CASE Crash
  <2>1. DataOK'
    BY <1>0, <1>6, LifecycleAssumption
    DEF Crash, DataOK, StoreTypeOK, tables, imageTable, instanceTable, disk
  <2>2. \A h \in Proc : OK([req[h] EXCEPT !.parent = "gone"])
    BY <1>0, AtOK, ParentOK
  <2>3. \A h \in Proc : OK(IF req[h].pc \in ScriptPc
                             THEN [req[h] EXCEPT !.parent = "gone"] ELSE Idle)
    BY <2>2, IdleOK
  <2>4. ReqOK'
    BY <1>6, <2>3 DEF Crash, ReqOK, OK
  <2> QED BY <2>1, <2>4
<1> QED BY <1>1, <1>2, <1>3, <1>4, <1>5, <1>6, UnacknowledgedTypes, CreateUnacknowledgedTypes,
           TruncatedListTypes DEF Fault

LEMMA NextTypes ==
    ASSUME TypeInv, [Next]_vars
    PROVE  TypeInv'
<1>1. CASE UNCHANGED vars
  BY <1>1 DEF vars, disk, tables, imageTable, instanceTable, TypeInv, TypeOK, StoreTypeOK,
              Shape, Fits
<1>2. CASE Next
  BY <1>2, ImageTypes, InstanceTypes, CleanerTypes, OtherTypes DEF Next
<1> QED BY <1>1, <1>2

(* Whatever interleaving, failures and crashes: the tables, the directories *)
(* and what every handler remembers keep their types; in particular a port *)
(* comes from [min_instance_port, max_instance_port) whenever a row or a   *)
(* server has one, and every label belongs to an operation that reaches it *)
(* with the image and the instance it needs.                               *)
THEOREM Typed == Spec => []TypeInv
BY InitTypes, NextTypes, PTL DEF Spec

(* The type invariant of the runs. *)
THEOREM TypeCorrect == Spec => []TypeOK
<1>1. TypeInv => TypeOK
  BY DEF TypeInv
<1> QED BY <1>1, Typed, PTL

-----------------------------------------------------------------------------
(***************************************************************************)
(* Images.  Most steps leave the tables and the snapshots alone and change *)
(* one request: for those it is enough that the new request satisfies      *)
(* ImageReq.                                                               *)
(***************************************************************************)
LEMMA InitImage == Init => ImageInv
BY StoreAssumption
DEF Init, StoreInit, ImageInv, ImageReq, ReadyImageHasSnapshot, InstanceOfReadyImage,
    Idle, New, ImageId, InstanceId

LEMMA CalmImage ==
    ASSUME TypeInv, ImageInv, UNCHANGED <<images, imageSeq, snapshots, instances>>,
           NEW h \in Proc, NEW x, ImageReq(x), req' = [req EXCEPT ![h] = x]
    PROVE  ImageInv'
BY DEF TypeInv, TypeOK, ImageInv, ImageReq, ReadyImageHasSnapshot, InstanceOfReadyImage

LEMMA IdleImage == TypeInv => ImageReq(Idle)
BY DEF TypeInv, TypeOK, StoreTypeOK, ImageReq, Idle, New

LEMMA MoveImage ==
    ASSUME NEW r \in Request, ImageReq(r), r.pc \notin {"idle", "reply"},
           NEW p, p \notin {"markready", "rmsnap", "port", "insert"}
    PROVE  ImageReq([r EXCEPT !.pc = p])
BY DEF ImageReq, Request

LEMMA RepliedImage ==
    ASSUME NEW r \in Request, NEW s
    PROVE  ImageReq(Replied(r, s))
BY DEF ImageReq, Replied, Request

LEMMA FailedImage ==
    ASSUME NEW r \in Request, ImageReq(r), r.pc \notin {"idle", "reply"}
    PROVE  ImageReq(Failed(r))
BY MoveImage, RepliedImage DEF Failed

LEMMA ParentImage ==
    ASSUME NEW r \in Request, NEW w \in {"waiting", "killed", "gone"}
    PROVE  /\ [r EXCEPT !.parent = w] \in Request
           /\ [r EXCEPT !.parent = w].pc = r.pc
           /\ ImageReq(r) => ImageReq([r EXCEPT !.parent = w])
BY DEF Request, ImageReq

(* What is known of a request that is at a label. *)
LEMMA ReqImage ==
    ASSUME TypeInv, ImageInv, NEW h \in Proc
    PROVE  req[h] \in Request /\ ImageReq(req[h])
BY DEF TypeInv, TypeOK, ImageInv

LEMMA GotoImage ==
    ASSUME TypeInv, ImageInv, UNCHANGED <<images, imageSeq, snapshots, instances>>,
           NEW h \in Proc, req[h].pc \notin {"idle", "reply"},
           NEW p, p \notin {"markready", "rmsnap", "port", "insert"}, Goto(h, p)
    PROVE  ImageInv'
<1>1. ImageReq([req[h] EXCEPT !.pc = p])
  BY ReqImage, MoveImage
<1>2. req' = [req EXCEPT ![h] = [req[h] EXCEPT !.pc = p]]
  BY DEF Goto, TypeInv, TypeOK
<1> QED BY <1>1, <1>2, CalmImage

LEMMA ReplyImage ==
    ASSUME TypeInv, ImageInv, UNCHANGED <<images, imageSeq, snapshots, instances>>,
           NEW h \in Proc, NEW s, Reply(h, s)
    PROVE  ImageInv'
BY ReqImage, RepliedImage, CalmImage DEF Reply

LEMMA FailImage ==
    ASSUME TypeInv, ImageInv, UNCHANGED <<images, imageSeq, snapshots, instances>>,
           NEW h \in Proc, req[h].pc \notin {"idle", "reply"}, Fail(h)
    PROVE  ImageInv'
BY ReqImage, FailedImage, CalmImage DEF Fail

(* The request a script leaves behind, whether or not it changed anything. *)
LEMMA ExitImage ==
    ASSUME TypeInv, ImageInv, NEW h \in Proc, req[h].pc \notin {"idle", "reply"},
           NEW ok \in BOOLEAN, NEW next, ScriptExit(h, ok, next)
    PROVE  \E x : /\ req' = [req EXCEPT ![h] = x]
                  /\ x = next \/ (ImageReq(x) /\ x.pc \notin {"markready", "rmsnap"})
<1> DEFINE f == [req[h] EXCEPT !.parent = "waiting"]
<1>1. f \in Request /\ f.pc = req[h].pc /\ ImageReq(f)
  BY ReqImage, ParentImage
<1>2. ImageReq(Failed(f)) /\ Failed(f).pc \in {"next", "reply"}
  <2>1. ImageReq(Failed(f))
    BY <1>1, FailedImage
  <2>2. Failed(f).pc \in {"next", "reply"}
    BY <1>1 DEF Failed, Replied, Request
  <2> QED BY <2>1, <2>2
<1>3. ImageReq(Idle) /\ Idle.pc = "idle"
  BY IdleImage DEF Idle, New
<1> HIDE DEF f
<1>4. \/ req' = [req EXCEPT ![h] = Idle]
      \/ req' = [req EXCEPT ![h] = next]
      \/ req' = [req EXCEPT ![h] = Failed(f)]
  BY DEF ScriptExit, f
<1> QED BY <1>2, <1>3, <1>4

LEMMA ScriptExitImage ==
    ASSUME TypeInv, ImageInv, UNCHANGED <<images, imageSeq, snapshots, instances>>,
           NEW h \in Proc, req[h].pc \notin {"idle", "reply"},
           NEW ok \in BOOLEAN, NEW next, ImageReq(next), ScriptExit(h, ok, next)
    PROVE  ImageInv'
BY ExitImage, CalmImage

LEMMA ScriptFailImage ==
    ASSUME TypeInv, ImageInv, UNCHANGED <<images, imageSeq, snapshots, instances>>,
           NEW h \in Proc, req[h].pc \notin {"idle", "reply"}, ScriptFail(h)
    PROVE  ImageInv'
BY ReqImage, ScriptExitImage DEF ScriptFail

LEMMA ScriptReplyImage ==
    ASSUME TypeInv, ImageInv, UNCHANGED <<images, imageSeq, snapshots, instances>>,
           NEW h \in Proc, req[h].pc \notin {"idle", "reply"}, NEW s, ScriptReply(h, s)
    PROVE  ImageInv'
BY ReqImage, RepliedImage, ScriptExitImage DEF ScriptReply

LEMMA ScriptGotoImage ==
    ASSUME TypeInv, ImageInv, UNCHANGED <<images, imageSeq, snapshots, instances>>,
           NEW h \in Proc, req[h].pc \notin {"idle", "reply"},
           NEW p, p \notin {"markready", "rmsnap", "port", "insert"}, ScriptGoto(h, p)
    PROVE  ImageInv'
BY ReqImage, MoveImage, ScriptExitImage DEF ScriptGoto

LEMMA ImageStepImage ==
    ASSUME TypeInv, ImageInv, NEW h \in Proc, ImageStep(h)
    PROVE  ImageInv'
<1>0. req[h] \in Request /\ ImageReq(req[h]) /\ Shape(req[h])
  BY ReqImage DEF TypeInv
<1> USE DEF disk, tables, imageTable, instanceTable
<1>1. CASE ImageCreate(h)
  <2>1. PICK i \in ImageId :
          /\ InsertImage(i)
          /\ req' = [req EXCEPT ![h] = New("ImageCreate", "mkvol", Upload, i, 0)]
    BY <1>1 DEF ImageCreate
  <2>2. /\ imageSeq \in Nat /\ i = imageSeq + 1 /\ imageSeq' = i
        /\ images' = [images EXCEPT ![i] = "unready"]
        /\ UNCHANGED <<snapshots, instances>>
    BY <1>1, <2>1 DEF ImageCreate, InsertImage, TypeInv, TypeOK, StoreTypeOK
  <2>3. images[i] = "none" /\ images \in [ImageId -> {"none", "unready", "ready"}]
    BY <2>2 DEF ImageInv, TypeInv, TypeOK, StoreTypeOK, ImageId
  <2>4. \A j \in ImageId : images'[j] # "none" => j <= imageSeq'
    BY <2>2, <2>3 DEF ImageInv, ImageId
  <2>5. ASSUME NEW g \in Proc PROVE ImageReq(req[g])'
    <3>1. CASE g = h
      BY <2>1, <2>2, <3>1 DEF ImageReq, New, TypeInv, TypeOK, ImageId
    <3>2. CASE g # h
      <4>1. req'[g] = req[g] /\ ImageReq(req[g]) /\ req[g] \in Request
        BY <2>1, <3>2, ReqImage DEF TypeInv, TypeOK
      <4>2. req[g].pc \notin {"idle", "reply"} => req[g].image <= imageSeq /\ req[g].image # i
        BY <2>2, <4>1 DEF ImageReq, Request, ImageId
      <4>3. req[g].pc \notin {"idle", "reply"} => images'[req[g].image] = images[req[g].image]
        BY <2>2, <2>3, <4>2
      <4> QED BY <2>2, <4>1, <4>2, <4>3 DEF ImageReq, Request, ImageId
    <3> QED BY <3>1, <3>2
  <2>6. ReadyImageHasSnapshot' /\ InstanceOfReadyImage'
    BY <2>2, <2>3
    DEF ImageInv, ReadyImageHasSnapshot, InstanceOfReadyImage, TypeInv, TypeOK, StoreTypeOK,
        InstanceRow
  <2> QED BY <2>4, <2>5, <2>6 DEF ImageInv
<1>2. CASE CreateBtrfsSubvolume(h)
  BY <1>2, ScriptReplyImage, ScriptFailImage DEF CreateBtrfsSubvolume
<1>3. CASE ImageDone(h)
  <2> DEFINE r(i) == New("ImageDone", "bootimage", Upload, i, 0)
             x(i) == CASE images[i] = "none"  -> Replied(r(i), 404)
                       [] images[i] = "ready" -> Replied(r(i), 200)
                       [] OTHER               -> r(i)
  <2>1. PICK i \in ImageId : req' = [req EXCEPT ![h] = x(i)]
    BY <1>3 DEF ImageDone
  <2>2. images[i] # "none" => ImageReq(r(i))
    BY DEF ImageReq, New, ImageInv
  <2>3. \A s : ImageReq(Replied(r(i), s))
    BY DEF ImageReq, New, Replied
  <2>4. ImageReq(x(i))
    <3> HIDE DEF r
    <3> QED BY <2>2, <2>3
  <2> HIDE DEF x
  <2> QED BY <1>3, <2>1, <2>4, CalmImage DEF ImageDone
<1>4. CASE BootImage(h)
  BY <1>4, GotoImage, ScriptFailImage DEF BootImage
<1>5. CASE MarkStarted(h)
  BY <1>5, GotoImage, ScriptFailImage DEF MarkStarted
<1>6. CASE SealImage(h)
  BY <1>6, GotoImage, ScriptFailImage DEF SealImage
<1>7. CASE SnapshotImage(h)
  <2>1. CASE ScriptFail(h) /\ UNCHANGED snapshots
    BY <1>7, <2>1, ScriptFailImage DEF SnapshotImage
  <2>2. CASE snapshots' = snapshots \cup {req[h].image} /\ ScriptGoto(h, "markready")
    <3> DEFINE m == [req[h] EXCEPT !.pc = "markready"]
    <3>0. ScriptExit(h, TRUE, m) /\ req[h].pc \notin {"idle", "reply"}
      BY <1>7, <2>2 DEF SnapshotImage, ScriptGoto
    <3> HIDE DEF m
    <3>1. PICK x : /\ req' = [req EXCEPT ![h] = x]
                   /\ x = m \/ (ImageReq(x) /\ x.pc \notin {"markready", "rmsnap"})
      BY <3>0, ExitImage
    <3> USE DEF m
    <3>2. ImageReq(x)'
      BY <1>0, <1>7, <2>2, <3>1 DEF SnapshotImage, ImageReq, Request
    <3>3. \A g \in Proc : ImageReq(req[g])'
      BY <1>7, <2>2, <3>1, <3>2 DEF SnapshotImage, ImageInv, ImageReq, TypeInv, TypeOK
    <3> QED BY <1>7, <2>2, <3>3
            DEF SnapshotImage, ImageInv, ReadyImageHasSnapshot, InstanceOfReadyImage
  <2> QED BY <1>7, <2>1, <2>2 DEF SnapshotImage
<1>8. CASE ImageMarkReady(h)
  <2> DEFINE i == req[h].image
  <2>1. CASE ~CanMarkAsReady(i)
    BY <1>8, <2>1, FailImage DEF ImageMarkReady, At
  <2>2. CASE CanMarkAsReady(i)
    <3>1. /\ images[i] = "unready" /\ i \in ImageId /\ i \in snapshots
          /\ images' = [images EXCEPT ![i] = "ready"]
          /\ req' = [req EXCEPT ![h] = Replied(req[h], 200)]
          /\ UNCHANGED <<imageSeq, snapshots, instances>>
      BY <1>0, <1>8, <2>2
      DEF ImageMarkReady, At, CanMarkAsReady, MarkAsReady, Reply, ImageReq, Shape
    <3>2. \A g \in Proc : ImageReq(req[g])'
      BY <1>0, <3>1
      DEF ImageInv, ImageReq, Replied, Request, TypeInv, TypeOK, StoreTypeOK, ImageId
    <3> QED BY <3>1, <3>2
            DEF ImageInv, ReadyImageHasSnapshot, InstanceOfReadyImage, TypeInv, TypeOK,
                StoreTypeOK, InstanceRow
  <2> QED BY <2>1, <2>2
<1>9. CASE ImageDestroy(h)
  <2> DEFINE r(i, u) == New("ImageDestroy", IF u = Upload THEN "list" ELSE "delimage", u, i, 0)
             x(i, u) == IF ImageExists(i) THEN r(i, u) ELSE Replied(r(i, u), 404)
  <2>1. PICK i \in ImageId, u \in User : req' = [req EXCEPT ![h] = x(i, u)]
    BY <1>9 DEF ImageDestroy
  <2>2. ImageExists(i) => ImageReq(r(i, u))
    BY DEF ImageExists, ImageReq, New, ImageInv
  <2>3. ImageReq(Replied(r(i, u), 404))
    BY DEF ImageReq, New, Replied
  <2>4. ImageReq(x(i, u))
    <3> HIDE DEF r
    <3> QED BY <2>2, <2>3
  <2> HIDE DEF x
  <2> QED BY <1>9, <2>1, <2>4, CalmImage DEF ImageDestroy
<1>10. CASE ListInstances(h)
  <2> DEFINE T == {t \in InstanceList : t[1] \in InstancesOf(req[h].image)}
             x == [req[h] EXCEPT !.pc = "next", !.todo = T]
  <2>1. req' = [req EXCEPT ![h] = x]
    BY <1>10 DEF ListInstances, TypeInv, TypeOK, Request
  <2>2. ImageReq(x)
    BY <1>0, <1>10 DEF ListInstances, At, ImageReq, Request
  <2> HIDE DEF x
  <2> QED BY <1>10, <2>1, <2>2, CalmImage DEF ListInstances
<1>11. CASE NextInstance(h)
  <2>1. CASE req[h].todo = {}
    BY <1>11, <2>1, GotoImage DEF NextInstance, At
  <2>2. CASE req[h].todo # {}
    <3>1. PICK t \in req[h].todo :
            req' = [req EXCEPT ![h].pc = "delrow", ![h].inst = t[1], ![h].todo = @ \ {t}]
      BY <1>11, <2>2 DEF NextInstance
    <3> DEFINE x == [req[h] EXCEPT !.pc = "delrow", !.inst = t[1], !.todo = req[h].todo \ {t}]
    <3>2. req' = [req EXCEPT ![h] = x]
      BY <3>1 DEF TypeInv, TypeOK, Request
    <3>3. ImageReq(x)
      BY <1>0, <1>11 DEF NextInstance, At, ImageReq, Request
    <3> HIDE DEF x
    <3> QED BY <1>11, <3>2, <3>3, CalmImage DEF NextInstance
  <2> QED BY <2>1, <2>2
<1>12. CASE ImageDeleteRow(h)
  <2> DEFINE i == req[h].image
  <2>1. CASE ImageReferenced(i)
    BY <1>12, <2>1, ReplyImage DEF ImageDeleteRow
  <2>2. CASE ~ImageReferenced(i)
    <3>1. /\ i \in ImageId /\ i <= imageSeq
          /\ images' = [images EXCEPT ![i] = "none"]
          /\ req' = [req EXCEPT ![h].pc = "rmsnap"]
          /\ UNCHANGED <<imageSeq, snapshots, instances>>
          /\ \A n \in InstanceId : instances[n] # NoRow => instances[n].image # i
      BY <1>0, <1>12, <2>2
      DEF ImageDeleteRow, At, DeleteImage, ImageReferenced, InstancesOf, Goto, ImageReq, Shape
    <3>2. \A g \in Proc : ImageReq(req[g])'
      BY <1>0, <3>1
      DEF ImageInv, ImageReq, Request, TypeInv, TypeOK, StoreTypeOK, ImageId
    <3> QED BY <3>1, <3>2
            DEF ImageInv, ReadyImageHasSnapshot, InstanceOfReadyImage, TypeInv, TypeOK,
                StoreTypeOK, InstanceRow
  <2> QED BY <2>1, <2>2
<1>13. CASE RemoveSnapshot(h)
  <2>1. /\ images[req[h].image] = "none"
        /\ snapshots' = snapshots \ {req[h].image}
        /\ req' = [req EXCEPT ![h].pc = "rmupload"]
        /\ UNCHANGED <<images, imageSeq, instances>>
    BY <1>0, <1>13 DEF RemoveSnapshot, Goto, ImageReq
  <2>2. \A g \in Proc : ImageReq(req[g])'
    BY <1>0, <1>13, <2>1 DEF RemoveSnapshot, ImageInv, ImageReq, Request, TypeInv, TypeOK
  <2> QED BY <2>1, <2>2 DEF ImageInv, ReadyImageHasSnapshot, InstanceOfReadyImage
<1>14. CASE RemoveUpload(h)
  BY <1>14, ScriptReplyImage, ScriptFailImage DEF RemoveUpload
<1> QED BY <1>1, <1>2, <1>3, <1>4, <1>5, <1>6, <1>7, <1>8, <1>9, <1>10, <1>11, <1>12, <1>13,
           <1>14 DEF ImageStep

LEMMA InstanceStepImage ==
    ASSUME TypeInv, ImageInv, NEW h \in Proc, InstanceStep(h)
    PROVE  ImageInv'
<1>0. req[h] \in Request /\ ImageReq(req[h]) /\ Shape(req[h])
  BY ReqImage DEF TypeInv
<1> USE DEF disk, tables, imageTable, instanceTable
<1>1. CASE InstanceCreate(h)
  <2> DEFINE r(i, u) == New("Create", "port", u, i, 0)
             x(i, u) == CASE images[i] = "none"    -> Replied(r(i, u), 404)
                          [] images[i] = "unready" -> Replied(r(i, u), 422)
                          [] OTHER                 -> r(i, u)
  <2>1. PICK i \in ImageId, u \in User : req' = [req EXCEPT ![h] = x(i, u)]
    BY <1>1 DEF InstanceCreate
  <2>2. images[i] # "none" /\ images[i] # "unready" => ImageReq(r(i, u))
    BY DEF ImageReq, New, ImageInv
  <2>3. \A s : ImageReq(Replied(r(i, u), s))
    BY DEF ImageReq, New, Replied
  <2>4. ImageReq(x(i, u))
    <3> HIDE DEF r
    <3> QED BY <2>2, <2>3
  <2> HIDE DEF x
  <2> QED BY <1>1, <2>1, <2>4, CalmImage DEF InstanceCreate
<1>2. CASE ChoosePort(h)
  <2>1. CASE Fail(h)
    BY <1>2, <2>1, FailImage DEF ChoosePort, At
  <2>2. ASSUME NEW p \in Port, req' = [req EXCEPT ![h].pc = "insert", ![h].port = p]
        PROVE  ImageInv'
    <3> DEFINE x == [req[h] EXCEPT !.pc = "insert", !.port = p]
    <3>1. req' = [req EXCEPT ![h] = x]
      BY <2>2 DEF TypeInv, TypeOK, Request
    <3>2. ImageReq(x)
      BY <1>0, <1>2 DEF ChoosePort, At, ImageReq, Request
    <3> HIDE DEF x
    <3> QED BY <1>2, <3>1, <3>2, CalmImage DEF ChoosePort
  <2> QED BY <1>2, <2>1, <2>2 DEF ChoosePort
<1>3. CASE InsertRow(h)
  <2> DEFINE i == req[h].image
  <2>1. CASE ~ImageExists(i)
    BY <1>3, <2>1, ReplyImage DEF InsertRow
  <2>2. CASE ImageExists(i)
    <3>1. PICK n \in InstanceId :
            /\ InsertInstance(n, i, req[h].port, req[h].user)
            /\ req' = [req EXCEPT ![h].pc = "clone", ![h].inst = n]
      BY <1>3, <2>2 DEF InsertRow
    <3>2. /\ images[i] = "ready" /\ i \in ImageId /\ i <= imageSeq
          /\ UNCHANGED <<images, imageSeq, snapshots>>
      BY <1>0, <1>3, <2>2
      DEF InsertRow, At, ImageReq, ImageExists, Shape, TypeInv, TypeOK, StoreTypeOK
    <3>3. \A g \in Proc : ImageReq(req[g])'
      BY <1>0, <3>1, <3>2 DEF ImageInv, ImageReq, Request, TypeInv, TypeOK
    <3>4. InstanceOfReadyImage'
      <4>1. instances' = [instances EXCEPT ![n] =
                            [image |-> i, port |-> req[h].port, user |-> req[h].user]]
        BY <3>1 DEF InsertInstance
      <4> QED BY <3>1, <3>2, <4>1
              DEF ImageInv, InstanceOfReadyImage, TypeInv, TypeOK, StoreTypeOK
    <3> QED BY <3>2, <3>3, <3>4 DEF ImageInv, ReadyImageHasSnapshot
  <2> QED BY <2>1, <2>2
<1>4. CASE CloneSnapshot(h)
  BY <1>4, GotoImage, ScriptFailImage DEF CloneSnapshot
<1>5. CASE WriteCerts(h)
  BY <1>5, GotoImage, ScriptFailImage DEF WriteCerts
<1>6. CASE StartPostgres(h)
  BY <1>6, GotoImage, ScriptFailImage DEF StartPostgres
<1>7. CASE ValidateAndRestart(h)
  BY <1>7, ScriptGotoImage, ScriptFailImage DEF ValidateAndRestart
<1>8. CASE InstanceGet(h)
  <2> DEFINE r(n, u) == New("Get", "creds", u, 0, n)
             x(n, u) == IF instances[n] # NoRow /\ instances[n].user = u
                          THEN r(n, u) ELSE Replied(r(n, u), 404)
  <2>1. PICK n \in InstanceId, u \in User : req' = [req EXCEPT ![h] = x(n, u)]
    BY <1>8 DEF InstanceGet, InstanceExists
  <2>2. ImageReq(r(n, u)) /\ ImageReq(Replied(r(n, u), 404))
    BY DEF ImageReq, New, Replied, TypeInv, TypeOK, StoreTypeOK
  <2>3. ImageReq(x(n, u))
    <3> HIDE DEF r
    <3> QED BY <2>2
  <2> HIDE DEF x
  <2> QED BY <1>8, <2>1, <2>3, CalmImage DEF InstanceGet
<1>9. CASE RetrieveInstanceCredentials(h)
  BY <1>9, GotoImage, ReplyImage DEF RetrieveInstanceCredentials
<1>10. CASE WhitelistAddress(h)
  BY <1>10, GotoImage, FailImage DEF WhitelistAddress
<1>11. CASE ApplyWhitelist(h)
  BY <1>11, ReplyImage DEF ApplyWhitelist
<1>12. CASE InstanceDestroy(h)
  <2> DEFINE r(n, u) == New("Destroy", "stop", u, 0, n)
             x(n, u) == IF instances[n] # NoRow /\ u \in {Upload, instances[n].user}
                          THEN r(n, u) ELSE Replied(r(n, u), 404)
  <2>1. PICK n \in InstanceId, u \in User : req' = [req EXCEPT ![h] = x(n, u)]
    BY <1>12 DEF InstanceDestroy, InstanceExists
  <2>2. ImageReq(r(n, u)) /\ ImageReq(Replied(r(n, u), 404))
    BY DEF ImageReq, New, Replied, TypeInv, TypeOK, StoreTypeOK
  <2>3. ImageReq(x(n, u))
    <3> HIDE DEF r
    <3> QED BY <2>2
  <2> HIDE DEF x
  <2> QED BY <1>12, <2>1, <2>3, CalmImage DEF InstanceDestroy
<1>13. CASE StopPostgres(h)
  BY <1>13, GotoImage DEF StopPostgres
<1>14. CASE RemoveDir(h)
  BY <1>14, ScriptGotoImage, ScriptFailImage DEF RemoveDir
<1>15. CASE DeleteRow(h)
  <2>1. PICK p \in {"apply", "next", "stop"} : req' = [req EXCEPT ![h].pc = p]
    BY <1>0, <1>15 DEF DeleteRow, Goto, Shape, Fits
  <2>2. /\ instances' = [instances EXCEPT ![req[h].inst] = NoRow]
        /\ UNCHANGED <<images, imageSeq, snapshots>>
    BY <1>15 DEF DeleteRow, DeleteInstance
  <2>3. \A g \in Proc : ImageReq(req[g])'
    BY <1>0, <1>15, <2>1, <2>2 DEF DeleteRow, ImageInv, ImageReq, Request, TypeInv, TypeOK
  <2>4. InstanceOfReadyImage'
    BY <2>2 DEF ImageInv, InstanceOfReadyImage, TypeInv, TypeOK, StoreTypeOK
  <2> QED BY <2>2, <2>3, <2>4 DEF ImageInv, ReadyImageHasSnapshot
<1> QED BY <1>1, <1>2, <1>3, <1>4, <1>5, <1>6, <1>7, <1>8, <1>9, <1>10, <1>11, <1>12, <1>13,
           <1>14, <1>15 DEF InstanceStep

(* What a handler is left with when the answer of its statement is lost. *)
LEMMA LostAnswer ==
    ASSUME TypeInv, NEW h \in Proc, Unacknowledged(h)
    PROVE  /\ req' = [req EXCEPT ![h] = OnStatementError(req[h])]
           /\ TakesEffect(req[h])
           /\ UNCHANGED <<disk, revoked>>
           /\ req[h] \in Request /\ Shape(req[h])
           /\ OnStatementError(req[h]) \in Request
           /\ OnStatementError(req[h]).op = req[h].op
           /\ OnStatementError(req[h]).image = req[h].image
           /\ OnStatementError(req[h]).inst = req[h].inst
           /\ \/ OnStatementError(req[h]).pc = "reply" /\ req[h].op # "Clean"
                 /\ OnStatementError(req[h]).status \in {200, 500}
              \/ OnStatementError(req[h]).pc = "next" /\ req[h].op = "Clean"
<1> DEFINE r == req[h]
<1>1. r \in Request /\ Shape(r)
  BY DEF TypeInv, TypeOK
<1>2. r.pc \in {"markready", "delimage", "insert", "whitelist", "delrow"}
  BY DEF Unacknowledged, TakesEffect
<1>3. r.pc \in {"insert", "delimage"} => r.op # "Clean"
  BY <1>1 DEF Shape, Fits
<1>4. OnStatementError(r) = IF r.op = "Clean" THEN [r EXCEPT !.pc = "next"]
                            ELSE IF r.pc \in {"insert", "delimage"} THEN Replied(r, 200)
                            ELSE Replied(r, 500)
  BY <1>2, <1>3 DEF OnStatementError, Failed
<1>5. "next" \in Pc /\ "reply" \in Pc
  BY PcsOK DEF ServerPc
<1>6. ASSUME NEW s \in {200, 500}
      PROVE  /\ Replied(r, s) \in Request
             /\ Replied(r, s).op = r.op /\ Replied(r, s).image = r.image
             /\ Replied(r, s).inst = r.inst
             /\ Replied(r, s).pc = "reply" /\ Replied(r, s).status = s
  <2>1. s \in Status
    BY DEF Status
  <2>2. OK(Replied(r, s))
    BY <1>1, <2>1, RepliedOK DEF OK
  <2>3. /\ Replied(r, s).op = r.op /\ Replied(r, s).image = r.image
        /\ Replied(r, s).inst = r.inst
        /\ Replied(r, s).pc = "reply" /\ Replied(r, s).status = s
    BY <1>1 DEF Replied, Request
  <2> QED BY <2>2, <2>3 DEF OK
<1>7. /\ [r EXCEPT !.pc = "next"] \in Request
      /\ [r EXCEPT !.pc = "next"].op = r.op /\ [r EXCEPT !.pc = "next"].image = r.image
      /\ [r EXCEPT !.pc = "next"].inst = r.inst /\ [r EXCEPT !.pc = "next"].pc = "next"
  BY <1>1, <1>5 DEF Request
<1>8. /\ req' = [req EXCEPT ![h] = OnStatementError(r)]
      /\ TakesEffect(r) /\ UNCHANGED <<disk, revoked>>
  BY DEF Unacknowledged
<1>9. CASE r.op = "Clean"
  BY <1>1, <1>4, <1>7, <1>8, <1>9
<1>10. CASE r.op # "Clean" /\ r.pc \in {"insert", "delimage"}
  BY <1>1, <1>4, <1>6, <1>8, <1>10
<1>11. CASE r.op # "Clean" /\ r.pc \notin {"insert", "delimage"}
  BY <1>1, <1>4, <1>6, <1>8, <1>11
<1> QED BY <1>9, <1>10, <1>11

LEMMA UnacknowledgedImage ==
    ASSUME TypeInv, ImageInv, NEW h \in Proc, Unacknowledged(h)
    PROVE  ImageInv'
<1> DEFINE r == req[h]
           x == OnStatementError(r)
<1>0. ImageReq(r)
  BY ReqImage
<1>1. /\ req' = [req EXCEPT ![h] = x] /\ TakesEffect(r) /\ UNCHANGED <<disk, revoked>>
      /\ r \in Request /\ Shape(r) /\ x \in Request
      /\ x.image = r.image /\ x.pc \in {"reply", "next"}
  BY LostAnswer
<1> HIDE DEF x
<1>2. \A g \in Proc : req'[g] = IF g = h THEN x ELSE req[g]
  BY <1>1 DEF TypeInv, TypeOK
<1> USE DEF disk, imageTable, instanceTable
<1>3. ImageReq(x)
  <2>1. r.pc \notin {"idle", "reply"}
    BY <1>1 DEF TakesEffect
  <2> QED BY <1>0, <1>1, <2>1 DEF ImageReq
<1>4. CASE r.pc = "whitelist" /\ UNCHANGED <<imageTable, instanceTable>>
  BY <1>1, <1>3, <1>4, CalmImage
<1>5. CASE /\ r.pc = "insert" /\ UNCHANGED <<imageTable, addresses>>
           /\ \E n \in InstanceId : InsertInstance(n, r.image, r.port, r.user)
  <2>1. PICK n \in InstanceId :
          /\ images[r.image] # "none"
          /\ instances' = [instances EXCEPT ![n] =
                             [image |-> r.image, port |-> r.port, user |-> r.user]]
    BY <1>5 DEF InsertInstance, ImageExists
  <2>2. images[r.image] = "ready" /\ r.image \in ImageId
    BY <1>0, <1>1, <1>5, <2>1 DEF ImageReq, Shape, Fits, TypeInv, TypeOK, StoreTypeOK
  <2>3. InstanceOfReadyImage'
    BY <1>5, <2>1, <2>2 DEF ImageInv, InstanceOfReadyImage, TypeInv, TypeOK, StoreTypeOK
  <2>4. \A g \in Proc : ImageReq(req[g])'
    BY <1>1, <1>2, <1>3, <1>5 DEF ImageInv, ImageReq
  <2> QED BY <1>1, <1>5, <2>3, <2>4 DEF ImageInv, ReadyImageHasSnapshot
<1>6. CASE r.pc = "markready" /\ MarkAsReady(r.image) /\ UNCHANGED <<instanceTable, addresses>>
  <2>1. /\ images[r.image] = "unready" /\ images' = [images EXCEPT ![r.image] = "ready"]
        /\ UNCHANGED imageSeq /\ r.image \in ImageId /\ r.image \in snapshots
    BY <1>0, <1>1, <1>6 DEF MarkAsReady, CanMarkAsReady, ImageReq, Shape, Fits
  <2>2. \A g \in Proc : ImageReq(req[g])'
    BY <1>1, <1>2, <1>3, <2>1
    DEF ImageInv, ImageReq, TypeInv, TypeOK, StoreTypeOK, Request
  <2> QED BY <1>1, <1>6, <2>1, <2>2
          DEF ImageInv, ReadyImageHasSnapshot, InstanceOfReadyImage, TypeInv, TypeOK,
              StoreTypeOK, InstanceRow
<1>7. CASE r.pc = "delimage" /\ DeleteImage(r.image) /\ UNCHANGED <<instanceTable, addresses>>
  <2>1. /\ images' = [images EXCEPT ![r.image] = "none"]
        /\ UNCHANGED imageSeq /\ r.image \in ImageId
        /\ \A n \in InstanceId : instances[n] # NoRow => instances[n].image # r.image
    BY <1>1, <1>7 DEF DeleteImage, ImageReferenced, InstancesOf, Shape, Fits
  <2>2. \A g \in Proc : ImageReq(req[g])'
    BY <1>1, <1>2, <1>3, <2>1
    DEF ImageInv, ImageReq, TypeInv, TypeOK, StoreTypeOK, Request, ImageId
  <2> QED BY <1>1, <1>7, <2>1, <2>2
          DEF ImageInv, ReadyImageHasSnapshot, InstanceOfReadyImage, TypeInv, TypeOK,
              StoreTypeOK, InstanceRow
<1>8. CASE r.pc = "delrow" /\ DeleteInstance(r.inst) /\ UNCHANGED imageTable
  <2>1. instances' = [instances EXCEPT ![r.inst] = NoRow]
    BY <1>8 DEF DeleteInstance
  <2>2. \A g \in Proc : ImageReq(req[g])'
    BY <1>1, <1>2, <1>3, <1>8 DEF ImageInv, ImageReq
  <2>3. InstanceOfReadyImage'
    BY <1>8, <2>1 DEF ImageInv, InstanceOfReadyImage, TypeInv, TypeOK, StoreTypeOK
  <2> QED BY <1>1, <1>8, <2>2, <2>3 DEF ImageInv, ReadyImageHasSnapshot
<1> QED BY <1>1, <1>4, <1>5, <1>6, <1>7, <1>8 DEF TakesEffect

LEMMA CreateUnacknowledgedImage ==
    ASSUME TypeInv, ImageInv, NEW h \in Proc, CreateUnacknowledged(h)
    PROVE  ImageInv'
<1> DEFINE x(j) == Replied(New("ImageCreate", "mkvol", Upload, j, 0), 500)
<1>1. PICK i \in ImageId : InsertImage(i) /\ req' = [req EXCEPT ![h] = x(i)]
  BY DEF CreateUnacknowledged
<1>2. /\ imageSeq \in Nat /\ i = imageSeq + 1 /\ imageSeq' = i
      /\ images' = [images EXCEPT ![i] = "unready"]
      /\ UNCHANGED <<snapshots, instances>>
  BY <1>1 DEF CreateUnacknowledged, InsertImage, TypeInv, TypeOK, StoreTypeOK, disk,
              instanceTable
<1>3. images[i] = "none" /\ images \in [ImageId -> {"none", "unready", "ready"}]
  BY <1>2 DEF ImageInv, TypeInv, TypeOK, StoreTypeOK, ImageId
<1>4. \A j \in ImageId : images'[j] # "none" => j <= imageSeq'
  BY <1>2, <1>3 DEF ImageInv, ImageId
<1>5. ASSUME NEW g \in Proc PROVE ImageReq(req[g])'
  <2>1. CASE g = h
    BY <1>1, <1>2, <2>1 DEF ImageReq, New, Replied, TypeInv, TypeOK, ImageId
  <2>2. CASE g # h
    <3>1. req'[g] = req[g] /\ ImageReq(req[g]) /\ req[g] \in Request
      BY <1>1, <2>2, ReqImage DEF TypeInv, TypeOK
    <3>2. req[g].pc \notin {"idle", "reply"} => req[g].image <= imageSeq /\ req[g].image # i
      BY <1>2, <3>1 DEF ImageReq, Request, ImageId
    <3>3. req[g].pc \notin {"idle", "reply"} => images'[req[g].image] = images[req[g].image]
      BY <1>2, <1>3, <3>2
    <3> QED BY <1>2, <3>1, <3>2, <3>3 DEF ImageReq, Request, ImageId
  <2> QED BY <2>1, <2>2
<1>6. ReadyImageHasSnapshot' /\ InstanceOfReadyImage'
  BY <1>2, <1>3
  DEF ImageInv, ReadyImageHasSnapshot, InstanceOfReadyImage, TypeInv, TypeOK, StoreTypeOK,
      InstanceRow
<1> QED BY <1>4, <1>5, <1>6 DEF ImageInv

LEMMA TruncatedListImage ==
    ASSUME TypeInv, ImageInv, NEW h \in Proc, TruncatedList(h)
    PROVE  ImageInv'
<1>1. req[h] \in Request /\ ImageReq(req[h]) /\ imageSeq \in Nat
  BY ReqImage DEF TypeInv, TypeOK, StoreTypeOK
<1>2. UNCHANGED <<images, imageSeq, snapshots, instances>>
  BY DEF TruncatedList, tables, imageTable, instanceTable, disk
<1>3. ASSUME At(h, "Create", "port"), NEW p
      PROVE  ImageReq([req[h] EXCEPT !.pc = "insert", !.port = p])
  BY <1>1, <1>3 DEF At, ImageReq, Request
<1>4. ASSUME At(h, "ImageDestroy", "list"), NEW s
      PROVE  ImageReq([req[h] EXCEPT !.pc = "next", !.todo = s])
  BY <1>1, <1>4 DEF At, ImageReq, Request
<1>5. ASSUME NEW s PROVE ImageReq([New("Clean", "next", Upload, 0, 0) EXCEPT !.todo = s])
  BY <1>1 DEF ImageReq, New
<1>6. PICK x : ImageReq(x) /\ req' = [req EXCEPT ![h] = x]
  BY <1>3, <1>4, <1>5, CutShort
<1> QED BY <1>2, <1>6, CalmImage

LEMMA OtherImage ==
    ASSUME TypeInv, ImageInv,
           CleanerStep \/ (\E h \in Proc : Finish(h)) \/ (\E u \in User : Revoke(u)) \/ Fault
    PROVE  ImageInv'
<1>0. Cleaner \in Proc /\ imageSeq \in Nat
  BY DEF Proc, TypeInv, TypeOK, StoreTypeOK
<1> USE DEF disk, tables, imageTable, instanceTable
<1>1. CASE Clean
  <2> DEFINE x == [New("Clean", "next", Upload, 0, 0) EXCEPT !.todo = InstanceList]
  <2>1. ImageReq(x)
    BY <1>0 DEF ImageReq, New
  <2>2. req' = [req EXCEPT ![Cleaner] = x]
    BY <1>1 DEF Clean
  <2> HIDE DEF x
  <2> QED BY <1>0, <1>1, <2>1, <2>2, CalmImage DEF Clean
<1>2. CASE CheckToken
  <2> DEFINE rest(t) == [req[Cleaner] EXCEPT !.todo = req[Cleaner].todo \ {t}]
             doomed(t) == [rest(t) EXCEPT !.pc = "stop", !.inst = t[1]]
  <2>1. PICK t \in req[Cleaner].todo :
           \/ req' = [req EXCEPT ![Cleaner] = rest(t)]
           \/ req' = [req EXCEPT ![Cleaner] = doomed(t)]
    BY <1>2 DEF CheckToken
  <2>2. ImageReq(rest(t)) /\ ImageReq(doomed(t))
    BY <1>0, <1>2, ReqImage DEF CheckToken, At, ImageReq, Request
  <2> HIDE DEF rest, doomed
  <2> QED BY <1>0, <1>2, <2>1, <2>2, CalmImage DEF CheckToken
<1>3. CASE CleanEnd
  BY <1>0, <1>3, IdleImage, CalmImage DEF CleanEnd
<1>4. ASSUME NEW h \in Proc, Finish(h) PROVE ImageInv'
  BY <1>4, IdleImage, CalmImage DEF Finish
<1>5. ASSUME NEW u \in User, Revoke(u) PROVE ImageInv'
  BY <1>5 DEF Revoke, ImageInv, ImageReq, ReadyImageHasSnapshot, InstanceOfReadyImage
<1>6. ASSUME NEW h \in Proc, ScriptFault(h) PROVE ImageInv'
  BY <1>6, ScriptFailImage, GotoImage DEF ScriptFault, ScriptPc, CtxPc, DetachedPc
<1>7. ASSUME NEW h \in Proc, StatementFault(h) PROVE ImageInv'
  <2>1. req[h] \in Request /\ ImageReq(req[h]) /\ req[h].pc \notin {"idle", "reply"}
    BY <1>7, ReqImage DEF StatementFault, ServerPc
  <2>2. /\ ImageReq(Replied(req[h], 200))
        /\ ImageReq(Failed(req[h]))
        /\ ImageReq([req[h] EXCEPT !.pc = "next"])
    BY <2>1, RepliedImage, FailedImage, MoveImage
  <2>3. ImageReq(OnStatementError(req[h]))
    BY <2>2 DEF OnStatementError
  <2> QED BY <1>7, <2>3, CalmImage DEF StatementFault
<1>8. ASSUME NEW h \in Proc, Disconnect(h) PROVE ImageInv'
  <2>1. CASE req' = [req EXCEPT ![h] = [req[h] EXCEPT !.parent = "killed"]]
    <3>1. ImageReq([req[h] EXCEPT !.parent = "killed"])
      BY ReqImage, ParentImage
    <3> QED BY <1>8, <2>1, <3>1, CalmImage DEF Disconnect
  <2>2. CASE req[h].pc = "mkvol" /\ Fail(h)
    BY <1>8, <2>2, FailImage DEF Disconnect
  <2> QED BY <1>8, <2>1, <2>2 DEF Disconnect, TypeInv, TypeOK
<1>9. CASE Crash
  <2>1. ASSUME NEW g \in Proc PROVE ImageReq(req'[g])
    <3>1. ImageReq(Idle) /\ ImageReq([req[g] EXCEPT !.parent = "gone"])
      BY IdleImage, ReqImage, ParentImage
    <3>2. \/ req'[g] = Idle
          \/ req'[g] = [req[g] EXCEPT !.parent = "gone"]
      BY <1>9 DEF Crash
    <3> QED BY <3>1, <3>2
  <2>2. \A g \in Proc : ImageReq(req[g])'
    BY <1>9, <2>1 DEF Crash, ImageReq
  <2> QED BY <1>9, <2>2
          DEF Crash, ImageInv, ReadyImageHasSnapshot, InstanceOfReadyImage
<1> QED BY <1>1, <1>2, <1>3, <1>4, <1>5, <1>6, <1>7, <1>8, <1>9, UnacknowledgedImage,
           CreateUnacknowledgedImage, TruncatedListImage DEF CleanerStep, Fault

LEMMA NextImage ==
    ASSUME TypeInv, ImageInv, [Next]_vars
    PROVE  ImageInv'
<1>1. CASE UNCHANGED vars
  BY <1>1 DEF vars, disk, tables, imageTable, instanceTable, ImageInv, ImageReq,
              ReadyImageHasSnapshot, InstanceOfReadyImage
<1>2. CASE Next
  BY <1>2, ImageStepImage, InstanceStepImage, OtherImage DEF Next
<1> QED BY <1>1, <1>2

LEMMA ImagesRight == Spec => []ImageInv
BY InitImage, NextImage, Typed, PTL DEF Spec

(* Images.Done and Images.Destroy keep "ready" and the snapshot in step,   *)
(* however many of them, and of the instance handlers, run at a time, and  *)
(* wherever a script, a statement, a connection or the server fails.       *)
THEOREM ReadyHasSnapshot == Spec => []ReadyImageHasSnapshot
<1>1. ImageInv => ReadyImageHasSnapshot
  BY DEF ImageInv
<1> QED BY <1>1, ImagesRight, PTL

(* The check that the image is ready, made by Instances.Create two         *)
(* statements before its INSERT, still holds for every row there is: the   *)
(* foreign key and the ids that are never reused make up for the gap.      *)
THEOREM InstancesOfReadyImages == Spec => []InstanceOfReadyImage
<1>1. ImageInv => InstanceOfReadyImage
  BY DEF ImageInv
<1> QED BY <1>1, ImagesRight, PTL

-----------------------------------------------------------------------------
(***************************************************************************)
(* Instances.  A plain request is one InstanceReq asks nothing of.  Most   *)
(* steps change the tables not at all, at most remove a directory, and     *)
(* leave a plain request.                                                  *)
(***************************************************************************)
Plain(r) ==
    /\ r.pc # "clone"
    /\ ~(r.pc = "delrow" /\ r.op # "ImageDestroy")
    /\ ~RowDeleted(r)

NoNewDir == \A n \in InstanceId : dirs[n] = "absent" => dirs'[n] = "absent"

LEMMA InitInstance == Init => InstanceInv
BY DEF Init, StoreInit, InstanceInv, InstanceReq, RowDeleted, ClonesDistinct, RowInv, DirHasRow,
       Idle, New

(* x's own obligations are about the state after the step. *)
LEMMA CalmInstance ==
    ASSUME TypeInv, TypeInv', InstanceInv, UNCHANGED <<instances, instanceSeq>>, NoNewDir,
           NEW h \in Proc, NEW x, x.pc # "clone", req' = [req EXCEPT ![h] = x],
           InstanceReq(req[h])'
    PROVE  InstanceInv'
<1>1. \A g \in Proc : g # h => req'[g] = req[g]
  BY DEF TypeInv, TypeOK
<1>2. req'[h] = x
  BY DEF TypeInv, TypeOK
<1>3. \A g \in Proc : req'[g].pc = "clone" => req[g].pc = "clone" /\ req'[g] = req[g]
  BY <1>1, <1>2
<1>4. \A n \in InstanceId : Gone(n) => Gone(n)'
  BY <1>3 DEF Gone, NoNewDir
<1>5. ASSUME NEW g \in Proc, g # h PROVE InstanceReq(req[g])'
  <2>1. req'[g] = req[g] /\ InstanceReq(req[g]) /\ Shape(req[g])
    BY <1>1, <1>5 DEF InstanceInv, TypeInv
  <2>2. req[g].pc = "clone" => req[g].inst \in InstanceId
    BY <2>1 DEF Shape, Fits
  <2>3. req[g].pc = "delrow" => req[g].inst \in InstanceId
    BY <2>1 DEF Shape, Fits
  <2>4. RowDeleted(req[g]) => req[g].inst \in InstanceId
    BY <2>1 DEF Shape, RowDeleted
  <2> QED BY <1>4, <2>1, <2>2, <2>3, <2>4 DEF InstanceReq, RowDeleted, NoNewDir
<1>6. \A g \in Proc : InstanceReq(req[g])'
  BY <1>5
<1>7. ClonesDistinct'
  BY <1>3 DEF InstanceInv, ClonesDistinct
<1>8. \A n \in InstanceId : (instances[n] # NoRow \/ dirs[n] # "absent" => n <= instanceSeq)'
  BY DEF InstanceInv, NoNewDir
<1>9. ("ImageDestroy" \notin Ops => RowInv)'
  BY <1>3 DEF InstanceInv, RowInv, DirHasRow, NoNewDir
<1> QED BY <1>6, <1>7, <1>8, <1>9 DEF InstanceInv

LEMMA PlainInstance ==
    ASSUME TypeInv, TypeInv', InstanceInv, UNCHANGED <<instances, instanceSeq>>, NoNewDir,
           NEW h \in Proc, NEW x, Plain(x), req' = [req EXCEPT ![h] = x]
    PROVE  InstanceInv'
<1>1. req'[h] = x
  BY DEF TypeInv, TypeOK
<1>2. x.pc # "clone" /\ InstanceReq(req[h])'
  BY <1>1 DEF Plain, InstanceReq, RowDeleted
<1> QED BY <1>2, CalmInstance

LEMMA IdlePlain == Plain(Idle)
BY DEF Plain, RowDeleted, Idle, New

LEMMA MovePlain ==
    ASSUME NEW r \in Request, NEW p, p \notin {"clone", "delrow", "apply", "reply"}
    PROVE  Plain([r EXCEPT !.pc = p])
BY DEF Plain, RowDeleted, Request

LEMMA RepliedPlain ==
    ASSUME NEW r \in Request, NEW s, s # 204 \/ r.op # "Destroy"
    PROVE  Plain(Replied(r, s))
BY DEF Plain, RowDeleted, Replied, Request

LEMMA FailedPlain ==
    ASSUME NEW r \in Request
    PROVE  Plain(Failed(r))
BY MovePlain, RepliedPlain DEF Failed

LEMMA GotoInstance ==
    ASSUME TypeInv, TypeInv', InstanceInv, UNCHANGED <<instances, instanceSeq>>, NoNewDir,
           NEW h \in Proc, NEW p, p \notin {"clone", "delrow", "apply", "reply"}, Goto(h, p)
    PROVE  InstanceInv'
<1>1. req[h] \in Request /\ req' = [req EXCEPT ![h] = [req[h] EXCEPT !.pc = p]]
  BY DEF Goto, TypeInv, TypeOK
<1>2. Plain([req[h] EXCEPT !.pc = p])
  BY <1>1, MovePlain
<1> QED BY <1>1, <1>2, PlainInstance

LEMMA ReplyInstance ==
    ASSUME TypeInv, TypeInv', InstanceInv, UNCHANGED <<instances, instanceSeq>>, NoNewDir,
           NEW h \in Proc, NEW s, s # 204 \/ req[h].op # "Destroy", Reply(h, s)
    PROVE  InstanceInv'
<1>1. req[h] \in Request
  BY DEF TypeInv, TypeOK
<1> QED BY <1>1, RepliedPlain, PlainInstance DEF Reply

LEMMA FailInstance ==
    ASSUME TypeInv, TypeInv', InstanceInv, UNCHANGED <<instances, instanceSeq>>, NoNewDir,
           NEW h \in Proc, Fail(h)
    PROVE  InstanceInv'
<1>1. req[h] \in Request
  BY DEF TypeInv, TypeOK
<1> QED BY <1>1, FailedPlain, PlainInstance DEF Fail

LEMMA ExitPlain ==
    ASSUME TypeInv, NEW h \in Proc, NEW ok \in BOOLEAN, NEW next, ScriptExit(h, ok, next)
    PROVE  \E x : req' = [req EXCEPT ![h] = x] /\ (Plain(x) \/ (x = next /\ ok))
<1> DEFINE f == [req[h] EXCEPT !.parent = "waiting"]
<1>1. f \in Request
  BY DEF TypeInv, TypeOK, Request
<1>2. Plain(Failed(f)) /\ Plain(Idle)
  BY <1>1, FailedPlain, IdlePlain
<1> HIDE DEF f
<1>3. \/ req' = [req EXCEPT ![h] = Idle]
      \/ req' = [req EXCEPT ![h] = next] /\ ok
      \/ req' = [req EXCEPT ![h] = Failed(f)]
  BY DEF ScriptExit, f
<1> QED BY <1>2, <1>3

LEMMA ScriptExitInstance ==
    ASSUME TypeInv, TypeInv', InstanceInv, UNCHANGED <<instances, instanceSeq>>, NoNewDir,
           NEW h \in Proc, NEW ok \in BOOLEAN, NEW next, ok => Plain(next),
           ScriptExit(h, ok, next)
    PROVE  InstanceInv'
<1>1. PICK x : req' = [req EXCEPT ![h] = x] /\ (Plain(x) \/ (x = next /\ ok))
  BY ExitPlain
<1>2. Plain(x)
  BY <1>1
<1> QED BY <1>1, <1>2, PlainInstance

LEMMA ScriptFailInstance ==
    ASSUME TypeInv, TypeInv', InstanceInv, UNCHANGED <<instances, instanceSeq>>, NoNewDir,
           NEW h \in Proc, ScriptFail(h)
    PROVE  InstanceInv'
BY ScriptExitInstance DEF ScriptFail

LEMMA ScriptReplyInstance ==
    ASSUME TypeInv, TypeInv', InstanceInv, UNCHANGED <<instances, instanceSeq>>, NoNewDir,
           NEW h \in Proc, NEW s, s # 204 \/ req[h].op # "Destroy", ScriptReply(h, s)
    PROVE  InstanceInv'
<1>1. Plain(Replied(req[h], s))
  BY RepliedPlain DEF TypeInv, TypeOK
<1> QED BY <1>1, ScriptExitInstance DEF ScriptReply

LEMMA ScriptGotoInstance ==
    ASSUME TypeInv, TypeInv', InstanceInv, UNCHANGED <<instances, instanceSeq>>, NoNewDir,
           NEW h \in Proc, NEW p, p \notin {"clone", "delrow", "apply", "reply"},
           ScriptGoto(h, p)
    PROVE  InstanceInv'
<1>1. Plain([req[h] EXCEPT !.pc = p])
  BY MovePlain DEF TypeInv, TypeOK
<1> QED BY <1>1, ScriptExitInstance DEF ScriptGoto

LEMMA ImageStepInstance ==
    ASSUME TypeInv, TypeInv', InstanceInv, NEW h \in Proc, ImageStep(h)
    PROVE  InstanceInv'
<1>0. req[h] \in Request /\ Shape(req[h])
  BY DEF TypeInv, TypeOK
<1> USE DEF disk, tables, imageTable, instanceTable, NoNewDir
<1>1. CASE ImageCreate(h)
  <2>1. PICK i : req' = [req EXCEPT ![h] = New("ImageCreate", "mkvol", Upload, i, 0)]
    BY <1>1 DEF ImageCreate
  <2>2. Plain(New("ImageCreate", "mkvol", Upload, i, 0))
    BY DEF Plain, RowDeleted, New
  <2> QED BY <1>1, <2>1, <2>2, PlainInstance DEF ImageCreate
<1>2. CASE CreateBtrfsSubvolume(h)
  BY <1>2, ScriptReplyInstance, ScriptFailInstance DEF CreateBtrfsSubvolume
<1>3. CASE ImageDone(h)
  <2> DEFINE r(i) == New("ImageDone", "bootimage", Upload, i, 0)
             x(i) == CASE images[i] = "none"  -> Replied(r(i), 404)
                       [] images[i] = "ready" -> Replied(r(i), 200)
                       [] OTHER               -> r(i)
  <2>1. PICK i \in ImageId : req' = [req EXCEPT ![h] = x(i)]
    BY <1>3 DEF ImageDone
  <2>2. Plain(r(i)) /\ Plain(Replied(r(i), 404)) /\ Plain(Replied(r(i), 200))
    BY DEF Plain, RowDeleted, New, Replied
  <2>3. Plain(x(i))
    <3> HIDE DEF r
    <3> QED BY <2>2
  <2> HIDE DEF x
  <2> QED BY <1>3, <2>1, <2>3, PlainInstance DEF ImageDone
<1>4. CASE BootImage(h)
  BY <1>4, GotoInstance, ScriptFailInstance DEF BootImage
<1>5. CASE MarkStarted(h)
  BY <1>5, GotoInstance, ScriptFailInstance DEF MarkStarted
<1>6. CASE SealImage(h)
  BY <1>6, GotoInstance, ScriptFailInstance DEF SealImage
<1>7. CASE SnapshotImage(h)
  BY <1>7, ScriptGotoInstance, ScriptFailInstance DEF SnapshotImage
<1>8. CASE ImageMarkReady(h)
  BY <1>8, ReplyInstance, FailInstance DEF ImageMarkReady
<1>9. CASE ImageDestroy(h)
  <2> DEFINE r(i, u) == New("ImageDestroy", IF u = Upload THEN "list" ELSE "delimage", u, i, 0)
             x(i, u) == IF ImageExists(i) THEN r(i, u) ELSE Replied(r(i, u), 404)
  <2>1. PICK i \in ImageId, u \in User : req' = [req EXCEPT ![h] = x(i, u)]
    BY <1>9 DEF ImageDestroy
  <2>2. Plain(r(i, u)) /\ Plain(Replied(r(i, u), 404))
    BY DEF Plain, RowDeleted, New, Replied
  <2>3. Plain(x(i, u))
    <3> HIDE DEF r
    <3> QED BY <2>2
  <2> HIDE DEF x
  <2> QED BY <1>9, <2>1, <2>3, PlainInstance DEF ImageDestroy
<1>10. CASE ListInstances(h)
  <2> DEFINE T == {t \in InstanceList : t[1] \in InstancesOf(req[h].image)}
             x == [req[h] EXCEPT !.pc = "next", !.todo = T]
  <2>1. req' = [req EXCEPT ![h] = x]
    BY <1>10 DEF ListInstances, TypeInv, TypeOK, Request
  <2>2. Plain(x)
    BY <1>0 DEF Plain, RowDeleted, Request
  <2> HIDE DEF x
  <2> QED BY <1>10, <2>1, <2>2, PlainInstance DEF ListInstances
<1>11. CASE NextInstance(h)
  <2>1. CASE req[h].todo = {}
    BY <1>11, <2>1, GotoInstance DEF NextInstance
  <2>2. CASE req[h].todo # {}
    <3>1. PICK t \in req[h].todo :
            req' = [req EXCEPT ![h].pc = "delrow", ![h].inst = t[1], ![h].todo = @ \ {t}]
      BY <1>11, <2>2 DEF NextInstance
    <3> DEFINE x == [req[h] EXCEPT !.pc = "delrow", !.inst = t[1], !.todo = req[h].todo \ {t}]
    <3>2. req' = [req EXCEPT ![h] = x]
      BY <3>1 DEF TypeInv, TypeOK, Request
    <3>3. Plain(x)
      BY <1>0, <1>11 DEF NextInstance, At, Plain, RowDeleted, Request
    <3> HIDE DEF x
    <3> QED BY <1>11, <3>2, <3>3, PlainInstance DEF NextInstance
  <2> QED BY <2>1, <2>2
<1>12. CASE ImageDeleteRow(h)
  BY <1>12, ReplyInstance, GotoInstance DEF ImageDeleteRow
<1>13. CASE RemoveSnapshot(h)
  BY <1>13, GotoInstance DEF RemoveSnapshot
<1>14. CASE RemoveUpload(h)
  BY <1>0, <1>14, ScriptReplyInstance, ScriptFailInstance DEF RemoveUpload, Shape, Fits
<1> QED BY <1>1, <1>2, <1>3, <1>4, <1>5, <1>6, <1>7, <1>8, <1>9, <1>10, <1>11, <1>12, <1>13,
           <1>14 DEF ImageStep

(* The new id is larger than any that is cloned, gone or deleted. *)
LEMMA InsertRowInstance ==
    ASSUME TypeInv, TypeInv', InstanceInv, NEW h \in Proc, InsertRow(h)
    PROVE  InstanceInv'
<1> USE DEF disk, imageTable, instanceTable, NoNewDir
<1>1. CASE ~ImageExists(req[h].image)
  BY <1>1, ReplyInstance DEF InsertRow, Aborted
<1>2. CASE ImageExists(req[h].image)
  <2>1. PICK n \in InstanceId :
          /\ InsertInstance(n, req[h].image, req[h].port, req[h].user)
          /\ req' = [req EXCEPT ![h].pc = "clone", ![h].inst = n]
    BY <1>2 DEF InsertRow
  <2>2. /\ instanceSeq \in Nat /\ n = instanceSeq + 1 /\ instanceSeq' = n
        /\ n \in Nat /\ dirs' = dirs
        /\ instances'[n] # NoRow
        /\ \A m \in InstanceId : m # n => instances'[m] = instances[m]
    <3> DEFINE row == [image |-> req[h].image, port |-> req[h].port, user |-> req[h].user]
    <3>1. row \in InstanceRow
      BY DEF InsertRow, At, TypeInv, TypeOK, Shape, Fits, Request, InstanceRow
    <3>2. instances' = [instances EXCEPT ![n] = row]
      BY <2>1 DEF InsertInstance
    <3> HIDE DEF row
    <3>3. /\ instances'[n] # NoRow
          /\ \A m \in InstanceId : m # n => instances'[m] = instances[m]
      BY <3>1, <3>2, StoreAssumption DEF TypeInv, TypeOK, StoreTypeOK
    <3>4. instanceSeq \in Nat /\ n = instanceSeq + 1 /\ instanceSeq' = n /\ n \in Nat
      BY <2>1 DEF InsertInstance, TypeInv, TypeOK, StoreTypeOK
    <3> QED BY <3>3, <3>4 DEF InsertRow
  <2>3. dirs[n] = "absent"
    BY <2>2 DEF InstanceInv, InstanceId
  <2>4. /\ req'[h].pc = "clone" /\ req'[h].inst = n
        /\ \A g \in Proc : g # h => req'[g] = req[g]
    BY <2>1 DEF TypeInv, TypeOK, Request
  <2>5. \A m \in InstanceId : Gone(m) => Gone(m)'
    BY <2>2, <2>4 DEF Gone, InstanceId
  <2>6. ASSUME NEW g \in Proc PROVE InstanceReq(req[g])'
    <3>1. CASE g = h
      BY <2>2, <2>3, <2>4, <3>1 DEF InstanceReq, RowDeleted
    <3>2. CASE g # h
      <4>1. req'[g] = req[g] /\ InstanceReq(req[g]) /\ Shape(req[g])
        BY <2>4, <3>2 DEF InstanceInv, TypeInv
      <4>2. /\ req[g].pc \in {"clone", "delrow"} => req[g].inst \in InstanceId
            /\ RowDeleted(req[g]) => req[g].inst \in InstanceId
        BY <4>1 DEF Shape, Fits, RowDeleted
      <4>3. RowDeleted(req[g]) => req[g].inst # n
        BY <2>2, <4>1, <4>2 DEF InstanceReq, Gone, InstanceId
      <4>4. req[g].pc = "clone" => req[g].inst <= instanceSeq' /\ dirs'[req[g].inst] = "absent"
        BY <2>2, <4>1, <4>2 DEF InstanceReq, InstanceId
      <4>5. req[g].pc = "delrow" /\ req[g].op # "ImageDestroy" => Gone(req[g].inst)'
        BY <2>5, <4>1, <4>2 DEF InstanceReq
      <4>6. RowDeleted(req[g]) => Gone(req[g].inst)' /\ instances'[req[g].inst] = NoRow
        BY <2>2, <2>5, <4>1, <4>2, <4>3 DEF InstanceReq
      <4> QED BY <4>1, <4>4, <4>5, <4>6 DEF InstanceReq, RowDeleted
    <3> QED BY <3>1, <3>2
  <2>7. ClonesDistinct'
    <3>1. \A g \in Proc : g # h /\ req[g].pc = "clone" => req[g].inst # n
      BY <2>2 DEF InstanceInv, InstanceReq, TypeInv, Shape, Fits, InstanceId
    <3> QED BY <2>4, <3>1 DEF InstanceInv, ClonesDistinct
  <2>8. \A m \in InstanceId : (instances[m] # NoRow \/ dirs[m] # "absent" => m <= instanceSeq)'
    BY <2>2 DEF InstanceInv, InstanceId
  <2>9. ("ImageDestroy" \notin Ops => RowInv)'
    <3>1. \A g \in Proc : req[g].pc = "clone" => req[g].inst \in InstanceId
      BY DEF TypeInv, Shape, Fits
    <3> QED BY <2>2, <2>4, <3>1 DEF InstanceInv, RowInv, DirHasRow
  <2> QED BY <2>6, <2>7, <2>8, <2>9 DEF InstanceInv
<1> QED BY <1>1, <1>2

(* Nobody else clones the same directory, nobody holds it for gone. *)
LEMMA CloneInstance ==
    ASSUME TypeInv, TypeInv', InstanceInv, NEW h \in Proc, CloneSnapshot(h)
    PROVE  InstanceInv'
<1> USE DEF tables, disk, imageTable, instanceTable, NoNewDir
<1>1. CASE req[h].image \notin snapshots
  BY <1>1, ScriptFailInstance DEF CloneSnapshot
<1>2. CASE req[h].image \in snapshots
  <2> DEFINE n == req[h].inst
  <2>1. /\ n \in InstanceId /\ n <= instanceSeq
        /\ req[h].pc = "clone" /\ req'[h].pc = "certs" /\ req'[h].op = req[h].op
        /\ req[h].op = "Create"
        /\ \A g \in Proc : g # h => req'[g] = req[g]
        /\ dirs' = [dirs EXCEPT ![n] = "bare"]
        /\ UNCHANGED <<instances, instanceSeq>>
    BY <1>2
    DEF CloneSnapshot, Goto, TypeInv, TypeOK, Request, Shape, Fits, InstanceInv, InstanceReq
  <2>2. \A m \in InstanceId : Gone(m) => m # n
    BY <2>1 DEF Gone
  <2>3. \A m \in InstanceId : Gone(m) => Gone(m)'
    BY <2>1, <2>2 DEF Gone, TypeInv, TypeOK
  <2>4. \A g \in Proc : g # h /\ req[g].pc = "clone" => req[g].inst # n
    BY <2>1 DEF InstanceInv, ClonesDistinct
  <2>5. ASSUME NEW g \in Proc PROVE InstanceReq(req[g])'
    <3>1. CASE g = h
      BY <2>1, <3>1 DEF InstanceReq, RowDeleted
    <3>2. CASE g # h
      <4>1. req'[g] = req[g] /\ InstanceReq(req[g]) /\ Shape(req[g])
        BY <2>1, <3>2 DEF InstanceInv, TypeInv
      <4>2. /\ req[g].pc \in {"clone", "delrow"} => req[g].inst \in InstanceId
            /\ RowDeleted(req[g]) => req[g].inst \in InstanceId
        BY <4>1 DEF Shape, Fits, RowDeleted
      <4>3. req[g].pc = "clone" => req[g].inst <= instanceSeq' /\ dirs'[req[g].inst] = "absent"
        BY <2>1, <2>4, <3>2, <4>1, <4>2 DEF InstanceReq, TypeInv, TypeOK
      <4> QED BY <2>1, <2>3, <4>1, <4>2, <4>3 DEF InstanceReq, RowDeleted
    <3> QED BY <3>1, <3>2
  <2>6. ClonesDistinct'
    BY <2>1 DEF InstanceInv, ClonesDistinct
  <2>7. \A m \in InstanceId : (instances[m] # NoRow \/ dirs[m] # "absent" => m <= instanceSeq)'
    BY <2>1 DEF InstanceInv, TypeInv, TypeOK
  <2>8. ("ImageDestroy" \notin Ops => RowInv)'
    BY <2>1 DEF InstanceInv, RowInv, DirHasRow, TypeInv, TypeOK
  <2> QED BY <2>5, <2>6, <2>7, <2>8 DEF InstanceInv
<1> QED BY <1>1, <1>2

(* Instances.Destroy and the cleaner delete the row of a gone directory.  *)
LEMMA DeleteRowInstance ==
    ASSUME TypeInv, TypeInv', InstanceInv, NEW h \in Proc, DeleteRow(h)
    PROVE  InstanceInv'
<1> USE DEF disk, imageTable
<1> DEFINE n == req[h].inst
<1>1. /\ n \in InstanceId /\ req[h].op \in {"Destroy", "Clean", "ImageDestroy"}
      /\ req[h].op # "ImageDestroy" => Gone(n)
      /\ req[h].op \in Ops \cup {"none"}
  BY DEF DeleteRow, TypeInv, Shape, Fits, InstanceInv, InstanceReq
<1>2. PICK p \in {"apply", "next", "stop"} :
        /\ p = "apply" <=> req[h].op = "Destroy"
        /\ req' = [req EXCEPT ![h].pc = p]
  BY <1>1 DEF DeleteRow, Goto
<1>3. /\ instances' = [instances EXCEPT ![n] = NoRow]
      /\ UNCHANGED <<instanceSeq, dirs>>
  BY DEF DeleteRow, DeleteInstance
<1>4. /\ req'[h].pc = p /\ req'[h].op = req[h].op /\ req'[h].inst = n
      /\ \A g \in Proc : g # h => req'[g] = req[g]
  BY <1>2 DEF TypeInv, TypeOK, Request
<1>5. \A m \in InstanceId : Gone(m) => Gone(m)'
  BY <1>3, <1>4 DEF Gone
<1>6. ASSUME NEW g \in Proc PROVE InstanceReq(req[g])'
  <2>1. CASE g = h
    <3>1. instances'[n] = NoRow
      BY <1>1, <1>3 DEF TypeInv, TypeOK, StoreTypeOK
    <3> QED BY <1>1, <1>2, <1>4, <1>5, <2>1, <3>1 DEF InstanceReq, RowDeleted
  <2>2. CASE g # h
    <3>1. req'[g] = req[g] /\ InstanceReq(req[g]) /\ Shape(req[g])
      BY <1>4, <2>2 DEF InstanceInv, TypeInv
    <3>2. /\ req[g].pc = "delrow" => req[g].inst \in InstanceId
          /\ RowDeleted(req[g]) => req[g].inst \in InstanceId
      BY <3>1 DEF Shape, Fits, RowDeleted
    <3>3. instances[req[g].inst] = NoRow /\ req[g].inst \in InstanceId
            => instances'[req[g].inst] = NoRow
      BY <1>1, <1>3 DEF TypeInv, TypeOK, StoreTypeOK
    <3> QED BY <1>3, <1>5, <3>1, <3>2, <3>3 DEF InstanceReq, RowDeleted
  <2> QED BY <2>1, <2>2
<1>7. ClonesDistinct'
  BY <1>4 DEF InstanceInv, ClonesDistinct
<1>8. \A m \in InstanceId : (instances[m] # NoRow \/ dirs[m] # "absent" => m <= instanceSeq)'
  BY <1>1, <1>3 DEF InstanceInv, TypeInv, TypeOK, StoreTypeOK
<1>9. ("ImageDestroy" \notin Ops => RowInv)'
  <2> SUFFICES ASSUME "ImageDestroy" \notin Ops PROVE RowInv'
    OBVIOUS
  <2>1. Gone(n) /\ RowInv
    BY <1>1 DEF InstanceInv
  <2>2. \A g \in Proc : req'[g].pc = "clone" => req'[g] = req[g] /\ req[g].inst # n
    BY <1>4, <2>1 DEF Gone
  <2>3. \A m \in InstanceId : m # n => instances'[m] = instances[m]
    BY <1>3 DEF TypeInv, TypeOK, StoreTypeOK
  <2>4. \A g \in Proc : req[g].pc = "clone" => req[g].inst \in InstanceId
    BY DEF TypeInv, Shape, Fits
  <2> QED BY <1>3, <2>1, <2>2, <2>3, <2>4 DEF RowInv, DirHasRow, Gone
<1> QED BY <1>6, <1>7, <1>8, <1>9 DEF InstanceInv

LEMMA InstanceStepInstance ==
    ASSUME TypeInv, TypeInv', InstanceInv, NEW h \in Proc, InstanceStep(h)
    PROVE  InstanceInv'
<1>0. req[h] \in Request /\ Shape(req[h]) /\ InstanceReq(req[h])
  BY DEF TypeInv, TypeOK, InstanceInv
<1> USE DEF disk, tables, imageTable, instanceTable, NoNewDir
<1>1. CASE InstanceCreate(h)
  <2> DEFINE r(i, u) == New("Create", "port", u, i, 0)
             x(i, u) == CASE images[i] = "none"    -> Replied(r(i, u), 404)
                          [] images[i] = "unready" -> Replied(r(i, u), 422)
                          [] OTHER                 -> r(i, u)
  <2>1. PICK i \in ImageId, u \in User : req' = [req EXCEPT ![h] = x(i, u)]
    BY <1>1 DEF InstanceCreate
  <2>2. Plain(r(i, u)) /\ Plain(Replied(r(i, u), 404)) /\ Plain(Replied(r(i, u), 422))
    BY DEF Plain, RowDeleted, New, Replied
  <2>3. Plain(x(i, u))
    <3> HIDE DEF r
    <3> QED BY <2>2
  <2> HIDE DEF x
  <2> QED BY <1>1, <2>1, <2>3, PlainInstance DEF InstanceCreate
<1>2. CASE ChoosePort(h)
  <2>1. CASE Fail(h)
    BY <1>2, <2>1, FailInstance DEF ChoosePort
  <2>2. ASSUME NEW p \in Port, req' = [req EXCEPT ![h].pc = "insert", ![h].port = p]
        PROVE  InstanceInv'
    <3> DEFINE x == [req[h] EXCEPT !.pc = "insert", !.port = p]
    <3>1. req' = [req EXCEPT ![h] = x]
      BY <2>2 DEF TypeInv, TypeOK, Request
    <3>2. Plain(x)
      BY <1>0 DEF Plain, RowDeleted, Request
    <3> HIDE DEF x
    <3> QED BY <1>2, <3>1, <3>2, PlainInstance DEF ChoosePort
  <2> QED BY <1>2, <2>1, <2>2 DEF ChoosePort
<1>3. CASE InsertRow(h)
  BY <1>3, InsertRowInstance
<1>4. CASE CloneSnapshot(h)
  BY <1>4, CloneInstance
<1>5. CASE WriteCerts(h)
  <2>1. NoNewDir
    BY <1>5 DEF WriteCerts, TypeInv, TypeOK
  <2> QED BY <1>5, <2>1, GotoInstance, ScriptFailInstance DEF WriteCerts
<1>6. CASE StartPostgres(h)
  BY <1>6, GotoInstance, ScriptFailInstance DEF StartPostgres
<1>7. CASE ValidateAndRestart(h)
  BY <1>7, ScriptGotoInstance, ScriptFailInstance DEF ValidateAndRestart
<1>8. CASE InstanceGet(h)
  <2> DEFINE r(n, u) == New("Get", "creds", u, 0, n)
             x(n, u) == IF instances[n] # NoRow /\ instances[n].user = u
                          THEN r(n, u) ELSE Replied(r(n, u), 404)
  <2>1. PICK n \in InstanceId, u \in User : req' = [req EXCEPT ![h] = x(n, u)]
    BY <1>8 DEF InstanceGet, InstanceExists
  <2>2. Plain(r(n, u)) /\ Plain(Replied(r(n, u), 404))
    BY DEF Plain, RowDeleted, New, Replied
  <2>3. Plain(x(n, u))
    <3> HIDE DEF r
    <3> QED BY <2>2
  <2> HIDE DEF x
  <2> QED BY <1>8, <2>1, <2>3, PlainInstance DEF InstanceGet
<1>9. CASE RetrieveInstanceCredentials(h)
  BY <1>9, GotoInstance, ReplyInstance DEF RetrieveInstanceCredentials
<1>10. CASE WhitelistAddress(h)
  <2>1. CASE Fail(h)
    BY <1>10, <2>1, FailInstance DEF WhitelistAddress
  <2>2. CASE Goto(h, "apply")
    <3> DEFINE x == [req[h] EXCEPT !.pc = "apply"]
    <3>1. req' = [req EXCEPT ![h] = x]
      BY <2>2 DEF Goto, TypeInv, TypeOK
    <3>2. Plain(x)
      BY <1>0, <1>10 DEF WhitelistAddress, Plain, RowDeleted, Request, Shape, Fits
    <3> HIDE DEF x
    <3> QED BY <1>10, <3>1, <3>2, PlainInstance DEF WhitelistAddress
  <2> QED BY <1>10, <2>1, <2>2 DEF WhitelistAddress
<1>11. CASE ApplyWhitelist(h)
  <2>1. CASE req[h].op # "Destroy"
    <3>1. PICK s \in {200, 201} : Reply(h, s)
      BY <1>0, <1>11, <2>1 DEF ApplyWhitelist, Shape, Fits
    <3> QED BY <1>11, <2>1, <3>1, ReplyInstance DEF ApplyWhitelist
  <2>2. CASE req[h].op = "Destroy"
    <3>1. Reply(h, 204) /\ UNCHANGED <<instances, instanceSeq, dirs>>
      BY <1>11, <2>2 DEF ApplyWhitelist
    <3>2. Gone(req[h].inst) /\ instances[req[h].inst] = NoRow
      BY <1>0, <1>11, <2>2 DEF ApplyWhitelist, InstanceReq, RowDeleted
    <3> DEFINE x == Replied(req[h], 204)
    <3>3. x.pc = "reply" /\ x.inst = req[h].inst
      BY <1>0 DEF Replied, Request
    <3>4. req' = [req EXCEPT ![h] = x] /\ req'[h] = x
      BY <3>1 DEF Reply, TypeInv, TypeOK
    <3> HIDE DEF x
    <3>5. Gone(req[h].inst)'
      BY <3>1, <3>2, <3>3, <3>4 DEF Gone, TypeInv, TypeOK
    <3>6. InstanceReq(req[h])'
      BY <3>1, <3>2, <3>3, <3>4, <3>5 DEF InstanceReq
    <3> QED BY <3>1, <3>3, <3>4, <3>6, CalmInstance
  <2> QED BY <2>1, <2>2
<1>12. CASE InstanceDestroy(h)
  <2> DEFINE r(n, u) == New("Destroy", "stop", u, 0, n)
             x(n, u) == IF instances[n] # NoRow /\ u \in {Upload, instances[n].user}
                          THEN r(n, u) ELSE Replied(r(n, u), 404)
  <2>1. PICK n \in InstanceId, u \in User : req' = [req EXCEPT ![h] = x(n, u)]
    BY <1>12 DEF InstanceDestroy, InstanceExists
  <2>2. Plain(r(n, u)) /\ Plain(Replied(r(n, u), 404))
    BY DEF Plain, RowDeleted, New, Replied
  <2>3. Plain(x(n, u))
    <3> HIDE DEF r
    <3> QED BY <2>2
  <2> HIDE DEF x
  <2> QED BY <1>12, <2>1, <2>3, PlainInstance DEF InstanceDestroy
<1>13. CASE StopPostgres(h)
  BY <1>13, GotoInstance DEF StopPostgres
<1>14. CASE RemoveDir(h)
  <2> DEFINE n == req[h].inst
  <2>1. CASE dirs[n] = "absent"
    BY <1>14, <2>1, ScriptFailInstance DEF RemoveDir
  <2>2. CASE dirs[n] # "absent"
    <3>1. /\ n \in InstanceId /\ dirs' = [dirs EXCEPT ![n] = "absent"]
          /\ UNCHANGED <<instances, instanceSeq>>
          /\ req[h].op \in {"Destroy", "Clean", "ImageDestroy"}
      BY <1>0, <1>14, <2>2 DEF RemoveDir, Shape, Fits
    <3>2. NoNewDir
      BY <3>1 DEF TypeInv, TypeOK
    <3>3. CASE req[h].op = "ImageDestroy"
      <4>1. ScriptGoto(h, "next")
        BY <1>14, <2>2, <3>3 DEF RemoveDir
      <4> QED BY <3>1, <3>2, <4>1, ScriptGotoInstance
    <3>4. CASE req[h].op # "ImageDestroy"
      <4> DEFINE y == [req[h] EXCEPT !.pc = "delrow"]
      <4>1. ScriptExit(h, TRUE, y)
        BY <1>14, <2>2, <3>4 DEF RemoveDir, ScriptGoto
      <4>2. y.pc = "delrow" /\ y.op = req[h].op /\ y.inst = n
        BY <1>0 DEF Request
      <4> HIDE DEF y
      <4>3. PICK x : req' = [req EXCEPT ![h] = x] /\ (Plain(x) \/ x = y)
        BY <4>1, ExitPlain
      <4>4. CASE Plain(x)
        BY <3>1, <3>2, <4>3, <4>4, PlainInstance
      <4>5. CASE x = y
        <5>1. req'[h] = y /\ \A g \in Proc : g # h => req'[g] = req[g]
          BY <4>3, <4>5 DEF TypeInv, TypeOK
        <5>2. n <= instanceSeq /\ \A g \in Proc : req[g].pc = "clone" => req[g].inst # n
          BY <2>2, <3>1 DEF InstanceInv, InstanceReq
        <5>3. dirs'[n] = "absent"
          BY <3>1 DEF TypeInv, TypeOK
        <5>4. InstanceReq(req[h])'
          BY <3>1, <4>2, <5>1, <5>2, <5>3 DEF InstanceReq, Gone, RowDeleted
        <5> QED BY <3>1, <3>2, <4>2, <4>3, <4>5, <5>4, CalmInstance
      <4> QED BY <4>3, <4>4, <4>5
    <3> QED BY <3>3, <3>4
  <2> QED BY <2>1, <2>2
<1>15. CASE DeleteRow(h)
  BY <1>15, DeleteRowInstance
<1> QED BY <1>1, <1>2, <1>3, <1>4, <1>5, <1>6, <1>7, <1>8, <1>9, <1>10, <1>11, <1>12, <1>13,
           <1>14, <1>15 DEF InstanceStep

(* The new row of an INSERT whose answer was lost; nobody clones for it. *)
LEMMA UnseenRowInstance ==
    ASSUME TypeInv, TypeInv', InstanceInv, NEW n \in InstanceId, NEW row,
           n = instanceSeq + 1, instanceSeq' = n, instances' = [instances EXCEPT ![n] = row],
           UNCHANGED dirs,
           NEW h \in Proc, NEW x, Plain(x), req' = [req EXCEPT ![h] = x]
    PROVE  InstanceInv'
<1>1. /\ instanceSeq \in Nat /\ n \in Nat
      /\ \A m \in InstanceId : m # n => instances'[m] = instances[m]
      /\ \A m \in InstanceId : m \in Nat
      /\ \A m \in InstanceId : m <= instanceSeq => m <= instanceSeq'
  BY DEF TypeInv, TypeOK, StoreTypeOK, InstanceId
<1>2. req'[h] = x /\ \A g \in Proc : g # h => req'[g] = req[g]
  BY DEF TypeInv, TypeOK
<1>3. \A g \in Proc : req'[g].pc = "clone" => req[g].pc = "clone" /\ req'[g] = req[g]
  BY <1>2 DEF Plain
<1>4. \A m \in InstanceId : Gone(m) => Gone(m)' /\ m # n
  BY <1>1, <1>3 DEF Gone
<1>5. ASSUME NEW g \in Proc PROVE InstanceReq(req[g])'
  <2>1. CASE g = h
    BY <1>2, <2>1 DEF Plain, InstanceReq, RowDeleted
  <2>2. CASE g # h
    <3>1. req'[g] = req[g] /\ InstanceReq(req[g]) /\ Shape(req[g])
      BY <1>2, <2>2 DEF InstanceInv, TypeInv
    <3>2. /\ req[g].pc \in {"clone", "delrow"} => req[g].inst \in InstanceId
          /\ RowDeleted(req[g]) => req[g].inst \in InstanceId
      BY <3>1 DEF Shape, Fits, RowDeleted
    <3>3. req[g].inst \in InstanceId /\ req[g].inst <= instanceSeq => req[g].inst <= instanceSeq'
      BY <1>1
    <3>4. req[g].inst \in InstanceId /\ req[g].inst # n
            => instances'[req[g].inst] = instances[req[g].inst]
      BY <1>1
    <3>5. req[g].pc = "clone" => req[g].inst <= instanceSeq' /\ dirs[req[g].inst] = "absent"
      BY <3>1, <3>2, <3>3 DEF InstanceReq
    <3>6. req[g].pc = "delrow" /\ req[g].op # "ImageDestroy" => Gone(req[g].inst)'
      BY <1>4, <3>1, <3>2 DEF InstanceReq
    <3>7. RowDeleted(req[g]) => Gone(req[g].inst)' /\ instances'[req[g].inst] = NoRow
      BY <1>4, <3>1, <3>2, <3>4 DEF InstanceReq
    <3> QED BY <3>1, <3>5, <3>6, <3>7 DEF InstanceReq, RowDeleted
  <2> QED BY <2>1, <2>2
<1>6. ClonesDistinct'
  BY <1>3 DEF InstanceInv, ClonesDistinct
<1>7. ASSUME NEW m \in InstanceId
      PROVE  (instances[m] # NoRow \/ dirs[m] # "absent" => m <= instanceSeq)'
  <2>1. instances[m] # NoRow \/ dirs[m] # "absent" => m <= instanceSeq
    BY DEF InstanceInv
  <2> QED BY <1>1, <2>1
<1>8. ("ImageDestroy" \notin Ops => RowInv)'
  <2> SUFFICES ASSUME "ImageDestroy" \notin Ops PROVE RowInv'
    OBVIOUS
  <2>1. /\ RowInv
        /\ \A m \in InstanceId : dirs[m] # "absent" => m # n
        /\ \A g \in Proc : req[g].pc = "clone" => req[g].inst \in InstanceId /\ req[g].inst # n
    BY <1>1 DEF InstanceInv, InstanceReq, TypeInv, Shape, Fits
  <2> QED BY <1>1, <1>3, <2>1 DEF RowInv, DirHasRow
<1> QED BY <1>5, <1>6, <1>7, <1>8 DEF InstanceInv

(* The row is deleted for a directory that is gone, by whomever. *)
LEMMA UnseenDeletionInstance ==
    ASSUME TypeInv, TypeInv', InstanceInv, NEW n \in InstanceId,
           instances' = [instances EXCEPT ![n] = NoRow], UNCHANGED <<instanceSeq, dirs>>,
           "ImageDestroy" \notin Ops => Gone(n),
           NEW h \in Proc, NEW x, Plain(x), req' = [req EXCEPT ![h] = x]
    PROVE  InstanceInv'
<1>1. /\ instances'[n] = NoRow
      /\ \A m \in InstanceId : m # n => instances'[m] = instances[m]
  BY DEF TypeInv, TypeOK, StoreTypeOK
<1>2. req'[h] = x /\ \A g \in Proc : g # h => req'[g] = req[g]
  BY DEF TypeInv, TypeOK
<1>3. \A g \in Proc : req'[g].pc = "clone" => req[g].pc = "clone" /\ req'[g] = req[g]
  BY <1>2 DEF Plain
<1>4. \A m \in InstanceId : Gone(m) => Gone(m)'
  BY <1>3 DEF Gone
<1>5. ASSUME NEW g \in Proc PROVE InstanceReq(req[g])'
  <2>1. CASE g = h
    BY <1>2, <2>1 DEF Plain, InstanceReq, RowDeleted
  <2>2. CASE g # h
    <3>1. req'[g] = req[g] /\ InstanceReq(req[g]) /\ Shape(req[g])
      BY <1>2, <2>2 DEF InstanceInv, TypeInv
    <3>2. /\ req[g].pc \in {"clone", "delrow"} => req[g].inst \in InstanceId
          /\ RowDeleted(req[g]) => req[g].inst \in InstanceId
      BY <3>1 DEF Shape, Fits, RowDeleted
    <3> QED BY <1>1, <1>4, <3>1, <3>2 DEF InstanceReq, RowDeleted
  <2> QED BY <2>1, <2>2
<1>6. ClonesDistinct'
  BY <1>3 DEF InstanceInv, ClonesDistinct
<1>7. \A m \in InstanceId : (instances[m] # NoRow \/ dirs[m] # "absent" => m <= instanceSeq)'
  BY <1>1 DEF InstanceInv
<1>8. ("ImageDestroy" \notin Ops => RowInv)'
  <2> SUFFICES ASSUME "ImageDestroy" \notin Ops PROVE RowInv'
    OBVIOUS
  <2>1. /\ RowInv /\ Gone(n)
        /\ \A g \in Proc : req[g].pc = "clone" => req[g].inst \in InstanceId /\ req[g].inst # n
    BY DEF InstanceInv, Gone, TypeInv, Shape, Fits
  <2> QED BY <1>1, <1>3, <2>1 DEF RowInv, DirHasRow, Gone
<1> QED BY <1>5, <1>6, <1>7, <1>8 DEF InstanceInv

LEMMA UnacknowledgedInstance ==
    ASSUME TypeInv, TypeInv', InstanceInv, NEW h \in Proc, Unacknowledged(h)
    PROVE  InstanceInv'
<1> DEFINE r == req[h]
           x == OnStatementError(r)
<1>1. /\ req' = [req EXCEPT ![h] = x] /\ TakesEffect(r) /\ UNCHANGED <<disk, revoked>>
      /\ Shape(r)
  BY LostAnswer
<1>2. Plain(x)
  BY LostAnswer DEF Plain, RowDeleted
<1> HIDE DEF x
<1> USE DEF disk, instanceTable
<1>3. CASE UNCHANGED instanceTable
  BY <1>1, <1>2, <1>3, PlainInstance DEF NoNewDir
<1>4. ASSUME NEW n \in InstanceId, InsertInstance(n, r.image, r.port, r.user)
      PROVE  InstanceInv'
  BY <1>1, <1>2, <1>4, UnseenRowInstance DEF InsertInstance
<1>5. CASE r.pc = "delrow" /\ DeleteInstance(r.inst)
  <2>1. /\ r.inst \in InstanceId
        /\ "ImageDestroy" \notin Ops => Gone(r.inst)
    BY <1>1, <1>5 DEF Shape, Fits, InstanceInv, InstanceReq
  <2> QED BY <1>1, <1>2, <1>5, <2>1, UnseenDeletionInstance DEF DeleteInstance
<1> QED BY <1>1, <1>3, <1>4, <1>5 DEF TakesEffect

LEMMA CreateUnacknowledgedInstance ==
    ASSUME TypeInv, TypeInv', InstanceInv, NEW h \in Proc, CreateUnacknowledged(h)
    PROVE  InstanceInv'
<1> DEFINE x(i) == Replied(New("ImageCreate", "mkvol", Upload, i, 0), 500)
<1>1. PICK i \in ImageId : req' = [req EXCEPT ![h] = x(i)]
  BY DEF CreateUnacknowledged
<1>2. Plain(x(i))
  BY DEF Plain, RowDeleted, Replied, New
<1> HIDE DEF x
<1> QED BY <1>1, <1>2, PlainInstance DEF CreateUnacknowledged, disk, instanceTable, NoNewDir

LEMMA TruncatedListInstance ==
    ASSUME TypeInv, TypeInv', InstanceInv, NEW h \in Proc, TruncatedList(h)
    PROVE  InstanceInv'
<1>1. req[h] \in Request
  BY DEF TypeInv, TypeOK
<1>2. \A p, s : /\ Plain([req[h] EXCEPT !.pc = "insert", !.port = p])
                /\ Plain([req[h] EXCEPT !.pc = "next", !.todo = s])
                /\ Plain([New("Clean", "next", Upload, 0, 0) EXCEPT !.todo = s])
  BY <1>1 DEF Plain, RowDeleted, New, Request
<1>3. PICK x : Plain(x) /\ req' = [req EXCEPT ![h] = x]
  BY <1>2, CutShort
<1> QED BY <1>3, PlainInstance DEF TruncatedList, tables, disk, instanceTable, NoNewDir

LEMMA OtherInstance ==
    ASSUME TypeInv, TypeInv', InstanceInv,
           CleanerStep \/ (\E h \in Proc : Finish(h)) \/ (\E u \in User : Revoke(u)) \/ Fault
    PROVE  InstanceInv'
<1>0. Cleaner \in Proc /\ \A h \in Proc : req[h] \in Request
  BY DEF Proc, TypeInv, TypeOK
<1> USE DEF disk, tables, imageTable, instanceTable, NoNewDir
<1>1. CASE Clean
  <2> DEFINE x == [New("Clean", "next", Upload, 0, 0) EXCEPT !.todo = InstanceList]
  <2>1. Plain(x)
    BY DEF Plain, RowDeleted, New
  <2>2. req' = [req EXCEPT ![Cleaner] = x]
    BY <1>1 DEF Clean
  <2> HIDE DEF x
  <2> QED BY <1>0, <1>1, <2>1, <2>2, PlainInstance DEF Clean
<1>2. CASE CheckToken
  <2> DEFINE rest(t) == [req[Cleaner] EXCEPT !.todo = req[Cleaner].todo \ {t}]
             doomed(t) == [rest(t) EXCEPT !.pc = "stop", !.inst = t[1]]
  <2>1. PICK t \in req[Cleaner].todo :
           \/ req' = [req EXCEPT ![Cleaner] = rest(t)]
           \/ req' = [req EXCEPT ![Cleaner] = doomed(t)]
    BY <1>2 DEF CheckToken
  <2>2. Plain(rest(t)) /\ Plain(doomed(t))
    BY <1>0, <1>2 DEF CheckToken, At, Plain, RowDeleted, Request
  <2> HIDE DEF rest, doomed
  <2> QED BY <1>0, <1>2, <2>1, <2>2, PlainInstance DEF CheckToken
<1>3. CASE CleanEnd
  BY <1>0, <1>3, IdlePlain, PlainInstance DEF CleanEnd
<1>4. ASSUME NEW h \in Proc, Finish(h) PROVE InstanceInv'
  BY <1>4, IdlePlain, PlainInstance DEF Finish
<1>5. ASSUME NEW u \in User, Revoke(u) PROVE InstanceInv'
  BY <1>5 DEF Revoke, InstanceInv, InstanceReq, RowDeleted, Gone, ClonesDistinct, RowInv, DirHasRow
<1>6. ASSUME NEW h \in Proc, ScriptFault(h) PROVE InstanceInv'
  BY <1>6, ScriptFailInstance, GotoInstance DEF ScriptFault
<1>7. ASSUME NEW h \in Proc, StatementFault(h) PROVE InstanceInv'
  <2>1. /\ Plain(Replied(req[h], 200))
        /\ Plain(Failed(req[h]))
        /\ Plain([req[h] EXCEPT !.pc = "next"])
    BY <1>0, <1>7, RepliedPlain, FailedPlain, MovePlain
  <2>2. Plain(OnStatementError(req[h]))
    BY <2>1 DEF OnStatementError
  <2> QED BY <1>7, <2>2, PlainInstance DEF StatementFault
<1>8. ASSUME NEW h \in Proc, Disconnect(h) PROVE InstanceInv'
  <2>1. CASE req' = [req EXCEPT ![h] = [req[h] EXCEPT !.parent = "killed"]]
    <3>1. Plain([req[h] EXCEPT !.parent = "killed"])
      BY <1>0, <1>8 DEF Disconnect, CtxPc, Plain, RowDeleted, Request
    <3> QED BY <1>8, <2>1, <3>1, PlainInstance DEF Disconnect
  <2>2. CASE Fail(h)
    BY <1>8, <2>2, FailInstance DEF Disconnect
  <2> QED BY <1>8, <2>1, <2>2 DEF Disconnect, TypeInv, TypeOK
<1>9. CASE Crash
  <2>1. UNCHANGED <<instances, instanceSeq, dirs>>
    BY <1>9 DEF Crash
  <2>2. ASSUME NEW g \in Proc
        PROVE  /\ req'[g].pc = "clone" => req[g].pc = "clone" /\ req'[g].inst = req[g].inst
               /\ Plain(req'[g]) \/ req'[g].pc = "clone"
    <3>1. CASE req[g].pc \in ScriptPc
      <4>1. req'[g] = [req[g] EXCEPT !.parent = "gone"]
        BY <1>9, <3>1 DEF Crash
      <4> QED BY <1>0, <3>1, <4>1
              DEF ScriptPc, CtxPc, DetachedPc, Plain, RowDeleted, Request
    <3>2. CASE req[g].pc \notin ScriptPc
      <4>1. req'[g] = Idle
        BY <1>9, <3>2 DEF Crash
      <4> QED BY <4>1, IdlePlain DEF Plain
    <3> QED BY <3>1, <3>2
  <2>3. \A g \in Proc : InstanceReq(req[g])'
    BY <2>1, <2>2 DEF InstanceInv, InstanceReq, Plain, RowDeleted
  <2> QED BY <2>1, <2>2, <2>3 DEF InstanceInv, ClonesDistinct, RowInv, DirHasRow
<1> QED BY <1>1, <1>2, <1>3, <1>4, <1>5, <1>6, <1>7, <1>8, <1>9, UnacknowledgedInstance,
           CreateUnacknowledgedInstance, TruncatedListInstance DEF CleanerStep, Fault

LEMMA StepInstance ==
    ASSUME TypeInv, TypeInv', InstanceInv, [Next]_vars
    PROVE  InstanceInv'
<1>1. CASE UNCHANGED vars
  BY <1>1 DEF vars, disk, tables, imageTable, instanceTable, InstanceInv, InstanceReq,
              RowDeleted, Gone, ClonesDistinct, RowInv, DirHasRow
<1>2. CASE Next
  BY <1>2, ImageStepInstance, InstanceStepInstance, OtherInstance DEF Next
<1> QED BY <1>1, <1>2

LEMMA InstancesRight == Spec => []InstanceInv
BY InitInstance, StepInstance, Typed, PTL DEF Spec

LEMMA GoneByInvariant == TypeInv /\ InstanceInv => DestroyedIsGone
BY DEF InstanceInv, InstanceReq, RowDeleted, Gone, DestroyedIsGone, At, Proc

(* The 204 of Instances.Destroy can be relied upon: whatever the cleaner,  *)
(* other requests (DELETE /images too) and half-finished scripts do, the   *)
(* row and the directory are gone when it is sent.                         *)
THEOREM DestroyedStaysGone == Spec => []DestroyedIsGone
BY GoneByInvariant, InstancesRight, Typed, PTL

(* On a server whose images are never destroyed no directory is left       *)
(* behind without a row, through any failures and crashes.                 *)
THEOREM DirsHaveRows ==
    ASSUME "ImageDestroy" \notin Ops
    PROVE  Spec => []DirHasRow
<1>1. InstanceInv => DirHasRow
  BY DEF InstanceInv, RowInv
<1> QED BY <1>1, InstancesRight, PTL

=============================================================================
