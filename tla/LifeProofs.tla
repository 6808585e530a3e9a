----------------------------- MODULE LifeProofs -----------------------------
(***************************************************************************)
(* Lifecycle implements InstanceLife, as long as no image is destroyed:    *)
(* for any number of handlers, users, instances, ports and faults.         *)
(***************************************************************************)
EXTENDS LifecycleProofs

stages == [n \in InstanceId |-> StageOf(n)]
LifeStep == [Life!Next]_stages

-----------------------------------------------------------------------------
(***************************************************************************)
(* The ways in which a step of Lifecycle maps to one of InstanceLife.      *)
(***************************************************************************)

(* Some instances get stuck; all others stay as they are. *)
LEMMA StrandLife ==
    ASSUME \A n \in InstanceId :
              \/ StageOf(n)' = StageOf(n)
              \/ StageOf(n) \in {"recorded", "cloned", "removed"} /\ StageOf(n)' = "stuck"
    PROVE  LifeStep
<1> DEFINE S == {n \in InstanceId : StageOf(n)' # StageOf(n)}
<1>1. \A n \in S : stages[n] \in {"recorded", "cloned", "removed"}
  BY DEF stages
<1>2. stages' = [n \in InstanceId |-> IF n \in S THEN "stuck" ELSE stages[n]]
  BY DEF stages
<1>3. S \in SUBSET InstanceId
  OBVIOUS
<1> HIDE DEF S
<1>4. Life!Strand(S)
  BY <1>1, <1>2 DEF Life!Strand, stages
<1> QED BY <1>3, <1>4 DEF LifeStep, Life!Next

(* One instance takes the next step of its life. *)
LEMMA MoveLife ==
    ASSUME NEW n \in InstanceId,
           \A m \in InstanceId : m # n => StageOf(m)' = StageOf(m),
           \/ StageOf(n) = "new" /\ StageOf(n)' \in {"recorded", "stuck"}
           \/ StageOf(n) = "recorded" /\ StageOf(n)' = "cloned"
           \/ StageOf(n) = "cloned" /\ StageOf(n)' = "removed"
           \/ StageOf(n) = "removed" /\ StageOf(n)' = "forgotten"
    PROVE  LifeStep
<1>1. stages' = [stages EXCEPT ![n] = StageOf(n)']
  BY DEF stages
<1>2. stages[n] = StageOf(n)
  BY DEF stages
<1>3. \/ Life!Record(n) \/ Life!RecordUnseen(n) \/ Life!Clone(n) \/ Life!Remove(n)
      \/ Life!Forget(n)
  BY <1>1, <1>2
  DEF Life!Record, Life!RecordUnseen, Life!Clone, Life!Remove, Life!Forget, Life!Move, stages
<1> QED BY <1>3 DEF LifeStep, Life!Next

(* Directories neither come nor go. *)
SameDirs == \A n \in InstanceId : (dirs'[n] = "absent") <=> (dirs[n] = "absent")

(* A deletion that is due is of an instance whose directory is gone and    *)
(* will not be cloned again.                                               *)
LEMMA DueIsGone ==
    ASSUME TypeInv, InstanceInv, "ImageDestroy" \notin Ops,
           NEW n \in InstanceId, DeletionDue(n)
    PROVE  dirs[n] = "absent" /\ ~CloneDue(n)
<1>1. PICK h \in Proc : req[h].pc = "delrow" /\ req[h].inst = n
  BY DEF DeletionDue
<1>2. req[h].op # "ImageDestroy"
  BY <1>1 DEF TypeInv, Shape, Fits
<1> QED BY <1>1, <1>2 DEF InstanceInv, InstanceReq, Gone, CloneDue

(* No row or directory comes or goes, and no clone or deletion becomes     *)
(* due.                                                                    *)
LEMMA CalmLife ==
    ASSUME TypeInv, InstanceInv, "ImageDestroy" \notin Ops,
           UNCHANGED <<instances, instanceSeq>>, SameDirs,
           \A g \in Proc : req'[g].pc \in {"clone", "delrow"}
                             => req[g].pc = req'[g].pc /\ req[g].inst = req'[g].inst
    PROVE  LifeStep
<1>1. ASSUME NEW n \in InstanceId
      PROVE  \/ StageOf(n)' = StageOf(n)
             \/ StageOf(n) \in {"recorded", "cloned", "removed"} /\ StageOf(n)' = "stuck"
  <2>1. CloneDue(n)' => CloneDue(n)
    BY DEF CloneDue
  <2>2. DeletionDue(n)' => DeletionDue(n)
    BY DEF DeletionDue
  <2>3. DeletionDue(n) => ~CloneDue(n)
    BY DueIsGone
  <2>4. /\ InstanceExists(n)' <=> InstanceExists(n)
        /\ (dirs[n] # "absent")' <=> (dirs[n] # "absent")
        /\ (n <= instanceSeq)' <=> (n <= instanceSeq)
    BY DEF InstanceExists, SameDirs
  <2> QED BY <2>1, <2>2, <2>3, <2>4 DEF StageOf
<1> QED BY <1>1, StrandLife

(* The same when one request moves on to where nothing is due. *)
LEMMA PlainLife ==
    ASSUME TypeInv, TypeInv', InstanceInv, "ImageDestroy" \notin Ops,
           UNCHANGED <<instances, instanceSeq>>, SameDirs,
           NEW h \in Proc, NEW x, Plain(x), req' = [req EXCEPT ![h] = x]
    PROVE  LifeStep
<1>1. req'[h] = x /\ \A g \in Proc : g # h => req'[g] = req[g]
  BY DEF TypeInv, TypeOK
<1>2. x.pc = "delrow" => x.op # "ImageDestroy"
  BY <1>1 DEF TypeInv, Shape, Fits
<1>3. x.pc \notin {"clone", "delrow"}
  BY <1>2 DEF Plain
<1> QED BY <1>1, <1>3, CalmLife

(* A request goes on to another step. *)
LEMMA GotoLife ==
    ASSUME TypeInv, TypeInv', InstanceInv, "ImageDestroy" \notin Ops,
           UNCHANGED <<instances, instanceSeq>>, SameDirs,
           NEW h \in Proc, NEW p, p \notin {"clone", "delrow", "apply", "reply"}, Goto(h, p)
    PROVE  LifeStep
<1>1. req[h] \in Request /\ req' = [req EXCEPT ![h] = [req[h] EXCEPT !.pc = p]]
  BY DEF Goto, TypeInv, TypeOK
<1>2. Plain([req[h] EXCEPT !.pc = p])
  BY <1>1, MovePlain
<1> QED BY <1>1, <1>2, PlainLife

(* A request is answered. *)
LEMMA ReplyLife ==
    ASSUME TypeInv, TypeInv', InstanceInv, "ImageDestroy" \notin Ops,
           UNCHANGED <<instances, instanceSeq>>, SameDirs,
           NEW h \in Proc, NEW s, s # 204 \/ req[h].op # "Destroy", Reply(h, s)
    PROVE  LifeStep
<1>1. req[h] \in Request
  BY DEF TypeInv, TypeOK
<1> QED BY <1>1, RepliedPlain, PlainLife DEF Reply

(* A request ends in an error; the cleaner turns to the next instance. *)
LEMMA FailLife ==
    ASSUME TypeInv, TypeInv', InstanceInv, "ImageDestroy" \notin Ops,
           UNCHANGED <<instances, instanceSeq>>, SameDirs,
           NEW h \in Proc, Fail(h)
    PROVE  LifeStep
<1>1. req[h] \in Request
  BY DEF TypeInv, TypeOK
<1> QED BY <1>1, FailedPlain, PlainLife DEF Fail

(* A script ends, whoever is there to see it. *)
LEMMA ScriptExitLife ==
    ASSUME TypeInv, TypeInv', InstanceInv, "ImageDestroy" \notin Ops,
           UNCHANGED <<instances, instanceSeq>>, SameDirs,
           NEW h \in Proc, NEW ok \in BOOLEAN, NEW next, ok => Plain(next),
           ScriptExit(h, ok, next)
    PROVE  LifeStep
<1>1. PICK x : req' = [req EXCEPT ![h] = x] /\ (Plain(x) \/ (x = next /\ ok))
  BY ExitPlain
<1>2. Plain(x)
  BY <1>1
<1> QED BY <1>1, <1>2, PlainLife

(* A script fails. *)
LEMMA ScriptFailLife ==
    ASSUME TypeInv, TypeInv', InstanceInv, "ImageDestroy" \notin Ops,
           UNCHANGED <<instances, instanceSeq>>, SameDirs,
           NEW h \in Proc, ScriptFail(h)
    PROVE  LifeStep
BY ScriptExitLife DEF ScriptFail

(* A script succeeds, and the request is answered. *)
LEMMA ScriptReplyLife ==
    ASSUME TypeInv, TypeInv', InstanceInv, "ImageDestroy" \notin Ops,
           UNCHANGED <<instances, instanceSeq>>, SameDirs,
           NEW h \in Proc, NEW s, s # 204 \/ req[h].op # "Destroy", ScriptReply(h, s)
    PROVE  LifeStep
<1>1. Plain(Replied(req[h], s))
  BY RepliedPlain DEF TypeInv, TypeOK
<1> QED BY <1>1, ScriptExitLife DEF ScriptReply

(* A script succeeds, and the request goes on. *)
LEMMA ScriptGotoLife ==
    ASSUME TypeInv, TypeInv', InstanceInv, "ImageDestroy" \notin Ops,
           UNCHANGED <<instances, instanceSeq>>, SameDirs,
           NEW h \in Proc, NEW p, p \notin {"clone", "delrow", "apply", "reply"},
           ScriptGoto(h, p)
    PROVE  LifeStep
<1>1. Plain([req[h] EXCEPT !.pc = p])
  BY MovePlain DEF TypeInv, TypeOK
<1> QED BY <1>1, ScriptExitLife DEF ScriptGoto

(* The steps of the image handlers: with Images.Destroy left out, none     *)
(* touches an instance.                                                    *)
LEMMA ImageStepLife ==
    ASSUME TypeInv, TypeInv', InstanceInv, "ImageDestroy" \notin Ops, NEW h \in Proc, ImageStep(h)
    PROVE  LifeStep
<1>0. req[h] \in Request /\ Shape(req[h])
  BY DEF TypeInv, TypeOK
<1> USE DEF disk, tables, imageTable, instanceTable, SameDirs
<1>1. CASE ImageCreate(h)
  <2>1. PICK i : req' = [req EXCEPT ![h] = New("ImageCreate", "mkvol", Upload, i, 0)]
    BY <1>1 DEF ImageCreate
  <2>2. Plain(New("ImageCreate", "mkvol", Upload, i, 0))
    BY DEF Plain, RowDeleted, New
  <2> QED BY <1>1, <2>1, <2>2, PlainLife DEF ImageCreate
<1>2. CASE CreateBtrfsSubvolume(h)
  BY <1>2, ScriptReplyLife, ScriptFailLife DEF CreateBtrfsSubvolume
<1>3. CASE ImageDone(h)
  <2> DEFINE r(i) == New("ImageDone", "bootimage", Upload, i, 0)
             x(i) == CASE images[i] = "none"  -> Replied(r(i), 404)
                       [] images[i] = "ready" -> Replied(r(i), 200)
                       [] OTHER               -> r(i)
  <2>1. PICK i \in ImageId : req' = [req EXCEPT ![h] = x(i)]
    BY <1>3 DEF ImageDone
  <2>2. Plain(r(i)) /\ Plain(Replied(r(i), 404)) /\ Plain(Replied(r(i), 200))
    BY DEF Plain, RowDeleted, New, Replied
  <2>3. Plain(x(i))
    <3> HIDE DEF r
    <3> QED BY <2>2
  <2> HIDE DEF x
  <2> QED BY <1>3, <2>1, <2>3, PlainLife DEF ImageDone
<1>4. CASE BootImage(h)
  BY <1>4, GotoLife, ScriptFailLife DEF BootImage
<1>5. CASE MarkStarted(h)
  BY <1>5, GotoLife, ScriptFailLife DEF MarkStarted
<1>6. CASE SealImage(h)
  BY <1>6, GotoLife, ScriptFailLife DEF SealImage
<1>7. CASE SnapshotImage(h)
  BY <1>7, ScriptGotoLife, ScriptFailLife DEF SnapshotImage
<1>8. CASE ImageMarkReady(h)
  BY <1>8, ReplyLife, FailLife DEF ImageMarkReady
<1>9. CASE ImageDestroy(h)
  <2> DEFINE r(i, u) == New("ImageDestroy", IF u = Upload THEN "list" ELSE "delimage", u, i, 0)
             x(i, u) == IF ImageExists(i) THEN r(i, u) ELSE Replied(r(i, u), 404)
  <2>1. PICK i \in ImageId, u \in User : req' = [req EXCEPT ![h] = x(i, u)]
    BY <1>9 DEF ImageDestroy
  <2>2. Plain(r(i, u)) /\ Plain(Replied(r(i, u), 404))
    BY DEF Plain, RowDeleted, New, Replied
  <2>3. Plain(x(i, u))
    <3> HIDE DEF r
    <3> QED BY <2>2
  <2> HIDE DEF x
  <2> QED BY <1>9, <2>1, <2>3, PlainLife DEF ImageDestroy
<1>10. CASE ListInstances(h)
  <2> DEFINE T == {t \in InstanceList : t[1] \in InstancesOf(req[h].image)}
             x == [req[h] EXCEPT !.pc = "next", !.todo = T]
  <2>1. req' = [req EXCEPT ![h] = x]
    BY <1>10 DEF ListInstances, TypeInv, TypeOK, Request
  <2>2. Plain(x)
    BY <1>0 DEF Plain, RowDeleted, Request
  <2> HIDE DEF x
  <2> QED BY <1>10, <2>1, <2>2, PlainLife DEF ListInstances
<1>11. CASE NextInstance(h)
  <2>1. CASE req[h].todo = {}
    BY <1>11, <2>1, GotoLife DEF NextInstance
  <2>2. CASE req[h].todo # {}
    <3>1. PICK t \in req[h].todo :
            req' = [req EXCEPT ![h].pc = "delrow", ![h].inst = t[1], ![h].todo = @ \ {t}]
      BY <1>11, <2>2 DEF NextInstance
    <3> DEFINE x == [req[h] EXCEPT !.pc = "delrow", !.inst = t[1], !.todo = req[h].todo \ {t}]
    <3>2. req' = [req EXCEPT ![h] = x]
      BY <3>1 DEF TypeInv, TypeOK, Request
    <3>3. Plain(x)
      BY <1>0, <1>11 DEF NextInstance, At, Plain, RowDeleted, Request
    <3> HIDE DEF x
    <3> QED BY <1>11, <3>2, <3>3, PlainLife DEF NextInstance
  <2> QED BY <2>1, <2>2
<1>12. CASE ImageDeleteRow(h)
  BY <1>12, ReplyLife, GotoLife DEF ImageDeleteRow
<1>13. CASE RemoveSnapshot(h)
  BY <1>13, GotoLife DEF RemoveSnapshot
<1>14. CASE RemoveUpload(h)
  BY <1>0, <1>14, ScriptReplyLife, ScriptFailLife DEF RemoveUpload, Shape, Fits
<1> QED BY <1>1, <1>2, <1>3, <1>4, <1>5, <1>6, <1>7, <1>8, <1>9, <1>10, <1>11, <1>12, <1>13,
           <1>14 DEF ImageStep

-----------------------------------------------------------------------------
(***************************************************************************)
(* The four steps that move an instance on.                                *)
(***************************************************************************)

(* The row: the id is new, and its clone is due. *)
LEMMA InsertRowLife ==
    ASSUME TypeInv, TypeInv', InstanceInv, "ImageDestroy" \notin Ops, NEW h \in Proc, InsertRow(h)
    PROVE  LifeStep
<1> USE DEF disk, imageTable, instanceTable, SameDirs
<1>1. CASE ~ImageExists(req[h].image)
  BY <1>1, ReplyLife DEF InsertRow, Aborted
<1>2. CASE ImageExists(req[h].image)
  <2>1. PICK n \in InstanceId :
          /\ InsertInstance(n, req[h].image, req[h].port, req[h].user)
          /\ req' = [req EXCEPT ![h].pc = "clone", ![h].inst = n]
    BY <1>2 DEF InsertRow
  <2>2. instanceSeq \in Nat /\ n = instanceSeq + 1 /\ instanceSeq' = n /\ dirs' = dirs
    <3>1. instanceSeq \in Nat /\ n = instanceSeq + 1 /\ instanceSeq' = n
      BY <2>1 DEF InsertInstance, TypeInv, TypeOK, StoreTypeOK
    <3> QED BY <3>1 DEF InsertRow
  <2>3. instances'[n] # NoRow /\ \A m \in InstanceId : m # n => instances'[m] = instances[m]
    <3> DEFINE row == [image |-> req[h].image, port |-> req[h].port, user |-> req[h].user]
    <3>1. row \in InstanceRow
      BY DEF InsertRow, At, TypeInv, TypeOK, Shape, Fits, Request, InstanceRow
    <3>2. instances' = [instances EXCEPT ![n] = row]
      BY <2>1 DEF InsertInstance
    <3> HIDE DEF row
    <3> QED BY <3>1, <3>2, StoreAssumption DEF TypeInv, TypeOK, StoreTypeOK
  <2>4. instances[n] = NoRow /\ dirs[n] = "absent"
    BY <2>2 DEF InstanceInv, InstanceId
  <2>5. /\ req[h].pc = "insert" /\ req'[h].pc = "clone" /\ req'[h].inst = n
        /\ \A g \in Proc : g # h => req'[g] = req[g]
    BY <2>1 DEF InsertRow, At, TypeInv, TypeOK, Request
  <2>6. StageOf(n) = "new" /\ StageOf(n)' = "recorded"
    <3>1. CloneDue(n)'
      BY <2>5 DEF CloneDue
    <3>2. ~(n <= instanceSeq)
      BY <2>2
    <3> QED BY <2>2, <2>3, <2>4, <3>1, <3>2 DEF StageOf, InstanceExists
  <2>7. ASSUME NEW m \in InstanceId, m # n PROVE StageOf(m)' = StageOf(m)
    <3>1. (CloneDue(m)' <=> CloneDue(m)) /\ (DeletionDue(m)' <=> DeletionDue(m))
      BY <2>5, <2>7 DEF CloneDue, DeletionDue
    <3>2. (m <= instanceSeq)' <=> (m <= instanceSeq)
      BY <2>2, <2>7 DEF InstanceId
    <3> QED BY <2>2, <2>3, <2>7, <3>1, <3>2 DEF StageOf, InstanceExists
  <2> QED BY <2>6, <2>7, MoveLife
<1> QED BY <1>1, <1>2

(* The clone: the row is there, the directory never was. *)
LEMMA CloneLife ==
    ASSUME TypeInv, TypeInv', InstanceInv, "ImageDestroy" \notin Ops, NEW h \in Proc,
           CloneSnapshot(h)
    PROVE  LifeStep
<1> USE DEF tables, disk, imageTable, instanceTable, SameDirs
<1>1. CASE req[h].image \notin snapshots
  BY <1>1, ScriptFailLife DEF CloneSnapshot
<1>2. CASE req[h].image \in snapshots
  <2>0. PICK n \in InstanceId : n = req[h].inst
    BY DEF CloneSnapshot, TypeInv, Shape, Fits
  <2>1. /\ dirs[n] = "absent" /\ instances[n] # NoRow /\ req[h].inst = n
        /\ req[h].pc = "clone" /\ req'[h].pc = "certs"
        /\ \A g \in Proc : g # h => req'[g] = req[g]
        /\ dirs' = [dirs EXCEPT ![n] = "bare"]
        /\ UNCHANGED <<instances, instanceSeq>>
    BY <1>2, <2>0 DEF CloneSnapshot, Goto, TypeInv, TypeOK, Request, InstanceInv, InstanceReq, RowInv
  <2>2. dirs'[n] # "absent" /\ \A m \in InstanceId : m # n => dirs'[m] = dirs[m]
    BY <2>1 DEF TypeInv, TypeOK
  <2>3. StageOf(n) = "recorded" /\ StageOf(n)' = "cloned"
    <3>1. CloneDue(n)
      BY <2>1 DEF CloneDue
    <3> QED BY <2>1, <2>2, <3>1 DEF StageOf, InstanceExists
  <2>4. ASSUME NEW m \in InstanceId, m # n PROVE StageOf(m)' = StageOf(m)
    <3>1. (CloneDue(m)' <=> CloneDue(m)) /\ (DeletionDue(m)' <=> DeletionDue(m))
      BY <2>1, <2>4 DEF CloneDue, DeletionDue
    <3> QED BY <2>1, <2>2, <2>4, <3>1 DEF StageOf, InstanceExists
  <2> QED BY <2>1, <2>3, <2>4, MoveLife
<1> QED BY <1>1, <1>2

(* The directory: the deletion of the row is due, unless the process that  *)
(* started the script does not see it succeed.                             *)
LEMMA RemoveDirLife ==
    ASSUME TypeInv, TypeInv', InstanceInv, "ImageDestroy" \notin Ops, NEW h \in Proc, RemoveDir(h)
    PROVE  LifeStep
<1> USE DEF tables, disk, imageTable, instanceTable, SameDirs
<1>a. PICK n \in InstanceId : n = req[h].inst
  BY DEF RemoveDir, TypeInv, Shape, Fits
<1>0. /\ req[h] \in Request /\ req[h].inst = n
      /\ req[h].pc = "rmdir" /\ req[h].op # "ImageDestroy"
  BY <1>a DEF RemoveDir, TypeInv, TypeOK, Shape, Fits
<1> DEFINE y == [req[h] EXCEPT !.pc = "delrow"]
<1>1. CASE dirs[n] = "absent"
  BY <1>0, <1>1, ScriptFailLife DEF RemoveDir
<1>2. CASE dirs[n] # "absent"
  <2>1. /\ dirs' = [dirs EXCEPT ![n] = "absent"]
        /\ ScriptExit(h, TRUE, y)
        /\ UNCHANGED <<instances, instanceSeq>>
    BY <1>0, <1>2 DEF RemoveDir, ScriptGoto
  <2>2. dirs'[n] = "absent" /\ \A m \in InstanceId : m # n => dirs'[m] = dirs[m]
    BY <1>0, <2>1 DEF TypeInv, TypeOK
  <2>3. y.pc = "delrow" /\ y.op = req[h].op /\ y.inst = n
    BY <1>0 DEF Request
  <2> HIDE DEF y
  <2>4. PICK x : req' = [req EXCEPT ![h] = x] /\ (Plain(x) \/ x = y)
    BY <2>1, ExitPlain
  <2>5. req'[h] = x /\ \A g \in Proc : g # h => req'[g] = req[g]
    BY <2>4 DEF TypeInv, TypeOK
  <2>6. Plain(x) => x.pc \notin {"clone", "delrow"}
    BY <2>5 DEF Plain, TypeInv, Shape, Fits
  <2>7. \A g \in Proc : req[g].pc \in {"clone", "delrow"} => req[g].inst # n
    BY <1>2 DEF InstanceInv, InstanceReq, Gone, TypeInv, Shape, Fits
  <2>8. instances[n] # NoRow
    BY <1>0, <1>2 DEF InstanceInv, RowInv, DirHasRow
  <2>9. ~CloneDue(n)' /\ (DeletionDue(n)' <=> x = y)
    <3>1. \A g \in Proc : g # h => ~(req'[g].pc \in {"clone", "delrow"} /\ req'[g].inst = n)
      BY <2>5, <2>7
    <3> QED BY <2>3, <2>4, <2>5, <2>6, <3>1 DEF CloneDue, DeletionDue
  <2>10. ASSUME NEW m \in InstanceId, m # n PROVE StageOf(m)' = StageOf(m)
    <3>1. (CloneDue(m)' <=> CloneDue(m)) /\ (DeletionDue(m)' <=> DeletionDue(m))
      BY <1>0, <2>3, <2>4, <2>5, <2>6, <2>10 DEF CloneDue, DeletionDue
    <3> QED BY <2>1, <2>2, <2>10, <3>1 DEF StageOf, InstanceExists
  <2>11. /\ StageOf(n) = "cloned"
         /\ StageOf(n)' = IF x = y THEN "removed" ELSE "stuck"
    BY <1>2, <2>1, <2>2, <2>8, <2>9 DEF StageOf, InstanceExists
  <2>12. CASE x = y
    BY <1>0, <2>10, <2>11, <2>12, MoveLife
  <2>13. CASE x # y
    BY <2>10, <2>11, <2>13, StrandLife
  <2> QED BY <2>12, <2>13
<1> QED BY <1>1, <1>2

(* The row goes, or went already: two destroyers may both come this far.   *)
LEMMA DeleteRowLife ==
    ASSUME TypeInv, TypeInv', InstanceInv, "ImageDestroy" \notin Ops, NEW h \in Proc, DeleteRow(h)
    PROVE  LifeStep
<1> USE DEF disk, imageTable
<1>0. PICK n \in InstanceId : n = req[h].inst
  BY DEF DeleteRow, TypeInv, Shape, Fits
<1>1. req[h].inst = n /\ req[h].op \in {"Destroy", "Clean"} /\ Gone(n)
  BY <1>0 DEF DeleteRow, TypeInv, Shape, Fits, InstanceInv, InstanceReq
<1>2. PICK p \in {"apply", "next"} : req' = [req EXCEPT ![h].pc = p]
  BY <1>1 DEF DeleteRow, Goto
<1>3. /\ instances'[n] = NoRow
      /\ \A m \in InstanceId : m # n => instances'[m] = instances[m]
      /\ UNCHANGED <<instanceSeq, dirs>>
  BY <1>1 DEF DeleteRow, DeleteInstance, TypeInv, TypeOK, StoreTypeOK
<1>4. /\ req[h].pc = "delrow" /\ req'[h].pc = p
      /\ \A g \in Proc : g # h => req'[g] = req[g]
  BY <1>2 DEF DeleteRow, TypeInv, TypeOK, Request
<1>5. ASSUME NEW m \in InstanceId, m # n PROVE StageOf(m)' = StageOf(m)
  <2>1. (CloneDue(m)' <=> CloneDue(m)) /\ (DeletionDue(m)' <=> DeletionDue(m))
    BY <1>1, <1>4, <1>5 DEF CloneDue, DeletionDue
  <2> QED BY <1>3, <1>5, <2>1 DEF StageOf, InstanceExists
<1>6. StageOf(n)' = "forgotten"
  BY <1>1, <1>3 DEF StageOf, InstanceExists, Gone
<1>7. StageOf(n) = IF instances[n] = NoRow THEN "forgotten" ELSE "removed"
  <2>1. DeletionDue(n) /\ ~CloneDue(n)
    BY <1>1, <1>4 DEF DeletionDue, CloneDue, Gone
  <2> QED BY <1>1, <2>1 DEF StageOf, InstanceExists, Gone
<1>8. CASE instances[n] = NoRow
  BY <1>5, <1>6, <1>7, <1>8, StrandLife
<1>9. CASE instances[n] # NoRow
  BY <1>1, <1>5, <1>6, <1>7, <1>9, MoveLife
<1> QED BY <1>8, <1>9

-----------------------------------------------------------------------------
(***************************************************************************)
(* All other steps.                                                        *)
(***************************************************************************)

(* The steps of the instance handlers and of the scripts. *)
LEMMA InstanceStepLife ==
    ASSUME TypeInv, TypeInv', InstanceInv, "ImageDestroy" \notin Ops, NEW h \in Proc, InstanceStep(h)
    PROVE  LifeStep
<1>0. req[h] \in Request /\ Shape(req[h]) /\ InstanceReq(req[h])
  BY DEF TypeInv, TypeOK, InstanceInv
<1> USE DEF disk, tables, imageTable, instanceTable, SameDirs
<1>1. CASE InstanceCreate(h)
  <2> DEFINE r(i, u) == New("Create", "port", u, i, 0)
             x(i, u) == CASE images[i] = "none"    -> Replied(r(i, u), 404)
                          [] images[i] = "unready" -> Replied(r(i, u), 422)
                          [] OTHER                 -> r(i, u)
  <2>1. PICK i \in ImageId, u \in User : req' = [req EXCEPT ![h] = x(i, u)]
    BY <1>1 DEF InstanceCreate
  <2>2. Plain(r(i, u)) /\ Plain(Replied(r(i, u), 404)) /\ Plain(Replied(r(i, u), 422))
    BY DEF Plain, RowDeleted, New, Replied
  <2>3. Plain(x(i, u))
    <3> HIDE DEF r
    <3> QED BY <2>2
  <2> HIDE DEF x
  <2> QED BY <1>1, <2>1, <2>3, PlainLife DEF InstanceCreate
<1>2. CASE ChoosePort(h)
  <2>1. CASE Fail(h)
    BY <1>2, <2>1, FailLife DEF ChoosePort
  <2>2. ASSUME NEW p \in Port, req' = [req EXCEPT ![h].pc = "insert", ![h].port = p]
        PROVE  LifeStep
    <3> DEFINE x == [req[h] EXCEPT !.pc = "insert", !.port = p]
    <3>1. req' = [req EXCEPT ![h] = x]
      BY <2>2 DEF TypeInv, TypeOK, Request
    <3>2. Plain(x)
      BY <1>0 DEF Plain, RowDeleted, Request
    <3> HIDE DEF x
    <3> QED BY <1>2, <3>1, <3>2, PlainLife DEF ChoosePort
  <2> QED BY <1>2, <2>1, <2>2 DEF ChoosePort
<1>3. CASE InsertRow(h)
  BY <1>3, InsertRowLife
<1>4. CASE CloneSnapshot(h)
  BY <1>4, CloneLife
<1>5. CASE WriteCerts(h)
  <2>1. SameDirs
    BY <1>5 DEF WriteCerts, TypeInv, TypeOK
  <2> QED BY <1>5, <2>1, GotoLife, ScriptFailLife DEF WriteCerts
<1>6. CASE StartPostgres(h)
  BY <1>6, GotoLife, ScriptFailLife DEF StartPostgres
<1>7. CASE ValidateAndRestart(h)
  BY <1>7, ScriptGotoLife, ScriptFailLife DEF ValidateAndRestart
<1>8. CASE InstanceGet(h)
  <2> DEFINE r(n, u) == New("Get", "creds", u, 0, n)
             x(n, u) == IF instances[n] # NoRow /\ instances[n].user = u
                          THEN r(n, u) ELSE Replied(r(n, u), 404)
  <2>1. PICK n \in InstanceId, u \in User : req' = [req EXCEPT ![h] = x(n, u)]
    BY <1>8 DEF InstanceGet, InstanceExists
  <2>2. Plain(r(n, u)) /\ Plain(Replied(r(n, u), 404))
    BY DEF Plain, RowDeleted, New, Replied
  <2>3. Plain(x(n, u))
    <3> HIDE DEF r
    <3> QED BY <2>2
  <2> HIDE DEF x
  <2> QED BY <1>8, <2>1, <2>3, PlainLife DEF InstanceGet
<1>9. CASE RetrieveInstanceCredentials(h)
  BY <1>9, GotoLife, ReplyLife DEF RetrieveInstanceCredentials
<1>10. CASE WhitelistAddress(h)
  <2>1. CASE Fail(h)
    BY <1>10, <2>1, FailLife DEF WhitelistAddress
  <2>2. CASE Goto(h, "apply")
    <3> DEFINE x == [req[h] EXCEPT !.pc = "apply"]
    <3>1. req' = [req EXCEPT ![h] = x]
      BY <2>2 DEF Goto, TypeInv, TypeOK
    <3>2. Plain(x)
      BY <1>0, <1>10 DEF WhitelistAddress, Plain, RowDeleted, Request, Shape, Fits
    <3> HIDE DEF x
    <3> QED BY <1>10, <3>1, <3>2, PlainLife DEF WhitelistAddress
  <2> QED BY <1>10, <2>1, <2>2 DEF WhitelistAddress
<1>11. CASE ApplyWhitelist(h)
  <2>1. PICK s : req' = [req EXCEPT ![h] = Replied(req[h], s)]
    BY <1>11 DEF ApplyWhitelist, Reply
  <2>2. Replied(req[h], s).pc = "reply"
    BY <1>0 DEF Replied, Request
  <2>3. \A g \in Proc : req'[g].pc \in {"clone", "delrow"} => req'[g] = req[g]
    BY <2>1, <2>2 DEF TypeInv, TypeOK
  <2> QED BY <1>11, <2>3, CalmLife DEF ApplyWhitelist
<1>12. CASE InstanceDestroy(h)
  <2> DEFINE r(n, u) == New("Destroy", "stop", u, 0, n)
             x(n, u) == IF instances[n] # NoRow /\ u \in {Upload, instances[n].user}
                          THEN r(n, u) ELSE Replied(r(n, u), 404)
  <2>1. PICK n \in InstanceId, u \in User : req' = [req EXCEPT ![h] = x(n, u)]
    BY <1>12 DEF InstanceDestroy, InstanceExists
  <2>2. Plain(r(n, u)) /\ Plain(Replied(r(n, u), 404))
    BY DEF Plain, RowDeleted, New, Replied
  <2>3. Plain(x(n, u))
    <3> HIDE DEF r
    <3> QED BY <2>2
  <2> HIDE DEF x
  <2> QED BY <1>12, <2>1, <2>3, PlainLife DEF InstanceDestroy
<1>13. CASE StopPostgres(h)
  BY <1>13, GotoLife DEF StopPostgres
<1>14. CASE RemoveDir(h)
  BY <1>14, RemoveDirLife
<1>15. CASE DeleteRow(h)
  BY <1>15, DeleteRowLife
<1> QED BY <1>1, <1>2, <1>3, <1>4, <1>5, <1>6, <1>7, <1>8, <1>9, <1>10, <1>11, <1>12, <1>13,
           <1>14, <1>15 DEF InstanceStep

(* A statement takes effect and its answer is lost: the INSERT strands its *)
(* instance at once, the DELETE forgets it as if it had been acknowledged. *)
LEMMA UnacknowledgedLife ==
    ASSUME TypeInv, TypeInv', InstanceInv, "ImageDestroy" \notin Ops, NEW h \in Proc,
           Unacknowledged(h)
    PROVE  LifeStep
<1> DEFINE r == req[h]
           x == OnStatementError(r)
<1>1. /\ req' = [req EXCEPT ![h] = x] /\ TakesEffect(r) /\ UNCHANGED <<disk, revoked>>
      /\ r \in Request /\ Shape(r) /\ x.pc \in {"reply", "next"}
  BY LostAnswer
<1>2. Plain(x)
  BY LostAnswer DEF Plain, RowDeleted
<1> HIDE DEF x
<1> USE DEF disk, instanceTable, SameDirs
<1>3. req'[h] = x /\ \A g \in Proc : g # h => req'[g] = req[g]
  BY <1>1 DEF TypeInv, TypeOK
<1>4. CASE UNCHANGED instanceTable
  BY <1>1, <1>2, <1>4, PlainLife
<1>5. CASE r.pc = "insert" /\ \E n \in InstanceId : InsertInstance(n, r.image, r.port, r.user)
  <2>1. PICK n \in InstanceId : InsertInstance(n, r.image, r.port, r.user)
    BY <1>5
  <2>2. instanceSeq \in Nat /\ n = instanceSeq + 1 /\ instanceSeq' = n /\ dirs' = dirs
    BY <1>1, <2>1 DEF InsertInstance, TypeInv, TypeOK, StoreTypeOK
  <2>3. instances'[n] # NoRow /\ \A m \in InstanceId : m # n => instances'[m] = instances[m]
    <3> DEFINE row == [image |-> r.image, port |-> r.port, user |-> r.user]
    <3>1. row \in InstanceRow
      BY <1>1, <1>5 DEF Shape, Fits, Request, InstanceRow
    <3>2. instances' = [instances EXCEPT ![n] = row]
      BY <2>1 DEF InsertInstance
    <3> HIDE DEF row
    <3> QED BY <3>1, <3>2, StoreAssumption DEF TypeInv, TypeOK, StoreTypeOK
  <2>4. instances[n] = NoRow /\ dirs[n] = "absent"
    BY <2>2 DEF InstanceInv, InstanceId
  <2>5. \A m \in InstanceId : /\ CloneDue(m)' <=> CloneDue(m)
                              /\ DeletionDue(m)' <=> DeletionDue(m)
    BY <1>1, <1>3, <1>5 DEF CloneDue, DeletionDue
  <2>6. ~(n <= instanceSeq)
    BY <2>2
  <2>7. ~CloneDue(n) /\ ~DeletionDue(n)
    <3>1. ASSUME CloneDue(n) PROVE n <= instanceSeq
      BY <3>1 DEF CloneDue, InstanceInv, InstanceReq
    <3>2. ASSUME DeletionDue(n) PROVE n <= instanceSeq
      <4>1. PICK g \in Proc : req[g].pc = "delrow" /\ req[g].inst = n
        BY <3>2 DEF DeletionDue
      <4>2. req[g].op # "ImageDestroy"
        BY <4>1 DEF TypeInv, Shape, Fits
      <4> QED BY <4>1, <4>2 DEF InstanceInv, InstanceReq, Gone
    <3> QED BY <2>6, <3>1, <3>2
  <2>8. StageOf(n) = "new" /\ StageOf(n)' = "stuck"
    BY <2>2, <2>3, <2>4, <2>5, <2>6, <2>7 DEF StageOf, InstanceExists
  <2>9. ASSUME NEW m \in InstanceId, m # n PROVE StageOf(m)' = StageOf(m)
    <3>1. (m <= instanceSeq)' <=> (m <= instanceSeq)
      BY <2>2, <2>9 DEF InstanceId
    <3> QED BY <2>2, <2>3, <2>5, <2>9, <3>1 DEF StageOf, InstanceExists
  <2> QED BY <2>8, <2>9, MoveLife
<1>6. CASE r.pc = "delrow" /\ DeleteInstance(r.inst)
  <2>0. PICK n \in InstanceId : n = r.inst
    BY <1>1, <1>6 DEF Shape, Fits
  <2>1. /\ instances' = [instances EXCEPT ![n] = NoRow]
        /\ UNCHANGED <<instanceSeq, dirs>>
    BY <1>1, <1>6, <2>0 DEF DeleteInstance
  <2>2. instances'[n] = NoRow /\ \A m \in InstanceId : m # n => instances'[m] = instances[m]
    BY <2>1 DEF TypeInv, TypeOK, StoreTypeOK
  <2>3. DeletionDue(n)
    BY <1>6, <2>0 DEF DeletionDue
  <2>4. dirs[n] = "absent" /\ ~CloneDue(n) /\ n <= instanceSeq
    <3>1. r.op # "ImageDestroy"
      BY <1>1
      DEF Shape
    <3> QED BY <1>6, <2>0, <2>3, <3>1, DueIsGone DEF InstanceInv, InstanceReq, Gone
  <2>5. ASSUME NEW m \in InstanceId, m # n PROVE StageOf(m)' = StageOf(m)
    <3>1. (CloneDue(m)' <=> CloneDue(m)) /\ (DeletionDue(m)' <=> DeletionDue(m))
      BY <1>1, <1>3, <1>6, <2>0, <2>5 DEF CloneDue, DeletionDue
    <3> QED BY <2>1, <2>2, <2>5, <3>1 DEF StageOf, InstanceExists
  <2>6. StageOf(n)' = "forgotten"
    BY <2>1, <2>2, <2>4 DEF StageOf, InstanceExists
  <2>7. CASE instances[n] = NoRow
    <3>1. StageOf(n) = "forgotten"
      BY <2>4, <2>7 DEF StageOf, InstanceExists
    <3> QED BY <2>5, <2>6, <3>1, StrandLife
  <2>8. CASE instances[n] # NoRow
    <3>1. StageOf(n) = "removed"
      BY <2>3, <2>4, <2>8 DEF StageOf, InstanceExists
    <3> QED BY <2>5, <2>6, <3>1, MoveLife
  <2> QED BY <2>7, <2>8
<1> QED BY <1>1, <1>4, <1>5, <1>6 DEF TakesEffect

LEMMA CreateUnacknowledgedLife ==
    ASSUME TypeInv, TypeInv', InstanceInv, "ImageDestroy" \notin Ops, NEW h \in Proc,
           CreateUnacknowledged(h)
    PROVE  LifeStep
<1> DEFINE x(i) == Replied(New("ImageCreate", "mkvol", Upload, i, 0), 500)
<1>1. PICK i \in ImageId : req' = [req EXCEPT ![h] = x(i)]
  BY DEF CreateUnacknowledged
<1>2. Plain(x(i))
  BY DEF Plain, RowDeleted, Replied, New
<1> HIDE DEF x
<1> QED BY <1>1, <1>2, PlainLife DEF CreateUnacknowledged, disk, instanceTable, SameDirs

LEMMA TruncatedListLife ==
    ASSUME TypeInv, TypeInv', InstanceInv, "ImageDestroy" \notin Ops, NEW h \in Proc,
           TruncatedList(h)
    PROVE  LifeStep
<1>1. req[h] \in Request
  BY DEF TypeInv, TypeOK
<1>2. \A p, s : /\ Plain([req[h] EXCEPT !.pc = "insert", !.port = p])
                /\ Plain([req[h] EXCEPT !.pc = "next", !.todo = s])
                /\ Plain([New("Clean", "next", Upload, 0, 0) EXCEPT !.todo = s])
  BY <1>1 DEF Plain, RowDeleted, New, Request
<1>3. PICK x : Plain(x) /\ req' = [req EXCEPT ![h] = x]
  BY <1>2, CutShort
<1> QED BY <1>3, PlainLife DEF TruncatedList, tables, disk, instanceTable, SameDirs

(* The cleaner, the end of a request, revoked tokens, faults and crashes.  *)
LEMMA OtherLife ==
    ASSUME TypeInv, TypeInv', InstanceInv, "ImageDestroy" \notin Ops,
           CleanerStep \/ (\E h \in Proc : Finish(h)) \/ (\E u \in User : Revoke(u)) \/ Fault
    PROVE  LifeStep
<1>0. Cleaner \in Proc /\ \A h \in Proc : req[h] \in Request
  BY DEF Proc, TypeInv, TypeOK
<1> USE DEF disk, tables, imageTable, instanceTable, SameDirs
<1>1. CASE Clean
  <2> DEFINE x == [New("Clean", "next", Upload, 0, 0) EXCEPT !.todo = InstanceList]
  <2>1. Plain(x)
    BY DEF Plain, RowDeleted, New
  <2>2. req' = [req EXCEPT ![Cleaner] = x]
    BY <1>1 DEF Clean
  <2> HIDE DEF x
  <2> QED BY <1>0, <1>1, <2>1, <2>2, PlainLife DEF Clean
<1>2. CASE CheckToken
  <2> DEFINE rest(t) == [req[Cleaner] EXCEPT !.todo = req[Cleaner].todo \ {t}]
             doomed(t) == [rest(t) EXCEPT !.pc = "stop", !.inst = t[1]]
  <2>1. PICK t \in req[Cleaner].todo :
           \/ req' = [req EXCEPT ![Cleaner] = rest(t)]
           \/ req' = [req EXCEPT ![Cleaner] = doomed(t)]
    BY <1>2 DEF CheckToken
  <2>2. Plain(rest(t)) /\ Plain(doomed(t))
    BY <1>0, <1>2 DEF CheckToken, At, Plain, RowDeleted, Request
  <2> HIDE DEF rest, doomed
  <2> QED BY <1>0, <1>2, <2>1, <2>2, PlainLife DEF CheckToken
<1>3. CASE CleanEnd
  BY <1>0, <1>3, IdlePlain, PlainLife DEF CleanEnd
<1>4. ASSUME NEW h \in Proc, Finish(h) PROVE LifeStep
  BY <1>4, IdlePlain, PlainLife DEF Finish
<1>5. ASSUME NEW u \in User, Revoke(u) PROVE LifeStep
  BY <1>5, CalmLife DEF Revoke
<1>6. ASSUME NEW h \in Proc, ScriptFault(h) PROVE LifeStep
  BY <1>6, ScriptFailLife, GotoLife DEF ScriptFault
<1>7. ASSUME NEW h \in Proc, StatementFault(h) PROVE LifeStep
  <2>1. /\ Plain(Replied(req[h], 200))
        /\ Plain(Failed(req[h]))
        /\ Plain([req[h] EXCEPT !.pc = "next"])
    BY <1>0, <1>7, RepliedPlain, FailedPlain, MovePlain
  <2>2. Plain(OnStatementError(req[h]))
    BY <2>1 DEF OnStatementError
  <2> QED BY <1>7, <2>2, PlainLife DEF StatementFault
<1>8. ASSUME NEW h \in Proc, Disconnect(h) PROVE LifeStep
  <2>1. CASE req' = [req EXCEPT ![h] = [req[h] EXCEPT !.parent = "killed"]]
    <3>1. Plain([req[h] EXCEPT !.parent = "killed"])
      BY <1>0, <1>8 DEF Disconnect, CtxPc, Plain, RowDeleted, Request
    <3> QED BY <1>8, <2>1, <3>1, PlainLife DEF Disconnect
  <2>2. CASE Fail(h)
    BY <1>8, <2>2, FailLife DEF Disconnect
  <2> QED BY <1>8, <2>1, <2>2 DEF Disconnect, TypeInv, TypeOK
<1>9. CASE Crash
  <2>1. UNCHANGED <<instances, instanceSeq, dirs>>
    BY <1>9 DEF Crash
  <2>2. ASSUME NEW g \in Proc, req'[g].pc \in {"clone", "delrow"}
        PROVE  req[g].pc = req'[g].pc /\ req[g].inst = req'[g].inst
    <3>1. req'[g] = IF req[g].pc \in ScriptPc THEN [req[g] EXCEPT !.parent = "gone"] ELSE Idle
      BY <1>9 DEF Crash
    <3>2. Idle.pc \notin {"clone", "delrow"}
      BY DEF Idle, New
    <3>3. req'[g] = [req[g] EXCEPT !.parent = "gone"]
      BY <2>2, <3>1, <3>2
    <3> QED BY <1>0, <3>3 DEF Request
  <2> QED BY <2>1, <2>2, CalmLife
<1> QED BY <1>1, <1>2, <1>3, <1>4, <1>5, <1>6, <1>7, <1>8, <1>9, UnacknowledgedLife,
           CreateUnacknowledgedLife, TruncatedListLife DEF CleanerStep, Fault

(* Every step of Lifecycle is one of InstanceLife, or leaves it as it is.  *)
LEMMA StepLife ==
    ASSUME TypeInv, TypeInv', InstanceInv, "ImageDestroy" \notin Ops, [Next]_vars
    PROVE  LifeStep
<1>1. CASE UNCHANGED vars
  BY <1>1, CalmLife DEF vars, disk, tables, imageTable, instanceTable, SameDirs
<1>2. CASE Next
  BY <1>2, ImageStepLife, InstanceStepLife, OtherLife DEF Next
<1> QED BY <1>1, <1>2

(* An empty server has only new instances. *)
LEMMA InitLife == Init => Life!Init
BY DEF Init, StoreInit, Life!Init, StageOf, InstanceExists, InstanceId

(* Whatever handlers, scripts and the cleaner do, and whatever fails, an   *)
(* instance goes through the stages of InstanceLife: its directory is      *)
(* cloned at most once, its row outlives its directory, neither comes      *)
(* back.  DELETE /images is left out, which deletes rows first.            *)
THEOREM LifeImplemented ==
    ASSUME "ImageDestroy" \notin Ops
    PROVE  Spec => ImplementsLife
<1>1. TypeInv /\ TypeInv' /\ InstanceInv /\ [Next]_vars => [Life!Next]_stages
  BY StepLife DEF LifeStep
<1>2. ImplementsLife <=> Life!Init /\ [][Life!Next]_stages
  BY DEF ImplementsLife, Life!Spec, stages
<1> QED BY <1>1, <1>2, InitLife, Typed, InstancesRight, PTL DEF Spec

=============================================================================
