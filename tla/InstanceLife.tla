---------------------------- MODULE InstanceLife ----------------------------
(***************************************************************************)
(* What the server promises about an instance, as long as no image is      *)
(* destroyed: a row is recorded, its directory is cloned at most once and  *)
(* only for a row that is there, the row is forgotten only after the       *)
(* directory was removed, and nothing ever comes back.                     *)
(*                                                                         *)
(* An operation that fails half-way strands the instance: it has a row, no *)
(* directory, and nobody who is going to change that.  "stuck" is final:   *)
(* draupnir-destroy-instance fails without a directory, and the row is     *)
(* only deleted after that script.                                         *)
(***************************************************************************)
CONSTANT Instance

VARIABLE life       \* [Instance -> Stage]

Stage == {"new", "recorded", "cloned", "removed", "forgotten", "stuck"}

Init == life = [n \in Instance |-> "new"]

Move(n, from, to) == life[n] = from /\ life' = [life EXCEPT ![n] = to]

(* POST /instances: the row, then the clone. *)
Record(n) == Move(n, "new", "recorded")
Clone(n) == Move(n, "recorded", "cloned")

(* The INSERT takes effect and its answer is lost: nobody clones. *)
RecordUnseen(n) == Move(n, "new", "stuck")

(* DELETE /instances or the cleaner: the directory, then the row. *)
Remove(n) == Move(n, "cloned", "removed")
Forget(n) == Move(n, "removed", "forgotten")

(* The clone fails; the directory is removed but the process that would    *)
(* delete the row is not there to see it; deleting the row fails.  A crash *)
(* of the server strands any number of instances at once.                  *)
Strand(S) ==
    /\ \A n \in S : life[n] \in {"recorded", "cloned", "removed"}
    /\ life' = [n \in Instance |-> IF n \in S THEN "stuck" ELSE life[n]]

Next ==
    \/ \E n \in Instance : Record(n) \/ RecordUnseen(n) \/ Clone(n) \/ Remove(n) \/ Forget(n)
    \/ \E S \in SUBSET Instance : Strand(S)

Spec == Init /\ [][Next]_life
=============================================================================
