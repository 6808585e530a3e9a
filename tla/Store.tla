------------------------------- MODULE Store -------------------------------
(***************************************************************************)
(* The tables of Draupnir's own PostgreSQL database (structure.sql) and    *)
(* the statements pkg/store sends to it.  A table is a function from the   *)
(* values of its serial key to a row.  Each statement is one atomic step,  *)
(* as a single SQL statement is; the constraints the code relies on are    *)
(* modelled where PostgreSQL enforces them:                                *)
(*   - ids come from a sequence and are never reused (the values it loses  *)
(*     to an INSERT that fails are not represented);                       *)
(*   - instances.image_id references images (instances_image_id_fkey);     *)
(*   - whitelisted_addresses.instance_id references instances, and a       *)
(*     deleted instance takes its addresses with it (ON DELETE CASCADE);   *)
(*   - nothing makes instances.port unique.                                *)
(* Timestamps and the anonymisation script's text are not represented.     *)
(***************************************************************************)
EXTENDS Integers, FiniteSets

CONSTANTS
    MaxImages,      \* bound on the images_id_seq sequence
    MaxInstances,   \* bound on the instances_id_seq sequence
    User,           \* values of instances.user_email
    Upload,         \* auth.UPLOAD_USER_EMAIL, the only user without a token
    Addr,           \* client IP addresses
    MinPort,        \* min_instance_port, inclusive
    MaxPort,        \* max_instance_port, exclusive
    NoRow           \* "there is no such instance row"

ImageId == 1..MaxImages
InstanceId == 1..MaxInstances
Port == MinPort..(MaxPort - 1)

(* An instances row.  refresh_token is "" exactly for the upload user      *)
(* (auth.AuthenticateRequest), so the user stands for the token.           *)
InstanceRow == [image : ImageId, port : Port, user : User]

ASSUME StoreAssumption ==
    /\ MaxImages \in Nat \ {0}
    /\ MaxInstances \in Nat \ {0}
    /\ Upload \in User
    /\ MinPort \in Nat \ {0}
    /\ MaxPort \in Nat
    /\ MinPort < MaxPort
    /\ NoRow \notin InstanceRow

VARIABLES
    images,         \* [ImageId -> "none" (no row), "unready" or "ready"]
    imageSeq,       \* last value images_id_seq returned
    instances,      \* [InstanceId -> a row, or NoRow]
    instanceSeq,    \* last value instances_id_seq returned
    addresses       \* whitelisted_addresses, as <<ip_address, instance_id>>

imageTable == <<images, imageSeq>>
instanceTable == <<instances, instanceSeq>>
tables == <<imageTable, instanceTable, addresses>>

StoreTypeOK ==
    /\ images \in [ImageId -> {"none", "unready", "ready"}]
    /\ imageSeq \in 0..MaxImages
    /\ instances \in [InstanceId -> InstanceRow \cup {NoRow}]
    /\ instanceSeq \in 0..MaxInstances
    /\ addresses \subseteq Addr \X InstanceId

StoreInit ==
    /\ images = [i \in ImageId |-> "none"]
    /\ imageSeq = 0
    /\ instances = [n \in InstanceId |-> NoRow]
    /\ instanceSeq = 0
    /\ addresses = {}

(***************************************************************************)
(* Queries.                                                                *)
(***************************************************************************)

\* InstanceStore.List, as the pairs <<id, user_email>> its callers go through
InstanceList == {t \in InstanceId \X User :
                    instances[t[1]] # NoRow /\ instances[t[1]].user = t[2]}

\* InstanceStore.Get finds a row
InstanceExists(n) == instances[n] # NoRow

InstancesOf(i) == {n \in InstanceId : instances[n] # NoRow /\ instances[n].image = i}

UsedPorts == {instances[n].port : n \in {m \in InstanceId : instances[m] # NoRow}}

(***************************************************************************)
(* Statements that change a table.                                         *)
(***************************************************************************)

\* ImageStore.Create: INSERT INTO images ... RETURNING id
InsertImage(i) ==
    /\ imageSeq < MaxImages
    /\ i = imageSeq + 1
    /\ imageSeq' = i
    /\ images' = [images EXCEPT ![i] = "unready"]

\* ImageStore.MarkAsReady: UPDATE ... WHERE id = $1 AND ready = $2, where the
\* caller has read ready = FALSE; no row updated is sql.ErrNoRows
CanMarkAsReady(i) == images[i] = "unready"

MarkAsReady(i) ==
    /\ CanMarkAsReady(i)
    /\ images' = [images EXCEPT ![i] = "ready"]
    /\ UNCHANGED imageSeq

\* mutant of ImageReferenced: the schema without instances_image_id_fkey
ImageReferencedNever(i) == FALSE

\* instances_image_id_fkey refuses to delete an image an instance refers to
ImageReferenced(i) == InstancesOf(i) # {}

\* ImageStore.Destroy: deleting a row that is not there is not an error
DeleteImage(i) ==
    /\ ~ImageReferenced(i)
    /\ images' = [images EXCEPT ![i] = "none"]
    /\ UNCHANGED imageSeq

\* instances_image_id_fkey refuses an instance of an image that is not there
ImageExists(i) == images[i] # "none"

\* InstanceStore.Create
InsertInstance(n, i, p, u) ==
    /\ instanceSeq < MaxInstances
    /\ ImageExists(i)
    /\ n = instanceSeq + 1
    /\ instanceSeq' = n
    /\ instances' = [instances EXCEPT ![n] = [image |-> i, port |-> p, user |-> u]]

\* InstanceStore.Destroy, with the cascade to whitelisted_addresses
DeleteInstance(n) ==
    /\ instances' = [instances EXCEPT ![n] = NoRow]
    /\ addresses' = {a \in addresses : a[2] # n}
    /\ UNCHANGED instanceSeq

\* whitelisted_addresses_instance_id_fkey
CanWhitelist(n) == instances[n] # NoRow

\* WhitelistedAddressStore.Create: an upsert on (ip_address, instance_id)
InsertAddress(a, n) ==
    /\ CanWhitelist(n)
    /\ addresses' = addresses \cup {<<a, n>>}
=============================================================================
