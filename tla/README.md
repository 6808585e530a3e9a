# A TLA+ verification of Draupnir

Draupnir serves throw-away copies of a production database.  An operator uploads
a PostgreSQL base backup as an *image*; the server anonymises it and keeps it as
a btrfs snapshot; users create *instances*, each a writable clone of a snapshot
with a PostgreSQL server of its own behind an iptables whitelist.  The server is
a Go HTTP service that keeps its records in a PostgreSQL database, runs shell
scripts for everything on disk, and has two background goroutines.  None of this
is transactional: a request is a row of SQL statements and script commands with
other requests in between, and nothing undoes the first half of an operation
whose second half fails.  That is what this project is about.

## Inventory

| Component | State | Operations | Interacts with |
|---|---|---|---|
| Store (`pkg/store`, `structure.sql`) | tables `images`, `instances`, `whitelisted_addresses`, two sequences | Create, Get, List, MarkAsReady, Destroy | every handler, the cleaner and the whitelister, one statement at a time |
| Images API (`routes/images.go`) | none of its own | Create, Done, Destroy (Get, List) | store, executor |
| Instances API (`routes/instances.go`) | none of its own | Create, Get, Destroy (List) | store, executor, whitelister trigger |
| Executor and scripts (`pkg/exec`, `cmd/draupnir-*`) | directories `image_uploads`, `image_snapshots`, `instances`; PostgreSQL servers | create subvolume, finalise image, create instance, read credentials, destroy instance, destroy image | btrfs, `pg_ctl`; tied to the request's context or not |
| Cleaner (`pkg/server/cleaner.go`) | the round's list | every interval: destroy the instances whose refresh token is invalid | store, executor, Google |
| Whitelister (`pkg/server/whitelister.go`) | trigger channel (100), the iptables chain | TriggerReconcile, timer, reconcile | handlers send to it; store, iptables |
| Access tokens (`routes/access_tokens.go`) | map of channels by OAuth state | Create, Callback (Authenticate) | client, browser, Google |
| Authenticator (`api/auth`) | none | AuthenticateRequest, IsRefreshTokenValid | Google |
| Request pipeline (`api/chain`, `api/middleware`, `api/errors.go`) | request context | version check, authentication, client address, logging, error rendering | every route |
| Server, configuration (`server.go`, `config`) | none after start | start and wire the parts | all |
| Client and command line (`api/client`, `cmd/draupnir`, `pkg/client/config`) | the file `~/.draupnir` | a command is one or two requests; authenticate; config set | the API, a browser, other commands through the file |

What is hard here: handlers run concurrently with each other and with the
cleaner and share rows, directories and ports without a lock; a script survives
the death of the server (`KillMode = process`) and of the client
(`CommandContext` kills `sudo`, not the script); row and directory change in two
steps that can be separated by a failure; the whitelister works from a table that
changes under it; channels block; what a client is told is decided by a chain of
wrappers each of which sees only an error; a command acts on what it looked up or
loaded a while ago.  `PROJECT.json` lists these hazards, each at
its line, with the properties that watch it.

What makes the components correct:

* images: *ready* means there is a snapshot to clone; an image answered as
  destroyed is gone, with its instances;
* instances: a row belongs to a ready image; what was answered as created is
  served by its own PostgreSQL on its own port; what was answered as destroyed is
  gone and stays gone; no directory is left that no row leads to;
* cleaner: an instance whose owner's token was revoked disappears, whatever
  happens to the others;
* whitelister: no trigger is lost; every change that lasts reaches the chain;
  nobody is blocked for ever;
* access tokens: a login that ended leaves nothing behind, a success comes from a
  callback, and every login ends;
* pipeline: handlers run behind their guards, the address they record is the
  client's, what is answered is what is logged, an error is not a success;
* client: a command that reports success has done what it says, and a stored token
  is a real one.

## Modules

| Module | Contents |
|---|---|
| `Store` | the tables, their constraints and the statements of `pkg/store` |
| `Lifecycle` (extends `Store`) | images and instances: handlers, executor, scripts, cleaner, faults; properties; inductive invariants |
| `InstanceLife` | abstract: the stages of an instance's life, which `Lifecycle` implements |
| `Client` (extends `Lifecycle`) | the command line client's commands in front of the server |
| `Whitelister` | trigger channel, timer, reconcile loop, iptables chain, with the least one has to assume of the rest of the server |
| `System` (extends `Lifecycle`, instantiates `Whitelister`) | the process: handlers, cleaner and whitelister over one database |
| `AccessTokens` | the OAuth rendezvous |
| `Logins` (extends `AccessTokens`) | `draupnir authenticate` and `config set` over one configuration file |
| `Pipeline` | one request through proxies, middlewares and handler, and back |
| `LifecycleProofs`, `FlowProofs` (extends it) | theorems about `Lifecycle`: types, images, what is gone; then how requests move from label to label, what their answers are worth, and what serves |
| `LifeProofs`, `ClientProofs`, `WhitelisterProofs`, `SystemProofs`, `LoginsProofs`, `PipelineProofs` | theorems about the refinement of `InstanceLife`, and about the other modules |
| `MCLifecycle`, `MCClient`, `MCWhitelister`, `MCSystem`, `MCLogins`, `MCPipeline` | instances for TLC |

A definition whose comment says "mutant of" is a wrong version of the definition
after it, used to show that a property notices the error; no specification refers
to it.

### Store and Lifecycle

A table is a function from its serial key; a statement is one atomic step.  Every
process (a handler goroutine, or the cleaner) has a record in `req`: the operation
it serves, a label `pc`, and the local variables that matter.  A step is one SQL
statement or one command of a script, so that everything which other processes
can observe in between is observed.  `uploads`, `snapshots`, `dirs` and `pg` are
the disk and the running servers; the files in a directory are abstracted to the
stage the scripts have brought it to, which is what later commands depend on
(`draupnir-admin` exists, the marker file is there, the certificates are there).

| Source | Steps |
|---|---|
| `Images.Create` | `ImageCreate`, `CreateBtrfsSubvolume` |
| `Images.Done`, `draupnir-finalise-image`, `draupnir-start-image` | `ImageDone`, `BootImage`, `MarkStarted`, `SealImage`, `SnapshotImage`, `ImageMarkReady` |
| `Images.Destroy`, `draupnir-destroy-image` | `ImageDestroy`, `ListInstances`, `NextInstance`, `DeleteRow`, `StopPostgres`, `RemoveDir`, `ImageDeleteRow`, `RemoveSnapshot`, `RemoveUpload` |
| `Instances.Create`, `draupnir-create-instance` | `InstanceCreate`, `ChoosePort`, `InsertRow`, `CloneSnapshot`, `WriteCerts`, `StartPostgres`, `ValidateAndRestart`, `RetrieveInstanceCredentials`, `WhitelistAddress`, `ApplyWhitelist` |
| `Instances.Get` | `InstanceGet`, `RetrieveInstanceCredentials`, `WhitelistAddress`, `ApplyWhitelist` |
| `Instances.Destroy`, `draupnir-destroy-instance` | `InstanceDestroy`, `StopPostgres`, `RemoveDir`, `DeleteRow`, `ApplyWhitelist` |
| `InstanceCleaner` | `Clean`, `CheckToken`, `StopPostgres`, `RemoveDir`, `DeleteRow`, `CleanEnd` |
| what goes wrong | `ScriptFault`, `StatementFault`, `Unacknowledged`, `CreateUnacknowledged`, `TruncatedList`, `Disconnect`, `Crash` |

The error paths are the code's: an error of a handler is a 500, an error in the
cleaner's round is logged.  Two paths are not what they look like.  Where a
handler asks whether an error comes from `instances_image_id_fkey`, `match, err :=`
declares a second `err` that is nil for the rest of the block: the wrapped error
is nil and the client gets a 200 (`OnStatementError`), and in `Instances.Create`
the matching branch calls `Error` on it and panics (`InsertRow`).

A statement that fails has no effect (`StatementFault`), or has had it and only the
answer is lost (`Unacknowledged`): the handler takes the same path, the row stays as
the statement left it.  `InstanceStore.List` does not look at `rows.Err()`, so a
connection that is lost half-way makes a shorter list and no error
(`TruncatedList`): a used port may be drawn, an instance of a destroyed image or
of a revoked user be passed over.

A process whose script survived a crash stays at the script's label, with parent
`"gone"`, until the script ends; its slot is free for a new request only then.

Left out of these modules: requests that do not parse; a failing look-up, which
the handlers answer like a missing row (404); a failing statement at the very
start of a request, which leaves nothing behind; values a sequence loses to a
failing INSERT; marshalling errors after the response was begun; the port that
every image is finalised on.  The checks and the restart at the end of
`draupnir-create-instance` are one step (`ValidateAndRestart`): the checks only
read, and no property is about the moment of the restart.

### InstanceLife

What one instance goes through: *new*, *recorded*, *cloned*, *removed*,
*forgotten*, with *stuck* for an instance that a half-finished operation has left
with a row, without a directory and without anybody about to change that.
`StageOf` in `Lifecycle` reads the stage off the row, the directory and the
requests under way: a row without a directory is *recorded* while a clone is due,
*removed* while the deletion of the row is due, and *stuck* otherwise.  The
promise lies in the steps that are missing: no second clone, no directory
that outlives its row, no way back, and none out of *stuck*, which is the finding
of run `revoked_row` from the other side.  `Images.Destroy` breaks the promise
(rows first), so `ImplementsLife` is checked and proved without it.

### Client

`cli[h]` is the command whose requests handler `h` serves; the other users of the
API (`Direct`) send requests of their own, so that what a command looked up may be
gone when its second request arrives.  The client decides by the one status each
request has for success (`Succeeded`), which is what saves it from the answers
that are 200 by mistake.  `SuccessIsReal` says what success is worth: `instances
create` and `env` leave an instance that was cloned and has its certificates,
`destroy` neither row nor directory, `images finalise` no image that is not ready,
unless somebody has undone it since.  The look-up of an image (`GetImage`,
`GetLatestImage`) is one step with the start of the command, that of an instance a
request of its own.

### Whitelister

A rule is an address with an endpoint (port and user of an instance), the
information `RuleEntry` carries, and `retrieveExistingRules` reads back what
`buildRuleString` wrote.  Two instances of one user may share an endpoint (run
`ports_race` shows how): destroying one of them removes any subset of the
endpoint's rules from the table.
`RecordAddress`, `DestroyInstance` and `DestroySilently` are the effects on the
table of, in turn, `Instances.Create`/`Get`, `Instances.Destroy`, and the
cleaner and `Images.Destroy`, which do not send a trigger; `RecordSilently` is an
INSERT whose answer is lost, after which the handler does not send one either.
`ListTruncated` is the whitelist cut short by a lost connection, which
`WhitelistedAddressStore.List` does not notice: reconcile then removes rules of
addresses that are recorded, until the timer brings them back.  `BadAddr` are
addresses that iptables refuses.  The variable `missed` is not in the code; it
records that since the table was last read a reconcile failed, or a change came
without a trigger, or that the table was not read to its end: the excuses a chain
that differs from the table may have.

### System

`Rules` is what `WhitelistedAddressStore.List` reads: addresses joined with the
instances they belong to.  A handler at `apply` is a caller that blocks on the
trigger channel; a crash of the server ends handlers, cleaner and whitelister, and
loses the channel's contents, while scripts and rules stay.  Rows that the cleaner
and `Images.Destroy` delete change `Rules` without a trigger (`missed`).
`ImplementsWhitelister` says that all this is one of the environments `Whitelister`
allows, so that what is shown there holds in the server: `AtRestInSync` follows
from `NoLostTrigger`, in terms of the tables and the requests.  `ChainSettles` is
the end-to-end statement, and the one that speaks of deletions nobody announces.

### AccessTokens and Logins

A channel is named by the request that made it.  A write to the map is two steps
(`WriteBegin`, `WriteEnd`), and when another access falls between them the Go
runtime may end the process: `ConcurrentMapFatal` is always a possibility, never a
certainty.  A race that it misses is undefined behaviour.  A look-up during a write
may find nothing; once two writes have met (`overlapped`), a write leaves any of
the channels made so far, or none, under any state: entries get lost, deleted
ones stay, and the key of one insert may end up with the channel of another, until
the process ends.  An HTTP client
that leaves does not change anything: neither handler looks at its context while
it waits.

In `Logins` the commands of one machine share `~/.draupnir`.  `config.Store`
truncates the file and writes it in a second step; when two commands are in there
at once the file may end up `torn`, a longer text's end behind a shorter one.
`authenticate` stores what it loaded before it waited for the browser.  Either step
of `Store` may fail (`StoreFails`), the second one after the file was truncated:
the file is then empty, holds a part that cannot be parsed, or one that ends before
the token.

### Pipeline

A chain is a sequence of middlewares, built with `New` and `Add` as in `server.go`;
`foldMiddleware` makes the first one the outermost.  `pos` counts the layers a
request is inside of, on its way in (`phase = "in"`) and out.  `result` is what a
layer hands to the one around it: the status in the recorder of `RequestLogger`,
what went to the connection, and whether an error was returned; `begun` and
`failed` remember what the handler answered itself and whether any layer erred.
`Chain.Add` appends to a slice that two chains may share; with the chains of
`server.go` the appends never overwrite an element another chain uses, so the
sequences are values here.  `Forward` assumes that a proxy appends to the one
X-Forwarded-For header there is (`Header.Get` reads only the first).  404 stands
for every status other than 200 that a handler writes itself.

## Runs

Every property of a passing run has a mutant in `PROJECT.json` that breaks it.

| Run | Properties | What it shows |
|---|---|---|
| `images_race` | `TypeOK`, `ReadyImageHasSnapshot`, `InstanceOfReadyImage`, `SuccessIsReal` | two handlers on two images, one fault: a ready image has its snapshot, a row its ready image, an images command that succeeds has done it |
| `instances_faults` | `DestroyedIsGone`, `DirHasRow`, `ImplementsLife`, `SuccessIsReal` | two handlers and the cleaner on one instance, two faults: the instance keeps to its life, and so does what users are told |
| `instances_pair` | `CreatedIsServing` | two handlers and the cleaner on two instances, whose image may be destroyed too |
| `revoked_data` | `RevokedDataRemoved` | from an empty server: one handler, the cleaner, two instances, a fault or crash: the cleaner removes the data of revoked users |
| `whitelist` | `TypeOK`, `NoLostTrigger`, `ObsoleteRuleRemoved`, `AddressAdmitted`, `CallerUnblocked` | the trigger protocol; the chain follows the table; a full channel delays handlers, no more |
| `system` | `AtRestInSync`, `ImplementsWhitelister`, `ChainSettles` | a handler, the cleaner and the whitelister in one process, two instances after each other on one port, a fault or crash: the parts fit together, a chain at rest is right and it ends up so |
| `token_logins` | `TypeOK`, `NoLeftoverChannel`, `CreatedFromCallback`, `CreateEnds`, `TokenIsReal` | the map with its races, the channels and the end of every login; the token in the configuration file |
| `pipeline` | `TypeOK`, `AddressIsTheClients`, `CoreIsGuarded`, `LoggedAsAnswered`, `NoFalseSuccess` | any request to any kind of route, through up to four proxies and every middleware |

Four more runs show where the program does not do what its documentation or a
comment says; each has a finding in `PROJECT.json` with the lines.

| Run | Violated | In short |
|---|---|---|
| `ports_race` | `PortsDistinct` | two concurrent creates get one port; so may one alone, from a truncated list |
| `image_destroy_instances` | `ImageDestroyedWithInstances` | row before script: when the script fails, or the answer of the row's DELETE is lost, a retried DELETE leaves an instance behind |
| `revoked_row` | `RevokedInstanceDeleted` | a row without a directory is never cleaned |
| `whitelist_poison` | `ObsoleteRuleRemoved` | one refused address stops all removals for good |

The models contain some more behaviour of this kind that no run is about:

* a failed INSERT of `Instances.Create` is answered 200, and one that fails because
  the image has gone is a panic (see above);
* a finalisation under way may take its snapshot after `draupnir-destroy-image` has
  looked for it, so that it outlives the 204;
* deletions by the cleaner and by `Images.Destroy` reach the chain only when the
  timer fires, against `src/README.md:586`, "The rule will be removed as soon as the
  instance is destroyed" (`missed`, in `NoLostTrigger` and `AtRestInSync`, excuses
  them; `ChainSettles` says that the timer's turn comes); until then the rule of a
  destroyed instance admits its former user's address to the port, which may be
  another instance's by now;
* a client of an older minor version is served, against `src/README.md:280`, "This
  version must be exactly equal to the version of Draupnir serving the API", and "We
  enforce equality here"; `CoreIsGuarded` states what `check_api_version.go:34` does;
* any authenticated user may create, finalise and destroy images, against
  `src/README.md:530`, "modifications to images (creation, finalisation, deletion) are
  restricted to a single "upload" user": no handler of `routes/images.go` looks at
  the user, and `CoreIsGuarded` asks for no more than an authenticated one;
* of two logins with one state, which the client's unseeded generator makes likely,
  the second takes the first one's place, and the first to end deletes the entry of
  the other;
* two writes to the Callbacks map at once, when the runtime does not notice, may lose
  a waiting login's entry, leave that of a finished one (`overlapped`, in
  `NoLeftoverChannel`, excuses it), or send a token to another login;
* a Callback that has found its channel before Create's minute was over sends to
  nobody and blocks for ever, with its connection; the comment at
  `access_tokens.go:65` knows no such end;
* a request whose address cannot be told (an IPv6 peer and no usable
  X-Forwarded-For) is neither logged nor reported and is answered with an empty 200,
  against `server.go:102`, "Every request will be logged, and any error raised in
  serving the request will also be logged"; `LoggedAsAnswered` and `NoFalseSuccess`
  except it;
* commands that overlap lose each other's settings, and one that is killed between
  `os.Create` and the write, or whose write fails, loses all; a file that was torn
  makes every later command fail in `Load`, `config set` included.

### Bounds

`MaxImages` and `MaxInstances` bound the sequences (up to two images and two
instances), `MaxPort` leaves exactly as many ports as instances, `MaxFaults`
bounds failures (one, or two on a single instance).  Races here are between two
processes over one object, or over two objects that share a port or an image; two
handlers and the cleaner on one or two of each reach all of them, and one fault
reaches every partial execution, a second one what follows a retry.  The theorems
below carry the safety results beyond these bounds.  `InitReady` starts most of the
instance runs with image 1 finalised, the state `Init` reaches after the three
image operations, so that the bound is spent on instances.  The whitelister's
channel has a capacity of one or two instead of 100: full, empty and, with two,
in between.  `System` has one handler, since who blocks whom on the channel is
`Whitelister`'s subject; its run starts again over one instance that is there, and
a second one gets the only port after it.  Its image stays: a silent deletion by
`Images.Destroy` differs from the cleaner's only in who takes the step, and
`WhitelisterImplemented` covers both.
`Logins` has two logins of the machine whose file is modelled, one from elsewhere,
one `config set`, two browsers and two states, of which at most two logins, or a
login and a `config set`, are still to run (`InitLater`, states `LoginsInit` leads
to; two commands that authenticate have one browser between them): enough for a
shared state, for writes that meet, for a late callback, for two commands on the
file, and for a login that finds a token.  `Pipeline` follows one request (they
share nothing) with an IPv4, an IPv6 and a proxy's address, up to four entries in
X-Forwarded-For of which the client makes up at most two (`MaxOwn`), and versions
that differ in either number.  Handlers and callers
are interchangeable, and symmetric in the runs about invariants; the liveness runs
use no symmetry (`ImplementsLife`, checked with symmetric handlers, is a safety
property and does not tell handlers apart).

Deadlock is checked except in `pipeline`, where a request that was answered is at
its end, and in `token_logins`, where every login, command and browser ends.

### Fairness

`Lifecycle!FairSpec` assumes that a goroutine or script that can take its next
step takes it, and that the cleaner's timer fires; not that anybody sends a
request, revokes a token or meets a fault.  `Whitelister!FairSpec` assumes that
the reconciler runs, that the timer fires, and strong fairness of a blocked send:
Go serves the senders blocked on a channel in the order they came.
`System`'s fairness is the whitelister's part of this; handlers and scripts may
stop anywhere.  `Logins!LoginsFairness` assumes that a `Create` which can proceed
does, and that the minute of `waitForCallback` passes; no callback has to come or
to go on, and no user has to do anything.

## Proofs

For every number of handlers, users, images, instances, ports, callers and
faults, and every channel capacity, from the assumptions named in the modules
(`StoreAssumption`, `LifecycleAssumption`, `WhitelisterAssumption`,
`SystemAssumption`, `AccessTokensAssumption`, `LoginsAssumption`,
`PipelineAssumption`):

| Theorem | Statement | Argument |
|---|---|---|
| `TypeCorrect` | `Spec => []TypeOK` | `TypeInv` adds the shape of a request: which operation a label belongs to and which fields are set there.  Without it a step cannot know that `req[h].inst` is an instance. |
| `ReadyHasSnapshot` | `Spec => []ReadyImageHasSnapshot` | `ImageInv`: ids in use are below the sequence, so an id is never that of another image; Done reaches `MarkAsReady` with the snapshot taken or the row gone; the snapshot is removed only after the row. |
| `InstancesOfReadyImages` | `Spec => []InstanceOfReadyImage` | `ImageInv`: an image found ready never becomes unready again, it can only go; the foreign key refuses the INSERT then, and the DELETE afterwards. |
| `DestroyedStaysGone` | `Spec => []DestroyedIsGone` | `InstanceInv`: an instance directory is cloned once, by the request that drew its id, before it was ever there; once it has come and gone no script is at the clone. |
| `DirsHaveRows` | without `ImageDestroy` in `Ops`, `Spec => []DirHasRow` | `RowInv`: the row is there at the clone and is deleted only with the directory gone.  With `Images.Destroy` it is false (run `image_destroy_instances`). |
| `WhitelisterTyped` | `Spec => []TypeOK` | |
| `WakeUpsKept` | `Spec => []NoLostTrigger` | `WakeInv` adds that rules are only removed once all have been added; the *target* of the reconcile under way is the table, or another reconcile is due. |
| `LifeImplemented` | without `ImageDestroy` in `Ops`, `Spec => ImplementsLife` | step simulation from `TypeInv`, `RowInv` and `InstanceInv`: every step is one stage of one instance, strands some, or leaves all stages as they are.  The hard ones are a script that ends with its parent gone, and two destroyers at the same row. |
| `WhitelisterImplemented` | `SystemSpec => ImplementsWhitelister` | step simulation from `AddressInv`: recorded addresses belong to rows that are there (so the join loses none) and the cleaner only cleans (so a row it deletes is a silent deletion).  A handler changes `Rules` only in steps that end at `apply`. |
| `NothingComesBack` | `Spec => [][FactsLast]_vars` | `AnswerInv`: a subvolume or clone is due only for the id its own request drew, so what a sequence has passed nobody makes anew; the script of a destroy runs after its row is gone. |
| `CreatedServes` | `Spec => []CreatedIsServing` | `ServingInv`, for as long as nothing has failed: at each label of a create the directory and the server are as its own script left them, or the instance is *doomed* (its row gone, or its deletion due), or a destroyer is between stopping the server and removing the directory.  No two creates build one instance. |
| `ClientIsAClient` | `ClientSpec => Spec` | every step of a command is one of `Lifecycle` or leaves it alone; so all of the above holds behind the client. |
| `SuccessReal` | `ClientSpec => []SuccessIsReal` | `ClientInv`: the request a command waits for is the one it sent, and a success a command has seen is one of the lasting facts of `AnswerInv`, which hold of the answer when it is given and, by `FactsLast`, ever after. |
| `RestInSync` | `SystemSpec => []AtRestInSync` | `WakeUpsKept`, instantiated with the server's tables and requests for the whitelister's environment, and `WhitelisterImplemented`. |
| `LifecycleWired` | `SystemSpec => [](ReadyImageHasSnapshot /\ InstanceOfReadyImage /\ DestroyedIsGone /\ CreatedIsServing)` | a step of the wired server is one of `Lifecycle`, or a fault that hits the whitelister only. |
| `LoginsTyped`, `ChannelsRemoved`, `CreatedByCallback` | `LoginsSpec => []...` of `TypeOK`, `NoLeftoverChannel`, `CreatedFromCallback` | `RendezvousInv` adds the state a login keeps while it is in the map (until writes meet), and who has sent a token to whom, which no race on the map can touch.  The commands of `Logins` take only steps of `AccessTokens` there. |
| `TokensReal` | `LoginsSpec => []TokenIsReal` | `ClientInv`: the tokens of the file and of every command are real, and a login that was answered 201 stays so; a write that fails leaves nothing or a part without a token. |
| `PipelineTyped` | `Spec => []TypeOK` | the chains written out: recorder of addresses, logger and reporter are second to fourth in each of them. |
| `ClientsAddress` | `Spec => []AddressIsTheClients` | `AddressInv`: behind a trusted peer the last entry of X-Forwarded-For that is not a proxy's is the client's, by the proxy that appended it; every further hop keeps this. |
| `CoreGuarded` | `Spec => []CoreIsGuarded` | `WayIn`: how deep a request is says which middlewares it has passed. |
| `AnswersLogged`, `SuccessWritten` | `Spec => []LoggedAsAnswered`, `Spec => []NoFalseSuccess` | `WayOut`: an error that was returned is rendered at the fifth layer, reported at the fourth and logged at the third; nothing between them touches the status again.  `NoFalseSuccess` is about requests whose address could be told and errors before the first byte; the rest is answered 200 (see above). |

`FlowProofs` rests on two lemmas about `Next`.  `NextFlow`: in each step a request
stays, moves along an edge from label to label, ends with an answer that fits, or
is orphaned by a crash.  `NextData`: a row, directory or upload comes or goes only
by the hand of a request that stands at the label for it.  `AnswerInv` and
`ClientInv` follow from these without looking at the actions again.

`CreatedServes` assumes as little as `CreatedIsServing` says: one fault anywhere
ends its promise, since a script that was left behind may still be at work on the
instance.

Only model-checked: the liveness properties (`RevokedDataRemoved`, `CreateEnds`,
`ChainSettles`, and `ObsoleteRuleRemoved`, `AddressAdmitted` and `CallerUnblocked`
of `Whitelister`), which rest on fairness and are beyond the prover.  Every
invariant and every refinement of a passing run is proved.

## Not modelled

Loading the configuration, the listeners, TLS and the shutdown of the run group;
the iptables wrapper script; the JSON API encoding; commands and requests that only
read (`list`, `config show`, GET of images); request parsing; the text that `env`
prints.  See the components of `PROJECT.json`.  Time is abstracted: intervals and
timeouts are nondeterministic.  The contents of databases, certificates and the
anonymisation are outside of what the modules describe.

## Plan

1. Done: the modules above, their runs, the refinements `Lifecycle` to
   `InstanceLife` and `System` to `Whitelister`, and the theorems above.
2. `ImplementsLife` and `DirHasRow` for `SystemSpec`, as `LifecycleWired` does for
   the other invariants.
3. An abstract specification of a login, from which the token, the time-out and
   the end follow, with `AccessTokens` shown to implement it.
