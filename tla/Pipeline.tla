------------------------------ MODULE Pipeline ------------------------------
(***************************************************************************)
(* What a request goes through before and after its handler: the proxies   *)
(* on its way, and the chain of middlewares (pkg/server/api/chain and      *)
(* middleware) that pkg/server/server.go puts around every route.  Each    *)
(* middleware runs its first half on the way in, may answer itself or      *)
(* return an error instead of calling the next one, and runs its second    *)
(* half on the way out, knowing only the error it got back.                *)
(*                                                                         *)
(* Requests share nothing here, so one is enough.  Header and body         *)
(* contents are reduced to what the middlewares decide on.                 *)
(***************************************************************************)
EXTENDS Integers, Sequences

CONSTANTS
    Ip,             \* addresses
    Trusted,        \* those within trusted_proxy_cidrs
    V6,             \* IPv6 addresses
    Junk,           \* what a client may write that net.ParseIP refuses
    NoIp,           \* the empty string
    Semver,         \* versions, as <<major, minor>>
    NoVersion,      \* the header is missing, or the version not a semver
    Unparsable,
    MaxOwn,         \* bound on the entries of X-Forwarded-For a client makes up
    MaxEntries      \* bound on all of its entries

ASSUME PipelineAssumption ==
    /\ Trusted \subseteq Ip /\ V6 \subseteq Ip
    /\ Junk \notin Ip /\ NoIp \notin Ip
    /\ Semver \subseteq Nat \X Nat
    /\ NoVersion \notin Semver /\ Unparsable \notin Semver /\ NoVersion # Unparsable
    /\ MaxOwn \in Nat /\ MaxEntries \in Nat

VARIABLES
    config,         \* use_x_forwarded_for, and the version built into the server
    request,        \* route, headers, the address it comes from, and by whom it was sent
    phase,          \* where the request is
    pos,            \* how many middlewares it is inside of
    ctx,            \* the request's context: address, logger, user
    result          \* of the layers so far: status recorded, status written, error
                    \* returned, status logged, error reported to Sentry; begun and
                    \* failed: what the handler answered itself, whether a layer erred

vars == <<config, request, phase, pos, ctx, result>>

-----------------------------------------------------------------------------
(***************************************************************************)
(* The chains of server.go.                                                *)
(***************************************************************************)
New == <<"null">>
Add(c, m) == Append(c, m)

rootHandler == Add(Add(Add(New, "RecordUserIPAddress"), "RequestLogger"), "SentryReporter")

\* mutant of apiHandler: the errors of the routes are rendered outside of the chain's log
apiRenderedOutside ==
    Add(Add(Add(Add(New, "DefaultErrorRenderer"), "RecordUserIPAddress"), "RequestLogger"),
        "SentryReporter") \o <<"WithVersion", "AsJSON", "CheckAPIVersion">>

apiHandler ==
    Add(Add(Add(Add(rootHandler, "DefaultErrorRenderer"), "WithVersion"), "AsJSON"),
        "CheckAPIVersion")

defaultChain == Add(apiHandler, "Authenticate")

ChainOf(route) ==
    CASE route = "health_check"   -> Add(Add(rootHandler, "WithVersion"), "AsJSON")
      [] route = "authenticate"   -> rootHandler
      [] route = "oauth_callback" -> Add(rootHandler, "OauthErrorRenderer")
      [] route = "access_tokens"  -> apiHandler
      [] route = "core"           -> defaultChain

Route == {"health_check", "authenticate", "oauth_callback", "access_tokens", "core"}

(* foldMiddleware wraps from the last to the first: the first is outermost. *)
Layer(n) == ChainOf(request.route)[n]
Depth == Len(ChainOf(request.route))

-----------------------------------------------------------------------------
Entry == Ip \cup {Junk}
AuthHeader == {"malformed", "secret", "member", "outsider"}
User == {"upload", "member"}
NoUser == "no user"

NoContext == [ip |-> NoIp, logger |-> FALSE, user |-> NoUser]
NoResult == [code |-> 0, written |-> 0, err |-> FALSE, logged |-> 0, reported |-> FALSE,
             begun |-> 0, failed |-> FALSE]

Status == {0, 200, 400, 401, 404, 500, 599}
Aborted == 599      \* the handler panicked: net/http drops the connection

(* A client sends what it likes, X-Forwarded-For included. *)
Requests ==
    {[route |-> r, version |-> v, auth |-> a, xff |-> x, peer |-> i, client |-> i] :
        r \in Route, v \in Semver \cup {NoVersion, Unparsable}, a \in AuthHeader,
        x \in UNION {[1..n -> Entry] : n \in 0..MaxOwn}, i \in Ip \ Trusted}

Init ==
    /\ config \in [useXForwardedFor : BOOLEAN, version : Semver \cup {Unparsable}]
    /\ request \in Requests
    /\ phase = "travel"
    /\ pos = 0
    /\ ctx = NoContext
    /\ result = NoResult

(* A proxy passes the request on and appends the address it got it from.   *)
Forward(p) ==
    /\ phase = "travel"
    /\ p \in Trusted
    /\ Len(request.xff) < MaxEntries
    /\ request' = [request EXCEPT !.xff = Append(@, request.peer), !.peer = p]
    /\ UNCHANGED <<config, phase, pos, ctx, result>>

Arrive ==
    /\ phase = "travel"
    /\ phase' = "in"
    /\ UNCHANGED <<config, request, pos, ctx, result>>

-----------------------------------------------------------------------------
(***************************************************************************)
(* On the way in.                                                          *)
(***************************************************************************)
Turn(m) == phase = "in" /\ pos < Depth /\ Layer(pos + 1) = m

Call(c) == pos' = pos + 1 /\ ctx' = c /\ UNCHANGED <<config, request, phase, result>>

(* The middleware does not call the next one; its caller gets r. *)
Return(r) == phase' = "out" /\ result' = r /\ UNCHANGED <<config, request, pos, ctx>>

(* The first WriteHeader counts (httptest.ResponseRecorder). *)
WriteHeader(r, s) == IF r.code = 0 THEN [r EXCEPT !.code = s] ELSE r
Err(r) == [r EXCEPT !.err = TRUE, !.failed = TRUE]

Untrusted(x) == {j \in DOMAIN x : x[j] \in Ip \ Trusted}

(* The entries of X-Forwarded-For that are addresses and not of a trusted  *)
(* proxy; the last one is the one our own proxies have added.              *)
LastUntrusted(x) == CHOOSE j \in Untrusted(x) : \A k \in Untrusted(x) : k <= j

\* mutant of extractRequestIPAddress: the first entry, as is customary
extractFirst(q) ==
    IF config.useXForwardedFor /\ Untrusted(q.xff) # {}
      THEN q.xff[CHOOSE j \in Untrusted(q.xff) : \A k \in Untrusted(q.xff) : j <= k]
      ELSE q.peer

(* r.RemoteAddr is split at its colons: that of an IPv6 peer is refused.   *)
extractRequestIPAddress(q) ==
    IF config.useXForwardedFor /\ Untrusted(q.xff) # {}
      THEN q.xff[LastUntrusted(q.xff)]
      ELSE IF q.peer \in V6 THEN NoIp ELSE q.peer

RecordUserIPAddress ==
    /\ Turn("RecordUserIPAddress")
    /\ LET ip == extractRequestIPAddress(request)
       IN  IF ip = NoIp THEN Return(Err(result)) ELSE Call([ctx EXCEPT !.ip = ip])

RequestLogger ==
    /\ Turn("RequestLogger")
    /\ Call([ctx EXCEPT !.logger = TRUE])

PassOn ==
    /\ \E m \in {"null", "SentryReporter", "DefaultErrorRenderer", "OauthErrorRenderer",
                 "WithVersion", "AsJSON"} : Turn(m)
    /\ Call(ctx)

\* mutant of CheckVersion: only the major version is compared
CheckVersionMajor(v) ==
    CASE v = NoVersion -> FALSE
      [] config.version = Unparsable -> TRUE
      [] OTHER -> v # Unparsable /\ config.version[1] = v[1]

(* A server whose own version is not a semver does not look any further.   *)
CheckVersion(v) ==
    CASE v = NoVersion -> FALSE
      [] v # NoVersion /\ config.version = Unparsable -> TRUE
      [] v # NoVersion /\ config.version # Unparsable ->
            v # Unparsable /\ ~(config.version[1] # v[1] \/ config.version[2] < v[2])

CheckAPIVersion ==
    /\ Turn("CheckAPIVersion")
    /\ IF CheckVersion(request.version) THEN Call(ctx) ELSE Return(WriteHeader(result, 400))

\* mutant of AuthenticateRequest: the e-mail domain is not looked at
AnyDomain(a) ==
    CASE a = "secret"    -> {"upload"}
      [] a = "malformed" -> {NoUser}
      [] OTHER           -> {a, NoUser}

(* AuthenticateRequest: the users it may answer with; looking a token up   *)
(* may fail.                                                               *)
AuthenticateRequest(a) ==
    CASE a = "secret" -> {"upload"}
      [] a = "member" -> {"member", NoUser}
      [] OTHER        -> {NoUser}

Authenticate ==
    /\ Turn("Authenticate")
    /\ IF ~ctx.logger
         THEN Return(Err(result))
         ELSE \E u \in AuthenticateRequest(request.auth) :
                IF u = NoUser THEN Return(WriteHeader(result, 401))
                              ELSE Call([ctx EXCEPT !.user = u])

-----------------------------------------------------------------------------
(***************************************************************************)
(* The handlers.  They fail without what they look for in the context.     *)
(***************************************************************************)
Equipped ==
    /\ request.route \in {"oauth_callback", "access_tokens", "core"} => ctx.logger
    /\ request.route = "core" => ctx.user # NoUser /\ ctx.ip # NoIp

(* 404 stands for every other status that a handler writes itself.         *)
Write(s) == [WriteHeader(result, s) EXCEPT !.begun = s]

(* It answers; fails before it has written anything, or when it marshals   *)
(* what it has begun to write; or returns no error and writes nothing,     *)
(* which amounts to a 200 (a callback for an unknown state; the errors     *)
(* that Lifecycle's OnStatementError is about).                            *)
HandlerReturns ==
    /\ phase = "in" /\ pos = Depth
    /\ \/ Equipped /\ \E s \in {200, 404} : Return(Write(s))
       \/ request.route \in {"oauth_callback", "access_tokens", "core"} /\ Return(Err(result))
       \/ request.route \in {"access_tokens", "core"} /\ Equipped /\ Return(Err(Write(200)))
       \/ /\ request.route \in {"oauth_callback", "core"} /\ Equipped
          /\ Return([result EXCEPT !.begun = 200])

(* Nobody recovers from a panic: none of the middlewares' second halves    *)
(* runs.                                                                   *)
HandlerPanics ==
    /\ phase = "in" /\ pos = Depth /\ Equipped
    /\ phase' = "done"
    /\ result' = [result EXCEPT !.written = Aborted]
    /\ UNCHANGED <<config, request, pos, ctx>>

-----------------------------------------------------------------------------
(***************************************************************************)
(* On the way out.                                                         *)
(***************************************************************************)
Recorded(r) == IF r.code = 0 THEN 200 ELSE r.code

\* mutant of AfterLayer: DefaultErrorRenderer swallows the error it renders
AfterLayerSwallowing(m, r) ==
    CASE m = "RequestLogger" -> [r EXCEPT !.logged = Recorded(r), !.written = Recorded(r)]
      [] m = "SentryReporter" -> [r EXCEPT !.reported = r.err]
      [] m \in {"DefaultErrorRenderer", "OauthErrorRenderer"} ->
            IF r.err THEN [WriteHeader(r, 500) EXCEPT !.err = FALSE] ELSE r
      [] OTHER -> r

(* The second half of a middleware: the logger copies what was recorded to *)
(* the connection, the renderers answer an error that was not answered.    *)
AfterLayer(m, r) ==
    CASE m = "RequestLogger" -> [r EXCEPT !.logged = Recorded(r), !.written = Recorded(r)]
      [] m = "SentryReporter" -> [r EXCEPT !.reported = r.err]
      [] m \in {"DefaultErrorRenderer", "OauthErrorRenderer"} ->
            IF r.err THEN WriteHeader(r, 500) ELSE r
      [] OTHER -> r

Leave ==
    /\ phase = "out" /\ pos > 0
    /\ pos' = pos - 1
    /\ result' = AfterLayer(Layer(pos), result)
    /\ UNCHANGED <<config, request, phase, ctx>>

(* NewErrorHandler drops the error; net/http answers 200 when nothing was  *)
(* written.                                                                *)
Respond ==
    /\ phase = "out" /\ pos = 0
    /\ phase' = "done"
    /\ result' = [result EXCEPT !.written = IF @ = 0 THEN 200 ELSE @]
    /\ UNCHANGED <<config, request, pos, ctx>>

Next ==
    \/ \E p \in Trusted : Forward(p)
    \/ Arrive
    \/ RecordUserIPAddress \/ RequestLogger \/ PassOn \/ CheckAPIVersion \/ Authenticate
    \/ HandlerReturns \/ HandlerPanics
    \/ Leave \/ Respond

Spec == Init /\ [][Next]_vars

-----------------------------------------------------------------------------
(* The states of a request; the context never holds a user from outside    *)
(* the trusted domain (AuthenticateRequest).                               *)
TypeOK ==
    /\ config \in [useXForwardedFor : BOOLEAN, version : Semver \cup {Unparsable}]
    /\ request \in [route : Route, version : Semver \cup {NoVersion, Unparsable},
                    auth : AuthHeader, xff : Seq(Entry), peer : Ip, client : Ip \ Trusted]
    /\ phase \in {"travel", "in", "out", "done"}
    /\ pos \in 0..Depth
    /\ ctx \in [ip : Ip \cup {NoIp}, logger : BOOLEAN, user : User \cup {NoUser}]
    /\ result \in [code : Status, written : Status, err : BOOLEAN, logged : Status,
                   reported : BOOLEAN, begun : Status, failed : BOOLEAN]

(* The address that is whitelisted is that of the client, whatever it      *)
(* wrote into X-Forwarded-For, when the server is told to use that header  *)
(* and is behind proxies that append to it.                                *)
AddressIsTheClients ==
    ctx.ip # NoIp /\ config.useXForwardedFor /\ request.peer \in Trusted
        => ctx.ip = request.client

(* The handler of a core route runs only for a client of a version the     *)
(* server speaks and a user who was authenticated, whom it finds in the    *)
(* context with the logger and an address.  This is what the code does:    *)
(* the README asks for equal versions (src/README.md:280-284) where older  *)
(* minor ones are served, and for the upload user in modifications of      *)
(* images (530-532) where any authenticated user will do.                  *)
CoreIsGuarded ==
    phase = "in" /\ pos = Depth /\ request.route = "core" =>
        /\ Equipped
        /\ ctx.user = IF request.auth = "secret" THEN "upload" ELSE request.auth
        /\ request.version # NoVersion
        /\ config.version # Unparsable =>
             \E minor \in 0..config.version[2] : request.version = <<config.version[1], minor>>

(* "Every request will be logged, and any error raised in serving the      *)
(* request will also be logged": with the status the client gets, and with *)
(* the error reported to Sentry, unless the handler panicked or the        *)
(* address could not be told.                                              *)
LoggedAsAnswered ==
    phase = "done" /\ ctx.logger /\ result.written # Aborted =>
        /\ result.logged = result.written
        /\ result.reported = result.failed

(* A request whose address could be told is answered 200 only if it came   *)
(* to its handler, and that wrote 200 itself or returned no error and      *)
(* wrote nothing: a refusal, or an error returned before the first byte of *)
(* the answer, never looks like success, on any route.  (An error after a  *)
(* 200 was written does, and so does an address that cannot be told.)      *)
NoFalseSuccess ==
    phase = "done" /\ result.written = 200 /\ ctx.ip # NoIp => result.begun = 200
=============================================================================
