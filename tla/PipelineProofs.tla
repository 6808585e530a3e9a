--------------------------- MODULE PipelineProofs ---------------------------
(***************************************************************************)
(* Proofs about Pipeline, for any addresses and proxies, any number of     *)
(* hops and any versions.                                                  *)
(***************************************************************************)
EXTENDS Pipeline, WellFoundedInduction, TLAPS

-----------------------------------------------------------------------------
(***************************************************************************)
(* The chains, written out.                                                *)
(***************************************************************************)
Root == <<"null", "RecordUserIPAddress", "RequestLogger", "SentryReporter">>
Health == <<"null", "RecordUserIPAddress", "RequestLogger", "SentryReporter",
            "WithVersion", "AsJSON">>
Oauth == <<"null", "RecordUserIPAddress", "RequestLogger", "SentryReporter",
           "OauthErrorRenderer">>
Api == <<"null", "RecordUserIPAddress", "RequestLogger", "SentryReporter",
         "DefaultErrorRenderer", "WithVersion", "AsJSON", "CheckAPIVersion">>
Core == <<"null", "RecordUserIPAddress", "RequestLogger", "SentryReporter",
          "DefaultErrorRenderer", "WithVersion", "AsJSON", "CheckAPIVersion", "Authenticate">>

LEMMA RootIs == rootHandler = Root
<1> DEFINE b == <<"null", "RecordUserIPAddress">>
           c == <<"null", "RecordUserIPAddress", "RequestLogger">>
<1>1. b = Append(<<"null">>, "RecordUserIPAddress")
  OBVIOUS
<1>2. c = Append(b, "RequestLogger")
  OBVIOUS
<1>3. Root = Append(c, "SentryReporter")
  BY DEF Root
<1> HIDE DEF b, c
<1> QED BY <1>1, <1>2, <1>3, Zenon DEF rootHandler, Add, New

LEMMA ApiIs == apiHandler = Api
<1> DEFINE a == <<"null", "RecordUserIPAddress", "RequestLogger", "SentryReporter",
                  "DefaultErrorRenderer">>
           b == <<"null", "RecordUserIPAddress", "RequestLogger", "SentryReporter",
                  "DefaultErrorRenderer", "WithVersion">>
           c == <<"null", "RecordUserIPAddress", "RequestLogger", "SentryReporter",
                  "DefaultErrorRenderer", "WithVersion", "AsJSON">>
<1>1. a = Append(Root, "DefaultErrorRenderer")
  BY DEF Root
<1>2. b = Append(a, "WithVersion")
  OBVIOUS
<1>3. c = Append(b, "AsJSON")
  OBVIOUS
<1>4. Api = Append(c, "CheckAPIVersion")
  BY DEF Api
<1> HIDE DEF a, b, c
<1> QED BY <1>1, <1>2, <1>3, <1>4, RootIs, Zenon DEF apiHandler, Add

LEMMA ChainsAre ==
    /\ ChainOf("health_check") = Health
    /\ ChainOf("authenticate") = Root
    /\ ChainOf("oauth_callback") = Oauth
    /\ ChainOf("access_tokens") = Api
    /\ ChainOf("core") = Core
<1> DEFINE v == <<"null", "RecordUserIPAddress", "RequestLogger", "SentryReporter",
                  "WithVersion">>
<1>1. v = Append(Root, "WithVersion")
  BY DEF Root
<1>2. Health = Append(v, "AsJSON")
  BY DEF Health
<1>3. Oauth = Append(Root, "OauthErrorRenderer")
  BY DEF Oauth, Root
<1>4. Core = Append(Api, "Authenticate")
  BY DEF Core, Api
<1> HIDE DEF v
<1>5. defaultChain = Core
  BY <1>4, ApiIs, Zenon DEF defaultChain, Add
<1>6. Add(Add(rootHandler, "WithVersion"), "AsJSON") = Health
  BY <1>1, <1>2, RootIs, Zenon DEF Add
<1>7. Add(rootHandler, "OauthErrorRenderer") = Oauth
  BY <1>3, RootIs, Zenon DEF Add
<1> QED BY <1>5, <1>6, <1>7, RootIs, ApiIs DEF ChainOf

(* What the proofs use of every chain: the recorder of addresses, the      *)
(* logger and the reporter are second, third and fourth, and only there.   *)
Late == {"DefaultErrorRenderer", "OauthErrorRenderer", "WithVersion", "AsJSON",
         "CheckAPIVersion", "Authenticate"}

Rooted(c) ==
    /\ Len(c) \in Nat /\ Len(c) >= 4
    /\ c[1] = "null" /\ c[2] = "RecordUserIPAddress"
    /\ c[3] = "RequestLogger" /\ c[4] = "SentryReporter"
    /\ \A n \in 5..Len(c) : c[n] \in Late

LEMMA ChainsRooted == \A r \in Route : Rooted(ChainOf(r))
<1>1. Rooted(Root)
  BY DEF Root, Rooted
<1>2. Rooted(Health)
  <2>1. \A n \in 5..6 : n = 5 \/ n = 6
    OBVIOUS
  <2> QED BY <2>1 DEF Health, Rooted, Late
<1>3. Rooted(Oauth)
  BY DEF Oauth, Rooted, Late
<1>4. Rooted(Api)
  <2>1. \A n \in 5..8 : n = 5 \/ n = 6 \/ n = 7 \/ n = 8
    OBVIOUS
  <2> QED BY <2>1 DEF Api, Rooted, Late
<1>5. Rooted(Core)
  <2>1. \A n \in 5..9 : n = 5 \/ n = 6 \/ n = 7 \/ n = 8 \/ n = 9
    OBVIOUS
  <2> QED BY <2>1 DEF Core, Rooted, Late
<1> QED BY <1>1, <1>2, <1>3, <1>4, <1>5, ChainsAre DEF Route

(* Where there is a renderer of errors, it is the fifth. *)
Rendered == {"core", "access_tokens", "oauth_callback"}

LEMMA RendererFifth ==
    \A r \in Rendered : /\ Len(ChainOf(r)) >= 5
                        /\ ChainOf(r)[5] \in {"DefaultErrorRenderer", "OauthErrorRenderer"}
<1>1. Len(Oauth) = 5 /\ Oauth[5] = "OauthErrorRenderer"
  BY DEF Oauth
<1>2. Len(Api) = 8 /\ Api[5] = "DefaultErrorRenderer"
  BY DEF Api
<1>3. Len(Core) = 9 /\ Core[5] = "DefaultErrorRenderer"
  BY DEF Core
<1> QED BY <1>1, <1>2, <1>3, ChainsAre DEF Rendered

LEMMA CoreGuards ==
    /\ Len(ChainOf("core")) = 9
    /\ ChainOf("core")[8] = "CheckAPIVersion" /\ ChainOf("core")[9] = "Authenticate"
<1>1. Len(Core) = 9 /\ Core[8] = "CheckAPIVersion" /\ Core[9] = "Authenticate"
  BY DEF Core
<1> QED BY <1>1, ChainsAre

-----------------------------------------------------------------------------
(***************************************************************************)
(* Types.                                                                  *)
(***************************************************************************)
RequestType == [route : Route, version : Semver \cup {NoVersion, Unparsable},
                auth : AuthHeader, xff : Seq(Entry), peer : Ip, client : Ip \ Trusted]
ContextType == [ip : Ip \cup {NoIp}, logger : BOOLEAN, user : User \cup {NoUser}]
ResultType == [code : Status, written : Status, err : BOOLEAN, logged : Status,
               reported : BOOLEAN, begun : Status, failed : BOOLEAN]

LEMMA DepthIs ==
    ASSUME TypeOK
    PROVE  Rooted(ChainOf(request.route)) /\ Depth \in Nat /\ Depth >= 4 /\ pos \in 0..Depth
BY ChainsRooted DEF TypeOK, Depth, Rooted

LEMMA StatusHas ==
    /\ 200 \in Status /\ 400 \in Status /\ 401 \in Status /\ 404 \in Status
    /\ 500 \in Status
BY DEF Status

LEMMA HeaderType ==
    ASSUME NEW r \in ResultType, NEW c \in Status
    PROVE  /\ WriteHeader(r, c) \in ResultType
           /\ [WriteHeader(r, c) EXCEPT !.begun = c] \in ResultType
BY DEF WriteHeader, ResultType

LEMMA ErrType ==
    ASSUME NEW r \in ResultType
    PROVE  Err(r) \in ResultType
BY DEF Err, ResultType

LEMMA AfterType ==
    ASSUME NEW r \in ResultType, NEW m
    PROVE  AfterLayer(m, r) \in ResultType
<1>1. Recorded(r) \in Status
  BY DEF Recorded, ResultType, Status
<1>2. /\ [r EXCEPT !.logged = Recorded(r), !.written = Recorded(r)] \in ResultType
      /\ [r EXCEPT !.reported = r.err] \in ResultType
  BY <1>1 DEF ResultType
<1>3. WriteHeader(r, 500) \in ResultType
  BY HeaderType, StatusHas
<1> QED BY <1>2, <1>3 DEF AfterLayer

(* A set of positions in a sequence has a last one. *)
LEMMA LastOf ==
    ASSUME NEW n \in Nat, NEW S, S \subseteq 1..n, S # {}
    PROVE  \E j \in S : \A k \in S : k <= j
<1> DEFINE R == OpToRel(<, Nat)
           T == {i \in Nat : n - i \in S}
<1>1. R = {p \in Nat \X Nat : p[1] < p[2]}
  BY DEF OpToRel
<1>2. T \subseteq Nat /\ T # {}
  <2>1. PICK j \in S : TRUE
    OBVIOUS
  <2>2. n - j \in Nat /\ n - (n - j) = j
    BY <2>1
  <2> QED BY <2>1, <2>2
<1>3. IsWellFoundedOn(R, Nat)
  BY NatLessThanWellFounded, Zenon
<1> HIDE DEF R, T
<1>4. PICK x \in T : \A y \in T : <<y, x>> \notin R
  BY <1>2, <1>3, WFMin, Zenon
<1>5. x \in Nat /\ n - x \in S
  BY DEF T
<1>6. ASSUME NEW k \in S PROVE k <= n - x
  <2>1. n - k \in Nat /\ n - (n - k) = k
    OBVIOUS
  <2>2. n - k \in T
    BY <2>1 DEF T
  <2>3. ~(n - k < x)
    BY <1>1, <1>4, <1>5, <2>1, <2>2
  <2> QED BY <1>5, <2>1, <2>3
<1> QED BY <1>5, <1>6

LEMMA ExtractType ==
    ASSUME NEW q \in RequestType
    PROVE  extractRequestIPAddress(q) \in Ip \cup {NoIp}
<1>1. q.peer \in Ip
  BY DEF RequestType
<1>2. CASE Untrusted(q.xff) # {}
  <2>1. PICK j \in Untrusted(q.xff) : \A k \in Untrusted(q.xff) : k <= j
    <3>1. Untrusted(q.xff) \subseteq 1..Len(q.xff) /\ Len(q.xff) \in Nat
      BY DEF Untrusted, RequestType
    <3> QED BY <1>2, <3>1, LastOf
  <2>2. LastUntrusted(q.xff) \in Untrusted(q.xff)
    BY <2>1 DEF LastUntrusted
  <2>3. q.xff[LastUntrusted(q.xff)] \in Ip
    BY <2>2 DEF Untrusted
  <2> QED BY <1>1, <2>3 DEF extractRequestIPAddress
<1> QED BY <1>1, <1>2 DEF extractRequestIPAddress

LEMMA InitTypes == Init => TypeOK
<1> SUFFICES ASSUME Init PROVE TypeOK
  OBVIOUS
<1>1. PICK r \in Route, v \in Semver \cup {NoVersion, Unparsable}, a \in AuthHeader,
           x \in UNION {[1..n -> Entry] : n \in 0..MaxOwn}, i \in Ip \ Trusted :
        request = [route |-> r, version |-> v, auth |-> a, xff |-> x, peer |-> i, client |-> i]
  BY DEF Init, Requests
<1>2. x \in Seq(Entry)
  <2>1. PICK n \in 0..MaxOwn : x \in [1..n -> Entry]
    OBVIOUS
  <2> QED BY <2>1, PipelineAssumption
<1>3. request \in RequestType
  BY <1>1, <1>2 DEF RequestType
<1>4. Rooted(ChainOf(request.route))
  BY <1>3, ChainsRooted DEF RequestType
<1>5. pos \in 0..Depth
  BY <1>4 DEF Init, Depth, Rooted
<1>6. ctx \in ContextType /\ result \in ResultType
  BY DEF Init, ContextType, ResultType, NoContext, NoResult, Status
<1> QED BY <1>3, <1>5, <1>6 DEF Init, TypeOK, RequestType, ContextType, ResultType

(* The three ways to go on *)
LEMMA CallType ==
    ASSUME TypeOK, NEW c \in ContextType, pos < Depth, Call(c)
    PROVE  TypeOK'
<1>1. Depth' = Depth /\ pos' \in 0..Depth
  BY DepthIs DEF Call, Depth
<1> QED BY <1>1 DEF Call, TypeOK, ContextType

LEMMA ReturnType ==
    ASSUME TypeOK, NEW r \in ResultType, Return(r)
    PROVE  TypeOK'
<1>1. Depth' = Depth /\ pos' = pos
  BY DEF Return, Depth
<1> QED BY <1>1 DEF Return, TypeOK, ResultType

LEMMA NextTypes ==
    ASSUME TypeOK, [Next]_vars
    PROVE  TypeOK'
<1>0. request \in RequestType /\ ctx \in ContextType /\ result \in ResultType
  BY DEF TypeOK, RequestType, ContextType, ResultType
<1>1. ASSUME NEW p \in Trusted, Forward(p) PROVE TypeOK'
  <2>1. p \in Ip /\ request.peer \in Entry
    BY <1>0, PipelineAssumption DEF RequestType, Entry
  <2>2. request' \in RequestType /\ request'.route = request.route
    <3> DEFINE x == Append(request.xff, request.peer)
    <3>1. x \in Seq(Entry)
      BY <1>0, <2>1 DEF RequestType
    <3>2. request' = [request EXCEPT !.xff = x, !.peer = p]
      BY <1>1 DEF Forward
    <3> HIDE DEF x
    <3> QED BY <1>0, <2>1, <3>1, <3>2 DEF RequestType
  <2>3. Depth' = Depth
    BY <2>2 DEF Depth
  <2> QED BY <1>1, <2>2, <2>3 DEF Forward, TypeOK, RequestType
<1>2. CASE Arrive
  <2>1. Depth' = Depth
    BY <1>2 DEF Arrive, Depth
  <2> QED BY <1>2, <2>1 DEF Arrive, TypeOK
<1>3. CASE RecordUserIPAddress
  <2> DEFINE a == extractRequestIPAddress(request)
             c == [ctx EXCEPT !.ip = a]
  <2>1. a \in Ip \cup {NoIp}
    BY <1>0, ExtractType
  <2>2. c \in ContextType
    BY <1>0, <2>1 DEF ContextType
  <2>3. Err(result) \in ResultType
    BY <1>0, ErrType
  <2>4. Return(Err(result)) \/ (pos < Depth /\ Call(c))
    BY <1>3 DEF RecordUserIPAddress, Turn
  <2> HIDE DEF a, c
  <2> QED BY <2>2, <2>3, <2>4, CallType, ReturnType
<1>4. CASE RequestLogger
  <2>1. [ctx EXCEPT !.logger = TRUE] \in ContextType
    BY <1>0 DEF ContextType
  <2> QED BY <1>4, <2>1, CallType DEF RequestLogger, Turn
<1>5. CASE PassOn
  BY <1>0, <1>5, CallType DEF PassOn, Turn
<1>6. CASE CheckAPIVersion
  <2>1. WriteHeader(result, 400) \in ResultType
    BY <1>0, HeaderType, ErrType, StatusHas
  <2> QED BY <1>0, <1>6, <2>1, CallType, ReturnType DEF CheckAPIVersion, Turn
<1>7. CASE Authenticate
  <2>1. Err(result) \in ResultType /\ WriteHeader(result, 401) \in ResultType
    BY <1>0, HeaderType, ErrType, StatusHas
  <2>2. ASSUME NEW u \in AuthenticateRequest(request.auth)
        PROVE  [ctx EXCEPT !.user = u] \in ContextType
    <3>1. u \in User \cup {NoUser}
      BY <2>2 DEF AuthenticateRequest, User
    <3> QED BY <1>0, <3>1 DEF ContextType
  <2> QED BY <1>7, <2>1, <2>2, CallType, ReturnType DEF Authenticate, Turn
<1>8. CASE HandlerReturns
  <2>1. Write(200) \in ResultType /\ Write(404) \in ResultType /\ Err(result) \in ResultType
    BY <1>0, HeaderType, ErrType, StatusHas DEF Write
  <2>2. Err(Write(200)) \in ResultType
    BY <2>1, ErrType
  <2>3. [result EXCEPT !.begun = 200] \in ResultType
    BY <1>0, StatusHas DEF ResultType
  <2> QED BY <1>8, <2>1, <2>2, <2>3, ReturnType DEF HandlerReturns
<1>9. CASE HandlerPanics
  <2>1. result' \in ResultType /\ Depth' = Depth
    BY <1>0, <1>9 DEF HandlerPanics, ResultType, Aborted, Status, Depth
  <2> QED BY <1>9, <2>1 DEF HandlerPanics, TypeOK, ResultType
<1>10. CASE Leave
  <2>1. result' \in ResultType /\ Depth' = Depth
    BY <1>0, <1>10, AfterType DEF Leave, Depth
  <2>2. pos' \in 0..Depth
    BY <1>10, DepthIs DEF Leave
  <2> QED BY <1>10, <2>1, <2>2 DEF Leave, TypeOK, ResultType
<1>11. CASE Respond
  <2>1. result' \in ResultType /\ Depth' = Depth
    BY <1>0, <1>11 DEF Respond, ResultType, Status, Depth
  <2> QED BY <1>11, <2>1 DEF Respond, TypeOK, ResultType
<1>12. CASE UNCHANGED vars
  BY <1>12 DEF vars, TypeOK, Depth
<1> QED BY <1>1, <1>2, <1>3, <1>4, <1>5, <1>6, <1>7, <1>8, <1>9, <1>10, <1>11, <1>12 DEF Next

(* Through every chain a request stays what it is, and its context has a   *)
(* user only of those AuthenticateRequest may answer with.                 *)
THEOREM PipelineTyped == Spec => []TypeOK
BY InitTypes, NextTypes, PTL DEF Spec

-----------------------------------------------------------------------------
(***************************************************************************)
(* The client's address.  Behind trusted proxies, the client is in         *)
(* X-Forwarded-For, and what follows it are proxies.                       *)
(***************************************************************************)
Follows(x, c) == \E j \in DOMAIN x : x[j] = c /\ \A k \in DOMAIN x : k > j => x[k] \in Trusted

AddressInv ==
    /\ IF request.peer \in Trusted THEN Follows(request.xff, request.client)
                                   ELSE request.peer = request.client
    /\ phase = "travel" => ctx.ip = NoIp
    /\ ctx.ip # NoIp => ctx.ip = extractRequestIPAddress(request)

LEMMA LastIsClient ==
    ASSUME NEW x \in Seq(Entry), NEW c \in Ip \ Trusted, Follows(x, c)
    PROVE  Untrusted(x) # {} /\ x[LastUntrusted(x)] = c
<1>1. PICK j \in DOMAIN x : x[j] = c /\ \A k \in DOMAIN x : k > j => x[k] \in Trusted
  BY DEF Follows
<1>2. j \in Untrusted(x)
  BY <1>1 DEF Untrusted
<1>3. ASSUME NEW k \in Untrusted(x) PROVE k <= j
  <2>1. k \in DOMAIN x /\ x[k] \notin Trusted
    BY <1>3 DEF Untrusted
  <2>2. ~(k > j)
    BY <1>1, <2>1
  <2>3. j \in Int /\ k \in Int
    BY <1>1, <2>1
  <2> QED BY <2>2, <2>3
<1>4. ASSUME NEW i \in Untrusted(x), \A k \in Untrusted(x) : k <= i PROVE i = j
  <2>1. i <= j /\ j <= i
    BY <1>2, <1>3, <1>4
  <2>2. i \in Int /\ j \in Int
    BY <1>1, <1>4 DEF Untrusted
  <2> QED BY <2>1, <2>2
<1>5. LastUntrusted(x) = j
  BY <1>2, <1>3, <1>4 DEF LastUntrusted
<1> QED BY <1>1, <1>2, <1>5

LEMMA ForwardFollows ==
    ASSUME NEW x \in Seq(Entry), NEW i \in Entry, NEW c,
           i = c \/ (i \in Trusted /\ Follows(x, c))
    PROVE  Follows(Append(x, i), c)
<1> DEFINE y == Append(x, i)
           n == Len(x)
<1>1. /\ n \in Nat /\ DOMAIN x = 1..n /\ DOMAIN y = 1..(n + 1)
      /\ y[n + 1] = i /\ \A k \in 1..n : y[k] = x[k]
  OBVIOUS
<1> HIDE DEF y, n
<1>2. CASE i = c
  <2>1. n + 1 \in DOMAIN y /\ \A k \in DOMAIN y : ~(k > n + 1)
    BY <1>1
  <2> QED BY <1>1, <1>2, <2>1 DEF Follows, y
<1>3. CASE i \in Trusted /\ Follows(x, c)
  <2>1. PICK j \in DOMAIN x : x[j] = c /\ \A k \in DOMAIN x : k > j => x[k] \in Trusted
    BY <1>3 DEF Follows
  <2>2. j \in DOMAIN y /\ y[j] = c
    BY <1>1, <2>1
  <2>3. ASSUME NEW k \in DOMAIN y, k > j PROVE y[k] \in Trusted
    <3>1. k \in 1..n \/ k = n + 1
      BY <1>1
    <3> QED BY <1>1, <1>3, <2>1, <2>3, <3>1
  <2>4. Follows(y, c)
    BY <2>2, <2>3 DEF Follows
  <2> QED BY <2>4 DEF y
<1> QED BY <1>2, <1>3

LEMMA InitAddress == Init => AddressInv
<1> SUFFICES ASSUME Init PROVE AddressInv
  OBVIOUS
<1>1. request.peer \notin Trusted /\ request.peer = request.client
  BY DEF Init, Requests
<1>2. ctx.ip = NoIp
  BY DEF Init, NoContext
<1> QED BY <1>1, <1>2 DEF AddressInv

(* The address is found once, and stays what it is. *)
LEMMA CalmAddress ==
    ASSUME AddressInv, UNCHANGED <<config, request>>,
           ctx'.ip = ctx.ip, phase' = "travel" => phase = "travel"
    PROVE  AddressInv'
BY DEF AddressInv, extractRequestIPAddress, Untrusted, LastUntrusted, Follows

LEMMA NextAddress ==
    ASSUME TypeOK, AddressInv, [Next]_vars
    PROVE  AddressInv'
<1>0. request \in RequestType /\ ctx \in ContextType
  BY DEF TypeOK, RequestType, ContextType
<1>1. ASSUME NEW p \in Trusted, Forward(p) PROVE AddressInv'
  <2> DEFINE x == request.xff
             i == request.peer
             c == request.client
             y == Append(x, i)
  <2>1. x \in Seq(Entry) /\ i \in Entry
    BY <1>0 DEF RequestType, Entry
  <2>2. i = c \/ (i \in Trusted /\ Follows(x, c))
    BY DEF AddressInv
  <2>3. Follows(y, c)
    BY <2>1, <2>2, ForwardFollows
  <2>4. request' = [request EXCEPT !.xff = y, !.peer = p] /\ phase = "travel" /\ ctx' = ctx
    BY <1>1 DEF Forward
  <2> HIDE DEF y
  <2>5. request'.xff = y /\ request'.peer = p /\ request'.client = c
    BY <1>0, <2>4 DEF RequestType
  <2>6. ctx'.ip = NoIp
    BY <2>4 DEF AddressInv
  <2>7. Follows(request'.xff, request'.client)
    BY <2>3, <2>5
  <2> QED BY <2>5, <2>6, <2>7 DEF AddressInv, Follows
<1>2. CASE RecordUserIPAddress
  <2> DEFINE a == extractRequestIPAddress(request)
  <2>1. CASE Return(Err(result))
    BY <2>1, CalmAddress DEF Return
  <2>2. CASE Call([ctx EXCEPT !.ip = a])
    <3>1. /\ UNCHANGED <<config, request, phase>>
          /\ ctx'.ip = a
      BY <1>0, <2>2 DEF Call, ContextType
    <3>2. ctx'.ip = extractRequestIPAddress(request)'
      BY <3>1 DEF extractRequestIPAddress, Untrusted, LastUntrusted
    <3>3. phase' # "travel"
      BY <1>2, <3>1 DEF RecordUserIPAddress, Turn
    <3> QED BY <3>1, <3>2, <3>3 DEF AddressInv, Follows
  <2> QED BY <1>2, <2>1, <2>2 DEF RecordUserIPAddress
<1>3. CASE Arrive \/ HandlerPanics \/ Leave \/ Respond \/ UNCHANGED vars
  BY <1>3, CalmAddress DEF Arrive, HandlerPanics, Leave, Respond, vars
<1>4. CASE RequestLogger \/ PassOn \/ CheckAPIVersion \/ Authenticate \/ HandlerReturns
  <2>1. UNCHANGED <<config, request>> /\ (phase' = "travel" => phase = "travel")
    BY <1>4 DEF RequestLogger, PassOn, CheckAPIVersion, Authenticate, HandlerReturns, Call,
                Return
  <2>2. ctx'.ip = ctx.ip
    BY <1>0, <1>4 DEF RequestLogger, PassOn, CheckAPIVersion, Authenticate, HandlerReturns,
                      Call, Return, ContextType
  <2> QED BY <2>1, <2>2, CalmAddress
<1> QED BY <1>1, <1>2, <1>3, <1>4 DEF Next

(* Whatever a client writes into X-Forwarded-For, and however many trusted *)
(* proxies pass its request on: the address recordUserIPAddress finds is   *)
(* the client's own.                                                       *)
THEOREM ClientsAddress == Spec => []AddressIsTheClients
<1>1. TypeOK /\ AddressInv => AddressIsTheClients
  <2> SUFFICES ASSUME TypeOK, AddressInv, ctx.ip # NoIp, config.useXForwardedFor,
                      request.peer \in Trusted
               PROVE  ctx.ip = request.client
    BY DEF AddressIsTheClients
  <2>1. request.xff \in Seq(Entry) /\ request.client \in Ip \ Trusted
    BY DEF TypeOK
  <2>2. Follows(request.xff, request.client)
    BY DEF AddressInv
  <2>3. extractRequestIPAddress(request) = request.client
    BY <2>1, <2>2, LastIsClient DEF extractRequestIPAddress
  <2> QED BY <2>3 DEF AddressInv
<1>2. TypeOK /\ AddressInv /\ [Next]_vars => AddressInv'
  BY NextAddress
<1> QED BY <1>1, <1>2, InitAddress, PipelineTyped, PTL DEF Spec

-----------------------------------------------------------------------------
(***************************************************************************)
(* In and out.                                                             *)
(***************************************************************************)
LEMMA LayersAre ==
    ASSUME TypeOK, NEW n \in 1..Depth
    PROVE  /\ n = 1 => Layer(n) = "null"
           /\ n = 2 => Layer(n) = "RecordUserIPAddress"
           /\ n = 3 => Layer(n) = "RequestLogger"
           /\ n = 4 => Layer(n) = "SentryReporter"
           /\ n >= 5 => Layer(n) \in Late
           /\ n = 5 /\ request.route \in Rendered
                => Layer(n) \in {"DefaultErrorRenderer", "OauthErrorRenderer"}
<1>1. Rooted(ChainOf(request.route)) /\ Depth = Len(ChainOf(request.route))
      /\ Layer(n) = ChainOf(request.route)[n]
  BY DepthIs DEF Depth, Layer
<1> QED BY <1>1, RendererFifth DEF Rooted

(* On the way in nothing has been written; the address and the logger are  *)
(* in the context once their middlewares are passed, and the core routes   *)
(* have been guarded once theirs are.                                      *)
Known == IF request.auth = "secret" THEN "upload" ELSE request.auth

WayIn ==
    phase \in {"travel", "in"} =>
        /\ result = NoResult
        /\ phase = "travel" => pos = 0
        /\ ctx.ip # NoIp <=> pos >= 2
        /\ ctx.logger <=> pos >= 3
        /\ request.route = "core" /\ pos >= 8 => CheckVersion(request.version)
        /\ request.route = "core" /\ pos >= 9 => ctx.user = Known /\ ctx.user # NoUser

LEMMA WayInTurns ==
    ASSUME TypeOK, WayIn, NEW m, Turn(m)
    PROVE  /\ result = NoResult
           /\ pos \in Nat /\ pos + 1 \in 1..Depth /\ phase = "in"
           /\ m = "null" => pos = 0
           /\ m = "RecordUserIPAddress" => pos = 1
           /\ m = "RequestLogger" => pos = 2
           /\ m = "SentryReporter" => pos = 3
           /\ m \in Late => pos >= 4
           /\ request.route = "core" /\ pos = 7 => m = "CheckAPIVersion"
           /\ request.route = "core" /\ pos = 8 => m = "Authenticate"
           /\ pos = 1 => m = "RecordUserIPAddress"
           /\ pos = 2 => m = "RequestLogger"
<1>1. pos \in Nat /\ pos + 1 \in 1..Depth /\ Layer(pos + 1) = m /\ phase = "in"
  BY DepthIs DEF Turn
<1>2. pos = 0 \/ pos = 1 \/ pos = 2 \/ pos = 3 \/ pos >= 4
  BY <1>1
<1>3. /\ pos = 0 => m = "null"
      /\ pos = 1 => m = "RecordUserIPAddress"
      /\ pos = 2 => m = "RequestLogger"
      /\ pos = 3 => m = "SentryReporter"
      /\ pos >= 4 => m \in Late
  BY <1>1, LayersAre
<1>4. /\ request.route = "core" /\ pos = 7 => m = "CheckAPIVersion"
      /\ request.route = "core" /\ pos = 8 => m = "Authenticate"
  BY <1>1, CoreGuards DEF Layer
<1>5. result = NoResult
  BY <1>1 DEF WayIn
<1> QED BY <1>1, <1>2, <1>3, <1>4, <1>5 DEF Late

LEMMA InitWayIn == Init => WayIn
BY DEF Init, WayIn, NoContext

LEMMA NextWayIn ==
    ASSUME TypeOK, WayIn, [Next]_vars
    PROVE  WayIn'
<1>0. ctx \in ContextType /\ request \in RequestType /\ pos \in Nat
  BY DepthIs DEF TypeOK, ContextType, RequestType
<1>1. ASSUME NEW p \in Trusted, Forward(p) PROVE WayIn'
  <2>1. /\ phase = "travel" /\ UNCHANGED <<config, phase, pos, ctx, result>>
        /\ request'.version = request.version
    BY <1>0, <1>1 DEF Forward, RequestType
  <2> QED BY <2>1 DEF WayIn
<1>2. CASE Arrive
  <2>1. /\ phase = "travel" /\ UNCHANGED <<config, request, pos, ctx, result>>
    BY <1>2 DEF Arrive
  <2> QED BY <2>1 DEF WayIn
<1>3. CASE RecordUserIPAddress
  <2> DEFINE a == extractRequestIPAddress(request)
  <2>1. CASE phase' = "out"
    BY <2>1 DEF WayIn
  <2>2. CASE a # NoIp /\ Call([ctx EXCEPT !.ip = a])
    <3>1. pos = 1 /\ result = NoResult /\ phase = "in"
      BY <1>3, WayInTurns DEF RecordUserIPAddress
    <3>2. pos' = 2 /\ ctx'.ip # NoIp /\ ctx'.logger = ctx.logger /\ UNCHANGED <<result, phase>>
      BY <1>0, <2>2, <3>1 DEF Call, ContextType
    <3> QED BY <3>1, <3>2 DEF WayIn
  <2> QED BY <1>3, <2>1, <2>2 DEF RecordUserIPAddress, Return
<1>4. CASE RequestLogger
  <2>1. pos = 2 /\ result = NoResult /\ phase = "in"
    BY <1>4, WayInTurns DEF RequestLogger
  <2>2. pos' = 3 /\ ctx'.ip = ctx.ip /\ ctx'.logger = TRUE /\ UNCHANGED <<result, phase>>
    BY <1>0, <1>4, <2>1 DEF RequestLogger, Call, ContextType
  <2> QED BY <2>1, <2>2 DEF WayIn
<1>5. CASE PassOn
  <2>1. PICK m \in {"null", "SentryReporter", "DefaultErrorRenderer", "OauthErrorRenderer",
                    "WithVersion", "AsJSON"} : Turn(m)
    BY <1>5 DEF PassOn
  <2>2. /\ result = NoResult /\ phase = "in" /\ pos # 1 /\ pos # 2
        /\ request.route = "core" => pos # 7 /\ pos # 8
    BY <2>1, WayInTurns
  <2>3. pos' = pos + 1 /\ UNCHANGED <<config, request, ctx, phase, result>>
    BY <1>5 DEF PassOn, Call
  <2>4. /\ CheckVersion(request.version)' <=> CheckVersion(request.version)
        /\ Known' = Known
    BY <2>3 DEF CheckVersion, Known
  <2>5. ctx.ip # NoIp <=> pos' >= 2
    BY <1>0, <2>2, <2>3 DEF WayIn
  <2>6. ctx.logger <=> pos' >= 3
    BY <1>0, <2>2, <2>3 DEF WayIn
  <2>7. /\ request.route = "core" /\ pos' >= 8 => CheckVersion(request.version)
        /\ request.route = "core" /\ pos' >= 9 => ctx.user = Known /\ ctx.user # NoUser
    BY <1>0, <2>2, <2>3 DEF WayIn
  <2> QED BY <2>2, <2>3, <2>4, <2>5, <2>6, <2>7 DEF WayIn
<1>6. CASE CheckAPIVersion
  <2>1. CASE phase' = "out"
    BY <2>1 DEF WayIn
  <2>2. CASE CheckVersion(request.version) /\ Call(ctx)
    <3>1. /\ result = NoResult /\ phase = "in" /\ pos >= 4
          /\ request.route = "core" => pos # 8
      BY <1>6, WayInTurns DEF CheckAPIVersion, Late
    <3>2. pos' = pos + 1 /\ UNCHANGED <<config, request, ctx, phase, result>>
      BY <2>2 DEF Call
    <3>3. CheckVersion(request.version)'
      BY <2>2, <3>2 DEF CheckVersion
    <3> QED BY <1>0, <3>1, <3>2, <3>3 DEF WayIn, Known
  <2> QED BY <1>6, <2>1, <2>2 DEF CheckAPIVersion, Return
<1>7. CASE Authenticate
  <2>1. CASE phase' = "out"
    BY <2>1 DEF WayIn
  <2>2. ASSUME NEW u \in AuthenticateRequest(request.auth), u # NoUser,
               Call([ctx EXCEPT !.user = u])
        PROVE  WayIn'
    <3>1. /\ result = NoResult /\ phase = "in" /\ pos >= 4
          /\ request.route = "core" => pos # 7
      BY <1>7, WayInTurns DEF Authenticate, Late
    <3>2. /\ pos' = pos + 1 /\ UNCHANGED <<config, request, phase, result>>
          /\ ctx'.ip = ctx.ip /\ ctx'.logger = ctx.logger /\ ctx'.user = u
      BY <1>0, <2>2 DEF Call, ContextType
    <3>3. u = Known
      BY <2>2 DEF AuthenticateRequest, Known
    <3>4. CheckVersion(request.version)' <=> CheckVersion(request.version)
      BY <3>2 DEF CheckVersion
    <3>5. Known' = Known
      BY <3>2 DEF Known
    <3> QED BY <1>0, <2>2, <3>1, <3>2, <3>3, <3>4, <3>5 DEF WayIn
  <2> QED BY <1>7, <2>1, <2>2 DEF Authenticate, Return
<1>8. CASE HandlerReturns \/ HandlerPanics \/ Leave \/ Respond
  <2>1. phase' \in {"out", "done"}
    BY <1>8 DEF HandlerReturns, HandlerPanics, Leave, Respond, Return
  <2> QED BY <2>1 DEF WayIn
<1>9. CASE UNCHANGED vars
  BY <1>9 DEF vars, WayIn, CheckVersion, Known
<1> QED BY <1>1, <1>2, <1>3, <1>4, <1>5, <1>6, <1>7, <1>8, <1>9 DEF Next

LEMMA WayInRight == Spec => []WayIn
<1>1. TypeOK /\ WayIn /\ [Next]_vars => WayIn'
  BY NextWayIn
<1> QED BY <1>1, InitWayIn, PipelineTyped, PTL DEF Spec

(* No request reaches the handler of a core route past CheckAPIVersion or  *)
(* Authenticate, or without what the handler takes from the context.       *)
THEOREM CoreGuarded == Spec => []CoreIsGuarded
<1>1. TypeOK /\ WayIn => CoreIsGuarded
  <2> SUFFICES ASSUME TypeOK, WayIn, phase = "in", pos = Depth, request.route = "core"
               PROVE  /\ Equipped
                      /\ ctx.user = Known
                      /\ request.version # NoVersion
                      /\ config.version # Unparsable =>
                           \E minor \in 0..config.version[2] :
                              request.version = <<config.version[1], minor>>
    BY DEF CoreIsGuarded, Known
  <2>1. pos = 9
    BY CoreGuards DEF Depth
  <2>2. Equipped /\ ctx.user = Known /\ CheckVersion(request.version)
    BY <2>1 DEF WayIn, Equipped
  <2>3. request.version # NoVersion
    BY <2>2 DEF CheckVersion
  <2>4. ASSUME config.version # Unparsable
        PROVE  \E minor \in 0..config.version[2] : request.version = <<config.version[1], minor>>
    <3> DEFINE v == request.version
               w == config.version
    <3>1. v # Unparsable /\ w[1] = v[1] /\ ~(w[2] < v[2])
      BY <2>2, <2>3, <2>4 DEF CheckVersion
    <3>2. v \in Semver /\ w \in Semver
      BY <2>3, <2>4, <3>1 DEF TypeOK
    <3>3. v \in Nat \X Nat /\ w \in Nat \X Nat
      BY <3>2, PipelineAssumption
    <3> HIDE DEF v, w
    <3>4. v = <<w[1], v[2]>> /\ v[2] \in 0..w[2]
      BY <3>1, <3>3
    <3> QED BY <3>4 DEF v, w
  <2> QED BY <2>2, <2>3, <2>4
<1> QED BY <1>1, WayInRight, PipelineTyped, PTL
-----------------------------------------------------------------------------
(* On the way out: a layer that erred has returned its error to the next   *)
(* one, which is either in the answer by now or still to be rendered; the  *)
(* reporter and the logger have seen what is below them.                   *)
Sound(r) ==
    /\ r.err = r.failed
    /\ ~r.err => r.code # 0 \/ r.begun = 200
    /\ r.code = 200 => r.begun = 200

WayOut ==
    /\ phase = "out" =>
         /\ Sound(result)
         /\ ctx.ip # NoIp => ctx.logger
         /\ ctx.logger =>
              /\ pos <= 2 => result.logged = result.written /\ result.written = Recorded(result)
              /\ pos <= 3 => result.reported = result.failed
              /\ result.err => request.route \in Rendered
              /\ request.route \in Rendered /\ pos <= 4 => result.code # 0 \/ result.begun = 200
    /\ phase = "done" => LoggedAsAnswered /\ NoFalseSuccess

LEMMA SoundReturns ==
    /\ Sound(Err(NoResult))
    /\ Sound(WriteHeader(NoResult, 400)) /\ Sound(WriteHeader(NoResult, 401))
    /\ \A s \in {200, 404} : Sound([WriteHeader(NoResult, s) EXCEPT !.begun = s])
    /\ Sound(Err([WriteHeader(NoResult, 200) EXCEPT !.begun = 200]))
    /\ Sound([NoResult EXCEPT !.begun = 200])
    /\ ~WriteHeader(NoResult, 400).err /\ ~WriteHeader(NoResult, 401).err
    /\ \A s \in {200, 404} : ~[WriteHeader(NoResult, s) EXCEPT !.begun = s].err
    /\ ~[NoResult EXCEPT !.begun = 200].err
BY DEF Sound, Err, WriteHeader, NoResult

LEMMA SoundLayers ==
    ASSUME NEW r \in ResultType, Sound(r), NEW m
    PROVE  LET s == AfterLayer(m, r)
           IN  /\ Sound(s)
               /\ s.failed = r.failed /\ s.begun = r.begun
               /\ r.code # 0 => s.code # 0
               /\ m \in {"DefaultErrorRenderer", "OauthErrorRenderer"}
                    => s.code # 0 \/ s.begun = 200
               /\ m = "SentryReporter" => s.reported = s.failed
               /\ m = "RequestLogger" =>
                    s.logged = s.written /\ s.written = Recorded(s) /\ s.reported = r.reported
               /\ m \in {"null", "RecordUserIPAddress"} => s = r
<1> DEFINE s == AfterLayer(m, r)
<1>1. CASE m = "RequestLogger"
  <2>1. s = [r EXCEPT !.logged = Recorded(r), !.written = Recorded(r)]
    BY <1>1 DEF AfterLayer
  <2> HIDE DEF s
  <2>2. /\ s.err = r.err /\ s.failed = r.failed /\ s.code = r.code /\ s.begun = r.begun
        /\ s.reported = r.reported /\ s.logged = Recorded(r) /\ s.written = Recorded(r)
    BY <2>1 DEF ResultType
  <2>3. Recorded(s) = Recorded(r)
    BY <2>2 DEF Recorded
  <2>4. Sound(s)
    BY <2>2 DEF Sound
  <2> QED BY <1>1, <2>2, <2>3, <2>4 DEF s
<1>2. CASE m = "SentryReporter"
  <2>1. s = [r EXCEPT !.reported = r.err]
    BY <1>2 DEF AfterLayer
  <2> HIDE DEF s
  <2>2. /\ s.err = r.err /\ s.failed = r.failed /\ s.code = r.code /\ s.begun = r.begun
        /\ s.reported = r.err
    BY <2>1 DEF ResultType
  <2> QED BY <1>2, <2>2 DEF s, Sound
<1>3. CASE m \in {"DefaultErrorRenderer", "OauthErrorRenderer"}
  <2>1. s = IF r.err /\ r.code = 0 THEN [r EXCEPT !.code = 500] ELSE r
    BY <1>3 DEF AfterLayer, WriteHeader
  <2> HIDE DEF s
  <2>2. /\ s.err = r.err /\ s.failed = r.failed /\ s.begun = r.begun
        /\ s.code = IF r.err /\ r.code = 0 THEN 500 ELSE r.code
    BY <2>1 DEF ResultType
  <2> QED BY <1>3, <2>2 DEF s, Sound
<1>4. CASE m \notin {"RequestLogger", "SentryReporter", "DefaultErrorRenderer",
                     "OauthErrorRenderer"}
  <2>1. s = r
    BY <1>4 DEF AfterLayer
  <2> QED BY <1>4, <2>1
<1> QED BY <1>1, <1>2, <1>3, <1>4

(* What comes back to a middleware that is past the reporter. *)
LEMMA ReturnsOut ==
    ASSUME TypeOK, WayIn, phase = "in", pos >= 4,
           request.route \in Rendered => pos >= 5,
           NEW r, Sound(r), r.err => request.route \in Rendered, Return(r)
    PROVE  WayOut'
<1>1. pos \in Nat /\ ctx.logger
  BY DepthIs DEF WayIn
<1>2. phase' = "out" /\ result' = r /\ UNCHANGED <<request, pos, ctx>>
  BY DEF Return
<1>3. Sound(result)'
  BY <1>2 DEF Sound
<1> QED BY <1>1, <1>2, <1>3 DEF WayOut

LEMMA GuardsDeep ==
    ASSUME TypeOK, WayIn, NEW m \in {"CheckAPIVersion", "Authenticate"}, Turn(m)
    PROVE  /\ phase = "in" /\ pos >= 4 /\ result = NoResult
           /\ request.route \in Rendered => pos >= 5
<1>1. pos \in Nat /\ pos >= 4 /\ phase = "in" /\ result = NoResult /\ pos + 1 \in 1..Depth
  BY WayInTurns DEF Late
<1>2. request.route \in Rendered => pos # 4
  BY <1>1, LayersAre DEF Turn
<1> QED BY <1>1, <1>2

LEMMA HandlersDeep ==
    ASSUME TypeOK, WayIn, phase = "in", pos = Depth
    PROVE  /\ pos >= 4 /\ result = NoResult
           /\ request.route \in Rendered => pos >= 5
BY DepthIs, RendererFifth DEF WayIn, Depth

LEMMA LeaveOut ==
    ASSUME TypeOK, WayOut, Leave
    PROVE  WayOut'
<1> DEFINE m == Layer(pos)
           s == AfterLayer(m, result)
<1>1. result \in ResultType /\ pos \in 1..Depth /\ pos \in Nat
  BY DepthIs DEF TypeOK, ResultType, Leave
<1>2. /\ phase = "out" /\ phase' = "out" /\ pos' = pos - 1
      /\ result' = s /\ UNCHANGED <<request, ctx>>
  BY DEF Leave
<1>3. Sound(result)
  BY <1>2 DEF WayOut
<1>4. /\ pos = 1 => m = "null"
      /\ pos = 2 => m = "RecordUserIPAddress"
      /\ pos = 3 => m = "RequestLogger"
      /\ pos = 4 => m = "SentryReporter"
      /\ pos = 5 /\ request.route \in Rendered
            => m \in {"DefaultErrorRenderer", "OauthErrorRenderer"}
  BY <1>1, LayersAre
<1>5. /\ Sound(s)
      /\ s.failed = result.failed /\ s.begun = result.begun
      /\ result.code # 0 => s.code # 0
      /\ m \in {"DefaultErrorRenderer", "OauthErrorRenderer"} => s.code # 0 \/ s.begun = 200
      /\ m = "SentryReporter" => s.reported = s.failed
      /\ m = "RequestLogger" =>
            s.logged = s.written /\ s.written = Recorded(s) /\ s.reported = result.reported
      /\ m \in {"null", "RecordUserIPAddress"} => s = result
  BY <1>1, <1>3, SoundLayers
<1> HIDE DEF s, m
<1>6. ASSUME ctx.logger, pos - 1 <= 2
      PROVE  s.logged = s.written /\ s.written = Recorded(s)
  BY <1>1, <1>2, <1>4, <1>5, <1>6 DEF WayOut
<1>7. ASSUME ctx.logger, pos - 1 <= 3
      PROVE  s.reported = s.failed
  BY <1>1, <1>2, <1>4, <1>5, <1>7 DEF WayOut
<1>8. ASSUME ctx.logger, request.route \in Rendered, pos - 1 <= 4
      PROVE  s.code # 0 \/ s.begun = 200
  BY <1>1, <1>2, <1>4, <1>5, <1>8 DEF WayOut
<1>9. Sound(result)' /\ Recorded(result)' = Recorded(s)
  BY <1>2, <1>5 DEF Sound, Recorded
<1>10. ctx.logger /\ s.err => request.route \in Rendered
  <2>1. s.err = result.err
    BY <1>3, <1>5 DEF Sound
  <2> QED BY <1>2, <2>1 DEF WayOut
<1> QED BY <1>2, <1>6, <1>7, <1>8, <1>9, <1>10 DEF WayOut

LEMMA RespondOut ==
    ASSUME TypeOK, WayOut, Respond
    PROVE  WayOut'
<1>1. result \in ResultType
  BY DEF TypeOK, ResultType
<1>2. /\ phase = "out" /\ pos = 0 /\ phase' = "done" /\ UNCHANGED <<request, ctx>>
      /\ result'.code = result.code /\ result'.logged = result.logged
      /\ result'.reported = result.reported /\ result'.failed = result.failed
      /\ result'.begun = result.begun
      /\ result'.written = IF result.written = 0 THEN 200 ELSE result.written
  BY <1>1 DEF Respond, ResultType
<1>3. Sound(result) /\ (ctx.ip # NoIp => ctx.logger)
  BY <1>2 DEF WayOut
<1>4. ASSUME ctx.logger
      PROVE  /\ result.logged = result.written /\ result.written = Recorded(result)
             /\ result.reported = result.failed
             /\ result.code # 0 \/ result.begun = 200
  BY <1>2, <1>3, <1>4 DEF WayOut, Sound
<1>5. ctx.logger => result'.written = result.written /\ result.written # 0
  BY <1>2, <1>4 DEF Recorded
<1>6. LoggedAsAnswered'
  BY <1>2, <1>4, <1>5 DEF LoggedAsAnswered
<1>7. NoFalseSuccess'
  BY <1>2, <1>3, <1>4, <1>5 DEF NoFalseSuccess, Recorded, Sound
<1> QED BY <1>2, <1>6, <1>7 DEF WayOut

LEMMA NextWayOut ==
    ASSUME TypeOK, WayIn, WayOut, [Next]_vars
    PROVE  WayOut'
<1>1. CASE (\E p \in Trusted : Forward(p)) \/ Arrive \/ RequestLogger \/ PassOn
  <2>1. phase' \in {"travel", "in"}
    BY <1>1 DEF Forward, Arrive, RequestLogger, PassOn, Turn, Call
  <2> QED BY <2>1 DEF WayOut
<1>2. CASE RecordUserIPAddress
  <2>1. pos = 1 /\ phase = "in" /\ result = NoResult
    BY <1>2, WayInTurns DEF RecordUserIPAddress
  <2>2. ctx.ip = NoIp /\ ~ctx.logger
    BY <2>1 DEF WayIn
  <2>3. CASE phase' = "in"
    BY <2>3 DEF WayOut
  <2>4. CASE Return(Err(result))
    <3>1. phase' = "out" /\ ctx' = ctx /\ result' = Err(NoResult)
      BY <2>1, <2>4 DEF Return
    <3>2. Sound(result)'
      BY <3>1, SoundReturns DEF Sound
    <3> QED BY <2>2, <3>1, <3>2 DEF WayOut
  <2> QED BY <1>2, <2>1, <2>3, <2>4 DEF RecordUserIPAddress, Call
<1>3. CASE CheckAPIVersion
  <2>1. /\ phase = "in" /\ pos >= 4 /\ result = NoResult
        /\ request.route \in Rendered => pos >= 5
    BY <1>3, GuardsDeep DEF CheckAPIVersion
  <2>2. CASE phase' = "in"
    BY <2>2 DEF WayOut
  <2>3. CASE Return(WriteHeader(result, 400))
    BY <2>1, <2>3, SoundReturns, ReturnsOut
  <2> QED BY <1>3, <2>1, <2>2, <2>3 DEF CheckAPIVersion, Call
<1>4. CASE Authenticate
  <2>1. /\ phase = "in" /\ pos >= 4 /\ result = NoResult
        /\ request.route \in Rendered => pos >= 5
    BY <1>4, GuardsDeep DEF Authenticate
  <2>2. CASE phase' = "in"
    BY <2>2 DEF WayOut
  <2>3. CASE Return(WriteHeader(result, 401))
    BY <2>1, <2>3, SoundReturns, ReturnsOut
  <2>4. ctx.logger
    BY <2>1, DepthIs DEF WayIn
  <2> QED BY <1>4, <2>1, <2>2, <2>3, <2>4 DEF Authenticate, Call
<1>5. CASE HandlerReturns
  <2>1. /\ phase = "in" /\ pos >= 4 /\ result = NoResult
        /\ request.route \in Rendered => pos >= 5
    BY <1>5, HandlersDeep DEF HandlerReturns
  <2>2. ASSUME NEW s \in {200, 404}, Return([WriteHeader(NoResult, s) EXCEPT !.begun = s])
        PROVE  WayOut'
    <3> DEFINE r == [WriteHeader(NoResult, s) EXCEPT !.begun = s]
    <3>1. Sound(r) /\ ~r.err
      BY SoundReturns
    <3>2. Return(r)
      BY <2>2
    <3> HIDE DEF r
    <3> QED BY <2>1, <3>1, <3>2, ReturnsOut
  <2>3. ASSUME request.route \in Rendered,
               NEW r \in {Err(NoResult), Err([WriteHeader(NoResult, 200) EXCEPT !.begun = 200])},
               Return(r)
        PROVE  WayOut'
    <3>1. Sound(r)
      BY SoundReturns
    <3> QED BY <2>1, <2>3, <3>1, ReturnsOut
  <2>4. ASSUME Return([NoResult EXCEPT !.begun = 200])
        PROVE  WayOut'
    <3> DEFINE r == [NoResult EXCEPT !.begun = 200]
    <3>1. Sound(r) /\ ~r.err
      BY SoundReturns
    <3>2. Return(r)
      BY <2>4
    <3> HIDE DEF r
    <3> QED BY <2>1, <3>1, <3>2, ReturnsOut
  <2> QED BY <1>5, <2>1, <2>2, <2>3, <2>4 DEF HandlerReturns, Write, Rendered
<1>6. CASE HandlerPanics
  <2>1. result \in ResultType
    BY DEF TypeOK, ResultType
  <2>2. phase' = "done" /\ result'.written = 599
    BY <1>6, <2>1 DEF HandlerPanics, ResultType, Aborted
  <2> QED BY <2>2 DEF WayOut, LoggedAsAnswered, NoFalseSuccess, Aborted
<1>7. CASE UNCHANGED vars
  BY <1>7 DEF vars, WayOut, Sound, Recorded, LoggedAsAnswered, NoFalseSuccess
<1> QED BY <1>1, <1>2, <1>3, <1>4, <1>5, <1>6, <1>7, LeaveOut, RespondOut DEF Next

LEMMA WayOutRight == Spec => []WayOut
<1>1. TypeOK /\ WayIn /\ WayOut /\ [Next]_vars => WayOut'
  BY NextWayOut
<1>2. Init => WayOut
  BY DEF Init, WayOut
<1> QED BY <1>1, <1>2, PipelineTyped, WayInRight, PTL DEF Spec

(* Every answer given below RequestLogger is the one that is logged, and   *)
(* an error is reported exactly when a layer below SentryReporter erred.   *)
THEOREM AnswersLogged == Spec => []LoggedAsAnswered
<1>1. TypeOK /\ WayOut => LoggedAsAnswered
  BY DEF TypeOK, WayOut, LoggedAsAnswered
<1> QED BY <1>1, PipelineTyped, WayOutRight, PTL

(* Where the address of a request could be told, neither an error that is  *)
(* returned before the first byte of the answer nor a refusal turns into a *)
(* 200 on its way out.  An error after the handler wrote 200 stays a 200,  *)
(* and an address that cannot be told is answered with one.                *)
THEOREM SuccessWritten == Spec => []NoFalseSuccess
<1>1. TypeOK /\ WayOut => NoFalseSuccess
  BY DEF TypeOK, WayOut, NoFalseSuccess
<1> QED BY <1>1, PipelineTyped, WayOutRight, PTL
=============================================================================
