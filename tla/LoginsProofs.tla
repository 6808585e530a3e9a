---------------------------- MODULE LoginsProofs ----------------------------
(***************************************************************************)
(* Proofs about AccessTokens and Logins, for any number of logins, browser *)
(* requests, states and commands.                                          *)
(***************************************************************************)
EXTENDS Logins, TLAPS

-----------------------------------------------------------------------------
(***************************************************************************)
(* The rendezvous.                                                         *)
(***************************************************************************)

(* A request has its state once it has begun; until two writes have met, a *)
(* channel is in the map under the state of the request that made it.      *)
StateInv ==
    /\ \A l \in Login : login[l].pc = "new" <=> login[l].state = NoState
    /\ ~overlapped => \A s \in State : callbacks[s] # NoChan => login[callbacks[s]].state = s

HasSent(b, l) ==
    browser[b].pc = "answered" /\ browser[b].chan = l /\ browser[b].outcome = "token"

(* A token a request has got was sent to it. *)
TokenInv ==
    \A l \in Login :
        /\ login[l].pc = "created" => login[l].got = "token"
        /\ login[l].got = "token" => \E b \in Browser : HasSent(b, l)

RendezvousInv == TypeOK /\ StateInv /\ NoLeftoverChannel /\ TokenInv

LEMMA LoginType ==
    ASSUME TypeOK, NEW l \in Login
    PROVE  /\ login[l] = [pc |-> login[l].pc, state |-> login[l].state, got |-> login[l].got]
           /\ login[l].pc \in LoginPc
           /\ login[l].state \in State \cup {NoState}
           /\ login[l].got \in Outcome \cup {"nothing"}
BY DEF TypeOK

LEMMA RendezvousInit == Init => RendezvousInv
<1> SUFFICES ASSUME Init PROVE RendezvousInv
  OBVIOUS
<1>1. overlapped \in BOOLEAN
  BY Zenon DEF Init
<1>2. TypeOK
  BY <1>1 DEF Init, TypeOK, LoginPc, BrowserPc, Outcome
<1>3. StateInv /\ NoLeftoverChannel /\ TokenInv
  BY AccessTokensAssumption DEF Init, StateInv, NoLeftoverChannel, TokenInv
<1> QED BY <1>2, <1>3 DEF RendezvousInv

(* One login moves on. *)
LoginRecord == [pc : LoginPc, state : State \cup {NoState}, got : Outcome \cup {"nothing"}]

LEMMA LoginMoves ==
    ASSUME TypeOK, NEW l \in Login, NEW x \in LoginRecord,
           login' = [login EXCEPT ![l] = x],
           callbacks' \in [State -> Login \cup {NoChan}], writing' \subseteq Login,
           overlapped' \in BOOLEAN, browser' = browser
    PROVE  TypeOK'
<1>1. login \in [Login -> LoginRecord]
  BY DEF TypeOK, LoginRecord
<1>2. login' \in [Login -> LoginRecord]
  BY <1>1
<1> QED BY <1>2 DEF TypeOK, LoginRecord

LEMMA LoginFields ==
    ASSUME TypeOK, NEW l \in Login, NEW p \in LoginPc
    PROVE  /\ [login[l] EXCEPT !.pc = p] \in LoginRecord
           /\ \A s \in State : [login[l] EXCEPT !.pc = p, !.state = s] \in LoginRecord
           /\ \A g \in Outcome : [login[l] EXCEPT !.pc = p, !.got = g] \in LoginRecord
<1>1. login[l] \in LoginRecord
  BY DEF TypeOK, LoginRecord
<1> QED BY <1>1 DEF LoginRecord

(* What a write does to the map. *)
LEMMA WriteBeginIs ==
    ASSUME TypeOK, NEW l \in Login, WriteBegin(l)
    PROVE  /\ writing' \subseteq Login /\ overlapped' \in BOOLEAN
           /\ overlapped => overlapped'
<1>1. overlapped' = (overlapped \/ writing # {}) /\ overlapped \in BOOLEAN
  BY DEF WriteBegin, TypeOK
<1>2. overlapped' \in BOOLEAN /\ (overlapped => overlapped')
  BY <1>1, Zenon
<1> QED BY <1>2 DEF WriteBegin, TypeOK

LEMMA WriteEndIs ==
    ASSUME TypeOK, NEW l \in Login, NEW m \in [State -> Login \cup {NoChan}], WriteEnd(l, m)
    PROVE  /\ writing' \subseteq Login /\ overlapped' = overlapped /\ overlapped' \in BOOLEAN
           /\ callbacks' \in [State -> Login \cup {NoChan}]
           /\ ~overlapped => callbacks' = m
<1> DEFINE R == {k \in Login : login[k].pc \in {"store", "wait", "delete", "remove"}}
                  \cup {callbacks[s] : s \in State} \cup {NoChan}
<1>1. overlapped => callbacks' \in [State -> R]
  BY DEF WriteEnd
<1>2. R \subseteq Login \cup {NoChan}
  BY DEF TypeOK
<1> HIDE DEF R
<1>3. overlapped => callbacks' \in [State -> Login \cup {NoChan}]
  BY <1>1, <1>2
<1>4. ~overlapped => callbacks' = m
  BY DEF WriteEnd
<1> QED BY <1>3, <1>4 DEF WriteEnd, TypeOK

LEMMA DieLogins ==
    ASSUME TypeOK, Die
    PROVE  login' \in [Login -> LoginRecord]
<1>1. "lost" \in LoginPc
  BY DEF LoginPc
<1>2. ASSUME NEW l \in Login
      PROVE  login[l] \in LoginRecord /\ [login[l] EXCEPT !.pc = "lost"] \in LoginRecord
  <2>1. login[l] \in LoginRecord
    BY DEF TypeOK, LoginRecord
  <2> QED BY <1>1, <2>1, LoginFields
<1>3. login' = [l \in Login |-> IF login[l].pc \in {"new", "created", "refused"}
                                  THEN login[l] ELSE [login[l] EXCEPT !.pc = "lost"]]
  BY DEF Die
<1> QED BY <1>2, <1>3

LEMMA TypesKept ==
    ASSUME TypeOK, StateInv, Next
    PROVE  TypeOK'
<1>1. ASSUME NEW l \in Login, NEW s \in State, CreateBegin(l, s) PROVE TypeOK'
  <2> DEFINE x == [login[l] EXCEPT !.pc = "store", !.state = s]
  <2>1. login' = [login EXCEPT ![l] = x]
    BY <1>1 DEF CreateBegin
  <2>2. x \in LoginRecord
    BY LoginFields DEF LoginPc
  <2>3. /\ callbacks' \in [State -> Login \cup {NoChan}] /\ writing' \subseteq Login
        /\ overlapped' \in BOOLEAN /\ browser' = browser
    BY <1>1, WriteBeginIs DEF CreateBegin, TypeOK
  <2> HIDE DEF x
  <2> QED BY <2>1, <2>2, <2>3, LoginMoves
<1>2. ASSUME NEW l \in Login, CreateStore(l) PROVE TypeOK'
  <2> DEFINE x == [login[l] EXCEPT !.pc = "wait"]
  <2>1. login' = [login EXCEPT ![l] = x]
    BY <1>2 DEF CreateStore
  <2>2. x \in LoginRecord
    BY LoginFields DEF LoginPc
  <2>4. login[l].state \in State
    BY <1>2, LoginType DEF CreateStore, StateInv
  <2>5. [callbacks EXCEPT ![login[l].state] = l] \in [State -> Login \cup {NoChan}]
    BY <2>4 DEF TypeOK
  <2>3. /\ callbacks' \in [State -> Login \cup {NoChan}] /\ writing' \subseteq Login
        /\ overlapped' \in BOOLEAN /\ browser' = browser
    BY <1>2, <2>5, WriteEndIs DEF CreateStore
  <2> HIDE DEF x
  <2> QED BY <2>1, <2>2, <2>3, LoginMoves
<1>3. ASSUME NEW l \in Login, CreateTimeout(l) PROVE TypeOK'
  <2> DEFINE x == [login[l] EXCEPT !.pc = "delete", !.got = "error"]
  <2>1. login' = [login EXCEPT ![l] = x]
    BY <1>3 DEF CreateTimeout
  <2>2. x \in LoginRecord
    BY LoginFields DEF LoginPc, Outcome
  <2>3. /\ callbacks' \in [State -> Login \cup {NoChan}] /\ writing' \subseteq Login
        /\ overlapped' \in BOOLEAN /\ browser' = browser
    BY <1>3 DEF CreateTimeout, TypeOK
  <2> HIDE DEF x
  <2> QED BY <2>1, <2>2, <2>3, LoginMoves
<1>4. ASSUME NEW l \in Login, DeleteBegin(l) PROVE TypeOK'
  <2> DEFINE x == [login[l] EXCEPT !.pc = "remove"]
  <2>1. login' = [login EXCEPT ![l] = x]
    BY <1>4 DEF DeleteBegin
  <2>2. x \in LoginRecord
    BY LoginFields DEF LoginPc
  <2>3. /\ callbacks' \in [State -> Login \cup {NoChan}] /\ writing' \subseteq Login
        /\ overlapped' \in BOOLEAN /\ browser' = browser
    BY <1>4, WriteBeginIs DEF DeleteBegin, TypeOK
  <2> HIDE DEF x
  <2> QED BY <2>1, <2>2, <2>3, LoginMoves
<1>5. ASSUME NEW l \in Login, CreateDelete(l) PROVE TypeOK'
  <2> DEFINE x == [login[l] EXCEPT !.pc = IF login[l].got = "token" THEN "created" ELSE "refused"]
  <2>1. login' = [login EXCEPT ![l] = x]
    BY <1>5 DEF CreateDelete
  <2>2. x \in LoginRecord
    BY LoginFields DEF LoginPc
  <2>5. [callbacks EXCEPT ![login[l].state] = NoChan] \in [State -> Login \cup {NoChan}]
    BY DEF TypeOK
  <2>3. /\ callbacks' \in [State -> Login \cup {NoChan}] /\ writing' \subseteq Login
        /\ overlapped' \in BOOLEAN /\ browser' = browser
    BY <1>5, <2>5, WriteEndIs DEF CreateDelete
  <2> HIDE DEF x
  <2> QED BY <2>1, <2>2, <2>3, LoginMoves
<1> USE DEF TypeOK, LoginPc, BrowserPc, Outcome
<1>6. ASSUME NEW b \in Browser, NEW s \in State, CallbackLookup(b, s) PROVE TypeOK'
  <2>1. PICK ch \in {callbacks[s]} \cup (IF writing = {} THEN {} ELSE {NoChan}) :
          IF ch = NoChan
            THEN browser' = [browser EXCEPT ![b].pc = "answered"]
            ELSE \/ browser' = [browser EXCEPT ![b] =
                       [pc |-> "exchange", chan |-> ch, outcome |-> "nothing"]]
                 \/ browser' = [browser EXCEPT ![b] =
                       [pc |-> "send", chan |-> ch, outcome |-> "error"]]
    BY <1>6 DEF CallbackLookup
  <2>2. ch \in Login \cup {NoChan}
    BY <2>1
  <2>3. UNCHANGED <<callbacks, writing, overlapped, login>>
    BY <1>6 DEF CallbackLookup
  <2>4. CASE ch = NoChan
    BY <2>1, <2>3, <2>4
  <2>5. CASE ch # NoChan
    BY <2>1, <2>2, <2>3, <2>5
  <2> QED BY <2>4, <2>5
<1>7. ASSUME NEW b \in Browser, Exchange(b) PROVE TypeOK'
  <2>1. PICK o \in Outcome :
          browser' = [browser EXCEPT ![b] = [browser[b] EXCEPT !.pc = "send", !.outcome = o]]
    BY <1>7 DEF Exchange
  <2>2. [browser[b] EXCEPT !.pc = "send", !.outcome = o]
          \in [pc : BrowserPc, chan : Login \cup {NoChan}, outcome : Outcome \cup {"nothing"}]
    OBVIOUS
  <2> QED BY <1>7, <2>1, <2>2 DEF Exchange
<1>8. ASSUME NEW b \in Browser, Rendezvous(b) PROVE TypeOK'
  <2> DEFINE L == [pc : LoginPc, state : State \cup {NoState}, got : Outcome \cup {"nothing"}]
             B == [pc : BrowserPc, chan : Login \cup {NoChan}, outcome : Outcome \cup {"nothing"}]
             l == browser[b].chan
             o == browser[b].outcome
             x == [login[l] EXCEPT !.pc = "delete", !.got = o]
             y == [browser[b] EXCEPT !.pc = "answered"]
  <2>1. /\ login' = [login EXCEPT ![l] = x]
        /\ browser' = [browser EXCEPT ![b] = y]
        /\ UNCHANGED <<callbacks, writing, overlapped>>
    BY <1>8 DEF Rendezvous
  <2>2. l \in Login /\ o \in Outcome \cup {"nothing"} /\ browser[b] \in B
    BY <1>8 DEF Rendezvous
  <2>3. login[l] \in L
    BY <2>2
  <2>4. y \in B /\ y.pc = "answered"
    BY <2>2
  <2> HIDE DEF l, o, y
  <2>5. x \in L
    BY <2>2, <2>3
  <2> HIDE DEF x
  <2>6. login' \in [Login -> L]
    BY <2>1, <2>2, <2>5
  <2>7. browser' \in [Browser -> B] /\ \A c \in Browser \ {b} : browser'[c] = browser[c]
    BY <2>1, <2>4
  <2>8. browser'[b].pc = "answered"
    BY <2>1, <2>4
  <2> QED BY <2>1, <2>6, <2>7, <2>8
<1>9. ASSUME Die PROVE TypeOK'
  <2>1. overlapped' \in BOOLEAN
    BY <1>9, Zenon DEF Die
  <2>2. callbacks' \in [State -> Login \cup {NoChan}] /\ writing' \subseteq Login
    BY <1>9 DEF Die
  <2>3. login' \in [Login -> [pc : LoginPc, state : State \cup {NoState},
                              got : Outcome \cup {"nothing"}]]
    BY <1>9, DieLogins DEF LoginRecord
  <2>4. browser' \in [Browser -> [pc : BrowserPc, chan : Login \cup {NoChan},
                                  outcome : Outcome \cup {"nothing"}]]
    BY <1>9 DEF Die
  <2>5. \A b \in Browser : browser'[b].pc \notin {"exchange", "send"}
    BY <1>9 DEF Die
  <2> QED BY <2>1, <2>2, <2>3, <2>4, <2>5
<1>10. ASSUME Done PROVE TypeOK'
  BY <1>10 DEF Done, vars
<1> QED BY <1>1, <1>2, <1>3, <1>4, <1>5, <1>6, <1>7, <1>8, <1>9, <1>10
        DEF Next, CreateStep, CallbackStep, ConcurrentMapFatal

-----------------------------------------------------------------------------
LEMMA StateKept ==
    ASSUME TypeOK, StateInv, NoLeftoverChannel, Next
    PROVE  StateInv'
<1> USE DEF StateInv, TypeOK
<1>1. ASSUME NEW l \in Login, NEW s \in State, CreateBegin(l, s) PROVE StateInv'
  BY <1>1, AccessTokensAssumption DEF CreateBegin, WriteBegin, NoLeftoverChannel
<1>2. ASSUME NEW l \in Login, CreateStore(l) PROVE StateInv'
  BY <1>2 DEF CreateStore, WriteEnd
<1>3. ASSUME NEW l \in Login, CreateTimeout(l) PROVE StateInv'
  BY <1>3 DEF CreateTimeout
<1>4. ASSUME NEW l \in Login, DeleteBegin(l) PROVE StateInv'
  BY <1>4 DEF DeleteBegin, WriteBegin
<1>5. ASSUME NEW l \in Login, CreateDelete(l) PROVE StateInv'
  BY <1>5 DEF CreateDelete, WriteEnd
<1>6. ASSUME UNCHANGED <<login, callbacks, overlapped>> PROVE StateInv'
  BY <1>6
<1>7. ASSUME NEW b \in Browser, Rendezvous(b) PROVE StateInv'
  BY <1>7 DEF Rendezvous
<1>8. ASSUME Die PROVE StateInv'
  BY <1>8 DEF Die
<1> QED BY <1>1, <1>2, <1>3, <1>4, <1>5, <1>6, <1>7, <1>8
        DEF Next, CreateStep, CallbackStep, ConcurrentMapFatal, CallbackLookup, Exchange, Done, vars

LEMMA ChannelsKept ==
    ASSUME TypeOK, StateInv, NoLeftoverChannel, Next
    PROVE  NoLeftoverChannel'
<1> USE DEF NoLeftoverChannel, TypeOK
<1>1. ASSUME NEW l \in Login, NEW s \in State, CreateBegin(l, s) PROVE NoLeftoverChannel'
  BY <1>1 DEF CreateBegin, WriteBegin
<1>2. ASSUME NEW l \in Login, CreateStore(l) PROVE NoLeftoverChannel'
  BY <1>2 DEF CreateStore, WriteEnd, StateInv
<1>3. ASSUME NEW l \in Login, CreateTimeout(l) PROVE NoLeftoverChannel'
  BY <1>3 DEF CreateTimeout
<1>4. ASSUME NEW l \in Login, DeleteBegin(l) PROVE NoLeftoverChannel'
  BY <1>4 DEF DeleteBegin, WriteBegin
<1>5. ASSUME NEW l \in Login, CreateDelete(l) PROVE NoLeftoverChannel'
  BY <1>5 DEF CreateDelete, WriteEnd, StateInv
<1>6. ASSUME UNCHANGED <<login, callbacks, overlapped>> PROVE NoLeftoverChannel'
  BY <1>6
<1>7. ASSUME NEW b \in Browser, Rendezvous(b) PROVE NoLeftoverChannel'
  BY <1>7 DEF Rendezvous
<1>8. ASSUME Die PROVE NoLeftoverChannel'
  BY <1>8 DEF Die
<1> QED BY <1>1, <1>2, <1>3, <1>4, <1>5, <1>6, <1>7, <1>8
        DEF Next, CreateStep, CallbackStep, ConcurrentMapFatal, CallbackLookup, Exchange, Done, vars

(* Whoever has sent a token has sent it for good. *)
SentKept == \A l \in Login : \A b \in Browser : HasSent(b, l) => HasSent(b, l)'

LEMMA CalmToken ==
    ASSUME TokenInv, SentKept,
           \A l \in Login :
             /\ login'[l].got = "token" => login[l].got = "token"
             /\ login'[l].pc = "created" => login'[l].got = "token"
    PROVE  TokenInv'
BY DEF TokenInv, SentKept

LEMMA TokenKept ==
    ASSUME TypeOK, TokenInv, Next
    PROVE  TokenInv'
<1> USE DEF TypeOK
<1>1. ASSUME NEW l \in Login,
             CreateStore(l) \/ CreateTimeout(l) \/ DeleteBegin(l) \/ CreateDelete(l)
               \/ \E s \in State : CreateBegin(l, s)
      PROVE  TokenInv'
  <2>1. SentKept
    BY <1>1 DEF CreateBegin, CreateStore, CreateTimeout, DeleteBegin, CreateDelete, SentKept,
                HasSent
  <2>2. ASSUME NEW k \in Login
        PROVE  /\ login'[k].got = "token" => login[k].got = "token"
               /\ login'[k].pc = "created" => login'[k].got = "token"
    BY <1>1 DEF CreateBegin, CreateStore, CreateTimeout, DeleteBegin, CreateDelete, TokenInv
  <2> QED BY <2>1, <2>2, CalmToken
<1>2. ASSUME NEW b \in Browser, Exchange(b) \/ \E s \in State : CallbackLookup(b, s)
      PROVE  TokenInv'
  <2>1. /\ UNCHANGED login
        /\ \A c \in Browser \ {b} : browser'[c] = browser[c]
        /\ browser[b].pc # "answered"
    BY <1>2 DEF Exchange, CallbackLookup
  <2>2. SentKept
    BY <2>1 DEF SentKept, HasSent
  <2> QED BY <2>1, <2>2, CalmToken DEF TokenInv
<1>3. ASSUME NEW b \in Browser, Rendezvous(b) PROVE TokenInv'
  <2>1. PICK k \in Login :
        /\ browser[b].pc = "send"
        /\ browser'[b].pc = "answered" /\ browser'[b].chan = k
        /\ browser'[b].outcome = browser[b].outcome
        /\ \A c \in Browser \ {b} : browser'[c] = browser[c]
        /\ login'[k].pc = "delete" /\ login'[k].got = browser[b].outcome
        /\ \A j \in Login \ {k} : login'[j] = login[j]
    BY <1>3 DEF Rendezvous
  <2>2. SentKept
    BY <2>1 DEF SentKept, HasSent
  <2>3. login'[k].got = "token" => HasSent(b, k)'
    BY <2>1 DEF HasSent
  <2>4. \A j \in Login \ {k} : login'[j].got = "token" => \E c \in Browser : HasSent(c, j)'
    BY <2>1, <2>2 DEF SentKept, TokenInv
  <2> QED BY <2>1, <2>3, <2>4 DEF TokenInv
<1>4. ASSUME Die PROVE TokenInv'
  <2>1. SentKept
    BY <1>4 DEF Die, SentKept, HasSent
  <2>2. ASSUME NEW k \in Login
        PROVE  /\ login'[k].got = "token" => login[k].got = "token"
               /\ login'[k].pc = "created" => login'[k].got = "token"
    BY <1>4 DEF Die, TokenInv
  <2> QED BY <2>1, <2>2, CalmToken
<1>5. ASSUME Done PROVE TokenInv'
  BY <1>5 DEF Done, vars, TokenInv, HasSent
<1> QED BY <1>1, <1>2, <1>3, <1>4, <1>5
        DEF Next, CreateStep, CallbackStep, ConcurrentMapFatal

LEMMA RendezvousKept ==
    ASSUME RendezvousInv, [Next]_vars
    PROVE  RendezvousInv'
<1>1. CASE Next
  BY <1>1, TypesKept, StateKept, ChannelsKept, TokenKept DEF RendezvousInv
<1>2. CASE UNCHANGED vars
  BY <1>2 DEF vars, RendezvousInv, TypeOK, StateInv, NoLeftoverChannel, TokenInv, HasSent
<1> QED BY <1>1, <1>2

(* The commands send requests; what the server does is AccessTokens.       *)
LEMMA LoginsSteps ==
    ASSUME [LoginsNext]_loginVars
    PROVE  [Next]_vars
<1>1. CASE UNCHANGED loginVars
  BY <1>1 DEF loginVars
<1>2. ASSUME NEW c \in Command, Post(c) PROVE [Next]_vars
  BY <1>2, LoginsAssumption DEF Post, Next
<1>3. CASE Server
  BY <1>3 DEF Server, Next
<1> QED BY <1>1, <1>2, <1>3
        DEF LoginsNext, Load, Set, AlreadyAuthenticated, Answered, Truncate, Write,
            StoreFails, Kill

LEMMA RendezvousRight == LoginsSpec => []RendezvousInv
<1>1. LoginsInit => RendezvousInv
  BY RendezvousInit DEF LoginsInit
<1>2. RendezvousInv /\ [LoginsNext]_loginVars => RendezvousInv'
  BY RendezvousKept, LoginsSteps
<1> QED BY <1>1, <1>2, PTL DEF LoginsSpec

(* The map holds channels or nothing, and a Callback that has found one    *)
(* never comes to send on a nil channel, where it would block for ever.    *)
THEOREM LoginsTyped == LoginsSpec => []TypeOK
<1>1. RendezvousInv => TypeOK
  BY DEF RendezvousInv
<1> QED BY <1>1, RendezvousRight, PTL

(* AccessTokens.Create removes its entry of the Callbacks map on every     *)
(* path, however many logins there are and whatever states they choose, as *)
(* long as no two of them write to the map at once.                        *)
THEOREM ChannelsRemoved == LoginsSpec => []NoLeftoverChannel
<1>1. RendezvousInv => NoLeftoverChannel
  BY DEF RendezvousInv
<1> QED BY <1>1, RendezvousRight, PTL

(* AccessTokens.Create answers 201 only with a token that a Callback sent  *)
(* on the channel of this very request: not on a timeout, and not on the   *)
(* channel of another login, also where accesses to the map meet.          *)
THEOREM CreatedByCallback == LoginsSpec => []CreatedFromCallback
<1>1. RendezvousInv => CreatedFromCallback
  BY DEF RendezvousInv, TokenInv, HasSent, CreatedFromCallback
<1> QED BY <1>1, RendezvousRight, PTL

-----------------------------------------------------------------------------
(***************************************************************************)
(* The commands and their file.                                            *)
(***************************************************************************)
Cfg == [setting : Setter \cup {NoValue}, token : Here \cup {NoValue}]
Over == {"new", "done", "failed"}
CommandPc == Over \cup {"loaded", "waiting", "truncate", "write"}

ClientType ==
    /\ file \in [state : {"missing", "empty", "whole", "torn"}, cfg : Cfg]
    /\ file.state = "missing" => file.cfg = Blank
    /\ command \in [Command -> [pc : CommandPc, cfg : Cfg, next : {"done", "loaded"}]]

LEMMA BlankType == Blank \in Cfg
BY DEF Blank, Cfg

LEMMA ChangedType ==
    ASSUME NEW g \in Cfg, NEW c \in Command
    PROVE  /\ Changed(g, c) \in Cfg
           /\ Changed(g, c).token = IF c \in Here THEN c ELSE g.token
BY DEF Changed, Cfg, Command

LEMMA NothingIs ==
    ASSUME NEW p
    PROVE  /\ Nothing(p).pc = p /\ Nothing(p).cfg = Blank /\ Nothing(p).next = "done"
           /\ p \in CommandPc =>
                Nothing(p) \in [pc : CommandPc, cfg : Cfg, next : {"done", "loaded"}]
BY BlankType DEF Nothing

(* Command c becomes r.                                                    *)
Moves(c, r) ==
    /\ command' = [command EXCEPT ![c] = r]
    /\ r \in [pc : CommandPc, cfg : Cfg, next : {"done", "loaded"}]

(* What the steps of the commands do; c's new record, apart from its file. *)
LEMMA LoadIs ==
    ASSUME ClientType, NEW c \in Command, Load(c)
    PROVE  \E r : /\ Moves(c, r)
                  /\ r.cfg \in {Blank, file.cfg}
                  /\ \/ /\ file.state = "missing"
                        /\ r.pc = "truncate" /\ r.next = "loaded" /\ r.cfg = Blank
                     \/ file.state = "torn" /\ r.pc = "failed"
                     \/ /\ file.state \in {"empty", "whole"}
                        /\ r.pc = "loaded" /\ r.cfg = file.cfg
<1> DEFINE r1 == [Nothing("truncate") EXCEPT !.next = "loaded"]
           r2 == Nothing("failed")
           r3 == [Nothing("loaded") EXCEPT !.cfg = file.cfg]
           R == [pc : CommandPc, cfg : Cfg, next : {"done", "loaded"}]
<1>0. file.cfg \in Cfg /\ file.state \in {"missing", "empty", "whole", "torn"}
  BY DEF ClientType
<1>1. r1 \in R /\ r1.pc = "truncate" /\ r1.next = "loaded" /\ r1.cfg = Blank
  BY BlankType DEF Nothing, CommandPc
<1>2. r2 \in R /\ r2.pc = "failed" /\ r2.cfg = Blank
  BY NothingIs DEF CommandPc, Over
<1>3. r3 \in R /\ r3.pc = "loaded" /\ r3.cfg = file.cfg
  BY <1>0 DEF Nothing, CommandPc
<1> HIDE DEF r1, r2, r3
<1>4. CASE file.state = "missing"
  <2>1. command' = [command EXCEPT ![c] = r1]
    BY <1>4 DEF Load, Become, r1
  <2> QED BY <1>1, <1>4, <2>1 DEF Moves
<1>5. CASE file.state = "torn"
  <2>1. command' = [command EXCEPT ![c] = r2]
    BY <1>5 DEF Load, End, Become, r2
  <2> QED BY <1>2, <1>5, <2>1 DEF Moves
<1>6. CASE file.state \in {"empty", "whole"}
  <2>1. command' = [command EXCEPT ![c] = r3]
    BY <1>6 DEF Load, Become, r3
  <2> QED BY <1>3, <1>6, <2>1 DEF Moves
<1> QED BY <1>0, <1>4, <1>5, <1>6

LEMMA StoreIs ==
    ASSUME ClientType, NEW c \in Command, Store(c)
    PROVE  \E r : /\ Moves(c, r)
                  /\ r.pc = "truncate" /\ r.next = "done"
                  /\ r.cfg = Changed(command[c].cfg, c)
<1> DEFINE x == Changed(command[c].cfg, c)
           r == [command[c] EXCEPT !.pc = "truncate", !.next = "done", !.cfg = x]
<1>1. command[c] \in [pc : CommandPc, cfg : Cfg, next : {"done", "loaded"}]
  BY DEF ClientType
<1>2. x \in Cfg
  BY <1>1, ChangedType
<1>3. command' = [command EXCEPT ![c] = r]
  BY DEF Store, Become
<1> HIDE DEF x
<1>4. /\ r \in [pc : CommandPc, cfg : Cfg, next : {"done", "loaded"}]
      /\ r.pc = "truncate" /\ r.next = "done" /\ r.cfg = x
  BY <1>1, <1>2 DEF CommandPc
<1> QED BY <1>3, <1>4 DEF Moves, x

LEMMA GoToIs ==
    ASSUME ClientType, NEW c \in Command, NEW p \in CommandPc, GoTo(c, p)
    PROVE  \E r : /\ Moves(c, r)
                  /\ r.pc = p /\ r.next = command[c].next /\ r.cfg = command[c].cfg
<1> DEFINE r == [command[c] EXCEPT !.pc = p]
<1>1. command[c] \in [pc : CommandPc, cfg : Cfg, next : {"done", "loaded"}]
  BY DEF ClientType
<1>2. command' = [command EXCEPT ![c] = r]
  BY DEF GoTo, Become
<1>3. /\ r \in [pc : CommandPc, cfg : Cfg, next : {"done", "loaded"}]
      /\ r.pc = p /\ r.next = command[c].next /\ r.cfg = command[c].cfg
  BY <1>1
<1> QED BY <1>2, <1>3 DEF Moves

LEMMA EndIs ==
    ASSUME ClientType, NEW c \in Command, NEW p \in Over, End(c, p)
    PROVE  \E r : Moves(c, r) /\ r.pc = p /\ r.cfg = Blank
<1>1. p \in CommandPc
  BY DEF CommandPc
<1> QED BY <1>1, NothingIs DEF End, Become, Moves

-----------------------------------------------------------------------------
RealToken(t) == t # NoValue => login[t].pc = "created"

TokensInv == RealToken(file.cfg.token) /\ \A c \in Command : RealToken(command[c].cfg.token)

ClientInv == ClientType /\ TokensInv

LEMMA CommandType ==
    ASSUME ClientType, NEW c \in Command
    PROVE  /\ command[c] \in [pc : CommandPc, cfg : Cfg, next : {"done", "loaded"}]
           /\ command[c].cfg \in Cfg /\ file.cfg \in Cfg
           /\ command[c].cfg.token \in Login \cup {NoValue}
           /\ file.cfg.token \in Login \cup {NoValue}
BY LoginsAssumption DEF ClientType, Cfg

LEMMA BlankReal == RealToken(Blank.token) /\ RealToken(Blank.token)'
BY DEF RealToken, Blank

(* A login that has its token keeps it. *)
LEMMA CreatedKept ==
    ASSUME TypeOK, [Next]_vars, NEW t \in Login \cup {NoValue}, RealToken(t)
    PROVE  RealToken(t)'
<1> SUFFICES ASSUME t # NoValue PROVE login'[t].pc = "created"
  BY DEF RealToken
<1>0. t \in Login /\ login[t].pc = "created"
  BY DEF RealToken
<1>1. CASE UNCHANGED vars
  BY <1>0, <1>1 DEF vars
<1>2. ASSUME NEW l \in Login, CreateStep(l) \/ \E s \in State : CreateBegin(l, s)
      PROVE  login'[t].pc = "created"
  BY <1>0, <1>2 DEF CreateStep, CreateBegin, CreateStore, CreateTimeout, DeleteBegin,
                    CreateDelete, TypeOK
<1>3. ASSUME NEW b \in Browser, CallbackStep(b) \/ \E s \in State : CallbackLookup(b, s)
      PROVE  login'[t].pc = "created"
  BY <1>0, <1>3 DEF CallbackStep, Exchange, Rendezvous, CallbackLookup, TypeOK
<1>4. CASE Die
  BY <1>0, <1>4 DEF Die
<1>5. CASE Done
  BY <1>0, <1>5 DEF Done, vars
<1> QED BY <1>1, <1>2, <1>3, <1>4, <1>5 DEF Next, ConcurrentMapFatal

(* A step of a command keeps the invariant when what it makes of the file  *)
(* and of itself does.                                                     *)
LEMMA MoveInv ==
    ASSUME TypeOK, [Next]_vars, ClientInv, NEW c \in Command, NEW r, Moves(c, r),
           file' \in [state : {"missing", "empty", "whole", "torn"}, cfg : Cfg],
           file'.state = "missing" => file'.cfg = Blank,
           RealToken(r.cfg.token)', RealToken(file.cfg.token)'
    PROVE  ClientInv'
<1>0. ClientType
  BY DEF ClientInv
<1>1. command'[c] = r /\ \A d \in Command \ {c} : command'[d] = command[d]
  BY <1>0 DEF Moves, ClientType
<1>2. ClientType'
  <2>1. command' \in [Command -> [pc : CommandPc, cfg : Cfg, next : {"done", "loaded"}]]
    BY <1>0 DEF Moves, ClientType
  <2> QED BY <2>1 DEF ClientType
<1>3. TokensInv'
  <2>1. ASSUME NEW d \in Command PROVE RealToken(command[d].cfg.token)' 
    <3>1. CASE d = c
      BY <1>1, <3>1 DEF RealToken
    <3>2. CASE d # c
      <4>1. PICK t \in Login \cup {NoValue} : t = command[d].cfg.token
        BY <1>0, CommandType
      <4>2. RealToken(t)
        BY <4>1 DEF ClientInv, TokensInv, RealToken
      <4>3. RealToken(t)'
        BY <4>2, CreatedKept
      <4> QED BY <1>1, <3>2, <4>1, <4>3 DEF RealToken
    <3> QED BY <3>1, <3>2
  <2> QED BY <2>1 DEF TokensInv, RealToken
<1> QED BY <1>2, <1>3 DEF ClientInv

(* The tokens of the file and of a command stay real. *)
LEMMA TokensStayReal ==
    ASSUME TypeOK, [Next]_vars, ClientInv, NEW c \in Command,
           NEW t \in {file.cfg.token, command[c].cfg.token}
    PROVE  RealToken(t)'
BY CommandType, CreatedKept DEF ClientInv, TokensInv

LEMMA LoadInv ==
    ASSUME TypeOK, [Next]_vars, ClientInv, NEW c \in Command, Load(c)
    PROVE  ClientInv'
<1>0. ClientType /\ file' = file
  BY DEF Load, ClientInv
<1>1. PICK r : Moves(c, r) /\ r.cfg \in {Blank, file.cfg}
  BY <1>0, LoadIs
<1>2. RealToken(r.cfg.token)' /\ RealToken(file.cfg.token)'
  <2>1. PICK t : t = file.cfg.token /\ RealToken(t)'
    BY TokensStayReal
  <2>2. r.cfg.token \in {Blank.token, t}
    BY <1>1, <2>1
  <2> QED BY <1>0, <2>1, <2>2, BlankReal DEF RealToken
<1>3. file' \in [state : {"missing", "empty", "whole", "torn"}, cfg : Cfg]
      /\ (file'.state = "missing" => file'.cfg = Blank)
  BY <1>0 DEF ClientType
<1> QED BY <1>1, <1>2, <1>3, MoveInv

(* A step that only moves a running command on. *)
LEMMA QuietInv ==
    ASSUME TypeOK, [Next]_vars, ClientInv, NEW c \in Command, NEW r, Moves(c, r),
           UNCHANGED file, RealToken(r.cfg.token)'
    PROVE  ClientInv'
<1>1. RealToken(file.cfg.token)'
  <2>1. PICK t : t = file.cfg.token /\ RealToken(t)'
    BY TokensStayReal
  <2> QED BY <2>1 DEF RealToken
<1>2. ClientType
  BY DEF ClientInv
<1>3. /\ file' \in [state : {"missing", "empty", "whole", "torn"}, cfg : Cfg]
      /\ file'.state = "missing" => file'.cfg = Blank
  BY <1>2 DEF ClientType
<1> QED BY <1>1, <1>3, MoveInv

LEMMA StoreInv ==
    ASSUME TypeOK, [Next]_vars, ClientInv, NEW c \in Command, Store(c), UNCHANGED file,
           c \in Here => login'[c].pc = "created"
    PROVE  ClientInv'
<1>0. ClientType /\ command[c].cfg \in Cfg
  BY CommandType DEF ClientInv
<1>1. PICK r : /\ Moves(c, r)
               /\ r.pc = "truncate" /\ r.next = "done"
               /\ r.cfg = Changed(command[c].cfg, c)
  BY <1>0, StoreIs
<1>2. RealToken(r.cfg.token)'
  <2>1. PICK t : t = command[c].cfg.token /\ RealToken(t)'
    BY TokensStayReal
  <2>2. r.cfg.token = IF c \in Here THEN c ELSE t
    BY <1>0, <1>1, <2>1, ChangedType
  <2> QED BY <2>1, <2>2 DEF RealToken
<1> QED BY <1>1, <1>2, QuietInv

(* A command that ends and leaves the file alone *)
LEMMA EndInv ==
    ASSUME TypeOK, [Next]_vars, ClientInv, NEW c \in Command, NEW p \in Over, End(c, p),
           UNCHANGED file
    PROVE  ClientInv'
<1>1. PICK r : Moves(c, r) /\ r.pc = p /\ r.cfg = Blank
  BY EndIs DEF ClientInv
<1>2. RealToken(r.cfg.token)'
  BY <1>1, BlankReal DEF RealToken
<1> QED BY <1>1, <1>2, QuietInv

LEMMA PostInv ==
    ASSUME TypeOK, [Next]_vars, ClientInv, NEW c \in Command, Post(c)
    PROVE  ClientInv'
<1>1. CASE End(c, "failed")
  BY <1>1, EndInv DEF Post, Over
<1>2. CASE GoTo(c, "waiting")
  <2>1. PICK r : /\ Moves(c, r)
                 /\ r.pc = "waiting" /\ r.next = command[c].next /\ r.cfg = command[c].cfg
    BY <1>2, GoToIs DEF ClientInv, CommandPc
  <2>2. RealToken(r.cfg.token)'
    BY <2>1, TokensStayReal
  <2> QED BY <2>1, <2>2, QuietInv DEF Post
<1> QED BY <1>1, <1>2 DEF Post

LEMMA TruncateInv ==
    ASSUME TypeOK, [Next]_vars, ClientInv, NEW c \in Command, Truncate(c)
    PROVE  ClientInv'
<1>0. ClientType /\ file' = [state |-> "empty", cfg |-> Blank]
  BY DEF Truncate, ClientInv
<1>1. PICK r : /\ Moves(c, r)
               /\ r.pc = "write" /\ r.next = command[c].next /\ r.cfg = command[c].cfg
  BY <1>0, GoToIs DEF Truncate, CommandPc
<1>2. RealToken(r.cfg.token)' /\ RealToken(file.cfg.token)'
  <2>1. file'.cfg.token = Blank.token
    BY <1>0
  <2> QED BY <1>1, <2>1, TokensStayReal, BlankReal DEF RealToken
<1>3. /\ file' \in [state : {"missing", "empty", "whole", "torn"}, cfg : Cfg]
      /\ file'.state = "empty"
  BY <1>0, BlankType
<1> QED BY <1>1, <1>2, <1>3, MoveInv

LEMMA WriteInv ==
    ASSUME TypeOK, [Next]_vars, ClientInv, NEW c \in Command, Write(c)
    PROVE  ClientInv'
<1> DEFINE g == command[c].cfg
<1>0. /\ ClientType
      /\ command[c].next \in {"done", "loaded"} /\ g \in Cfg
  BY CommandType DEF ClientInv
<1>1. /\ file' \in [state : {"missing", "empty", "whole", "torn"}, cfg : Cfg]
      /\ file'.state # "missing"
      /\ file'.cfg \in {g, Blank}
  BY <1>0, BlankType DEF Write
<1>2. RealToken(file.cfg.token)'
  <2>1. PICK t : t = command[c].cfg.token /\ RealToken(t)'
    BY TokensStayReal
  <2>2. file'.cfg.token \in {t, Blank.token}
    BY <1>1, <2>1
  <2> QED BY <2>1, <2>2, BlankReal DEF RealToken
<1>3. CASE command[c].next = "done"
  <2>1. PICK r : Moves(c, r) /\ r.pc = "done" /\ r.cfg = Blank
    BY <1>0, <1>3, EndIs DEF Write, Over
  <2>2. RealToken(r.cfg.token)'
    BY <2>1, BlankReal DEF RealToken
  <2> QED BY <1>1, <1>2, <2>1, <2>2, MoveInv
<1>4. CASE command[c].next = "loaded"
  <2>1. PICK r : /\ Moves(c, r)
                 /\ r.pc = "loaded" /\ r.next = "loaded" /\ r.cfg = command[c].cfg
    BY <1>0, <1>4, GoToIs DEF Write, CommandPc
  <2>2. RealToken(r.cfg.token)'
    BY <2>1, TokensStayReal
  <2> QED BY <1>1, <1>2, <2>1, <2>2, MoveInv
<1> QED BY <1>0, <1>3, <1>4

LEMMA StoreFailsInv ==
    ASSUME TypeOK, [Next]_vars, ClientInv, NEW c \in Command, StoreFails(c)
    PROVE  ClientInv'
<1> DEFINE n == [command[c].cfg EXCEPT !.token = NoValue]
<1>0. ClientType /\ End(c, "failed")
  BY DEF ClientInv, StoreFails
<1>1. CASE UNCHANGED file
  BY <1>0, <1>1, EndInv DEF Over
<1>2. CASE file' # file
  <2>1. /\ n \in Cfg /\ n.token = NoValue
        /\ Blank \in Cfg /\ Blank.token = NoValue
    BY <1>0, CommandType DEF Cfg, Blank
  <2>2. /\ file' \in [state : {"missing", "empty", "whole", "torn"}, cfg : Cfg]
        /\ file'.state # "missing"
        /\ file'.cfg.token = NoValue
    <3>1. file' \in {[state |-> "torn", cfg |-> Blank]}
                      \cup [state : {"whole"}, cfg : {Blank, n}]
      BY <1>2 DEF StoreFails
    <3> HIDE DEF n
    <3> QED BY <2>1, <3>1
  <2>3. PICK r : Moves(c, r) /\ r.pc = "failed" /\ r.cfg = Blank
    BY <1>0, EndIs DEF Over
  <2>4. RealToken(r.cfg.token)' /\ RealToken(file.cfg.token)'
    BY <2>2, <2>3, BlankReal DEF RealToken
  <2> QED BY <2>2, <2>3, <2>4, MoveInv
<1> QED BY <1>1, <1>2

LEMMA ServerInv ==
    ASSUME TypeOK, [Next]_vars, ClientInv, UNCHANGED clientVars
    PROVE  ClientInv'
<1>1. ClientType /\ UNCHANGED <<file, command>>
  BY DEF ClientInv, clientVars
<1>2. ClientType'
  BY <1>1 DEF ClientType
<1>3. file.cfg.token \in Login \cup {NoValue}
  BY <1>1, LoginsAssumption DEF ClientType, Cfg
<1>4. PICK t \in Login \cup {NoValue} : t = file.cfg.token
  BY <1>3
<1>5. RealToken(t)'
  BY <1>4, CreatedKept DEF ClientInv, TokensInv
<1>6. ASSUME NEW c \in Command PROVE RealToken(command[c].cfg.token)'
  BY <1>1, TokensStayReal DEF RealToken
<1>7. TokensInv'
  BY <1>1, <1>4, <1>5, <1>6 DEF TokensInv, RealToken
<1> QED BY <1>2, <1>7 DEF ClientInv

LEMMA ClientKept ==
    ASSUME TypeOK, ClientInv, [LoginsNext]_loginVars
    PROVE  ClientInv'
<1>0. [Next]_vars
  BY LoginsSteps
<1>1. CASE UNCHANGED clientVars
  BY <1>0, <1>1, ServerInv
<1>2. ASSUME NEW c \in Command, Set(c) PROVE ClientInv'
  <2>1. c \notin Here /\ Store(c)
    BY <1>2, LoginsAssumption DEF Set
  <2> QED BY <1>0, <1>2, <2>1, StoreInv DEF Set
<1>3. ASSUME NEW c \in Command, AlreadyAuthenticated(c) \/ Kill(c) PROVE ClientInv'
  BY <1>0, <1>3, EndInv DEF AlreadyAuthenticated, Kill, Over
<1>4. ASSUME NEW c \in Command, Answered(c) PROVE ClientInv'
  <2>1. CASE login[c].pc = "created"
    BY <1>0, <1>4, <2>1, StoreInv DEF Answered, vars
  <2>2. CASE login[c].pc # "created"
    BY <1>0, <1>4, <2>2, EndInv DEF Answered, Over
  <2> QED BY <2>1, <2>2
<1> QED BY <1>0, <1>1, <1>2, <1>3, <1>4, LoadInv, PostInv, TruncateInv, WriteInv, StoreFailsInv
        DEF LoginsNext, loginVars

LEMMA ClientStarts == LoginsInit => ClientInv
<1> SUFFICES ASSUME LoginsInit PROVE ClientInv
  OBVIOUS
<1>1. /\ \A c \in Command : command[c].cfg = Blank
      /\ command \in [Command -> [pc : CommandPc, cfg : Cfg, next : {"done", "loaded"}]]
  BY NothingIs DEF LoginsInit, CommandPc, Over
<1>2. file.state = "missing" /\ file.cfg = Blank
  BY DEF LoginsInit
<1>3. ClientType
  BY <1>1, <1>2, BlankType DEF ClientType, LoginsInit
<1>4. TokensInv
  BY <1>1, <1>2, BlankReal DEF TokensInv
<1> QED BY <1>3, <1>4 DEF ClientInv

LEMMA ClientRight == LoginsSpec => []ClientInv
<1>1. TypeOK /\ ClientInv /\ [LoginsNext]_loginVars => ClientInv'
  BY ClientKept
<1> QED BY <1>1, ClientStarts, LoginsTyped, PTL DEF LoginsSpec

(* However commands overlap, are killed, fail or find the file torn, and   *)
(* whether or not the server dies: a token in ~/.draupnir, or about to be  *)
(* stored, is one the server has answered with 201.                        *)
THEOREM TokensReal == LoginsSpec => []TokenIsReal
<1>1. ClientInv => TokenIsReal
  BY DEF ClientInv, TokensInv, RealToken, TokenIsReal, Settings
<1> QED BY <1>1, ClientRight, PTL
=============================================================================
