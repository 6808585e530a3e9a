---------------------------- MODULE AccessTokens ----------------------------
(***************************************************************************)
(* The OAuth rendezvous of pkg/server/api/routes/access_tokens.go.  The    *)
(* command line client posts a state to Create, which stores a new channel *)
(* under that state in the Callbacks map and waits on it for at most a     *)
(* minute.  The user's browser is redirected to Callback with the same     *)
(* state; Callback exchanges the code and sends the outcome on the channel *)
(* it finds in the map.  The channel is unbuffered: sending blocks until   *)
(* somebody receives, with no timeout.                                     *)
(*                                                                         *)
(* A channel is named by the Create request that made it.  The map is not  *)
(* protected by a lock: a write takes two steps, and when another access   *)
(* falls in between the Go runtime may end the process ("concurrent map    *)
(* writes").  When it does not notice, a read may miss an entry that is    *)
(* there, and two writes leave anything behind: entries that are lost or   *)
(* stay, or the key of one write with the channel of another.              *)
(***************************************************************************)
CONSTANTS
    Login,          \* POST /access_tokens requests
    Browser,        \* GET /oauth_callback requests
    State,          \* values of the state parameter
    NoChan          \* the nil channel

VARIABLES
    callbacks,      \* [State -> the channel stored under it, or NoChan]
    writing,        \* requests in the middle of a write to the map
    overlapped,     \* two writes have met since the process started
    login,          \* [Login -> pc and state of the Create request]
    browser         \* [Browser -> pc, channel and outcome of the Callback request]

vars == <<callbacks, writing, overlapped, login, browser>>

NoState == "no state"

ASSUME AccessTokensAssumption == NoChan \notin Login /\ NoState \notin State

LoginPc == {"new", "store", "wait", "delete", "remove", "created", "refused", "lost"}
BrowserPc == {"new", "exchange", "send", "answered", "lost"}
Outcome == {"token", "error"}

TypeOK ==
    /\ callbacks \in [State -> Login \cup {NoChan}]
    /\ writing \subseteq Login
    /\ overlapped \in BOOLEAN
    /\ login \in [Login -> [pc : LoginPc, state : State \cup {NoState},
                            got : Outcome \cup {"nothing"}]]
    /\ browser \in [Browser -> [pc : BrowserPc, chan : Login \cup {NoChan},
                                outcome : Outcome \cup {"nothing"}]]
    /\ \A b \in Browser : browser[b].pc \in {"exchange", "send"} => browser[b].chan # NoChan

Init ==
    /\ callbacks = [s \in State |-> NoChan]
    /\ writing = {}
    /\ overlapped = FALSE
    /\ login = [l \in Login |-> [pc |-> "new", state |-> NoState, got |-> "nothing"]]
    /\ browser = [b \in Browser |->
                    [pc |-> "new", chan |-> NoChan, outcome |-> "nothing"]]

-----------------------------------------------------------------------------
(* The process dies: every request in progress is lost, the map is empty.  *)
Die ==
    /\ callbacks' = [s \in State |-> NoChan]
    /\ writing' = {}
    /\ overlapped' = FALSE
    /\ login' = [l \in Login |->
                   IF login[l].pc \in {"new", "created", "refused"}
                     THEN login[l] ELSE [login[l] EXCEPT !.pc = "lost"]]
    /\ browser' = [b \in Browser |->
                     IF browser[b].pc \in {"new", "answered"}
                       THEN browser[b] ELSE [browser[b] EXCEPT !.pc = "lost"]]

(* The runtime noticed two unsynchronised accesses, one of them a write.   *)
ConcurrentMapFatal ==
    /\ writing # {}
    /\ overlapped \/ \E b \in Browser : browser[b].pc = "new"
    /\ Die

(* A write to the map begins, ...                                          *)
WriteBegin(l) ==
    /\ writing' = writing \cup {l}
    /\ overlapped' = (overlapped \/ writing # {})

(* ... and ends: the map is m, unless writes have met.                     *)
WriteEnd(l, m) ==
    /\ writing' = writing \ {l}
    /\ UNCHANGED overlapped
    /\ LET made == {k \in Login : login[k].pc \in {"store", "wait", "delete", "remove"}}
       IN  IF overlapped
             THEN callbacks' \in [State -> made \cup {callbacks[s] : s \in State} \cup {NoChan}]
             ELSE callbacks' = m

(* AccessTokens.Create.  The state is the client's choice: nothing keeps   *)
(* two logins from using the same one.                                     *)
CreateBegin(l, s) ==
    /\ login[l].pc = "new"
    /\ login' = [login EXCEPT ![l].pc = "store", ![l].state = s]
    /\ WriteBegin(l)
    /\ UNCHANGED <<callbacks, browser>>

CreateStore(l) ==
    /\ login[l].pc = "store"
    /\ WriteEnd(l, [callbacks EXCEPT ![login[l].state] = l])
    /\ login' = [login EXCEPT ![l].pc = "wait"]
    /\ UNCHANGED browser

\* mutant of CreateTimeout: the zero token is returned without an error
CreateTimeoutNoError(l) ==
    /\ login[l].pc = "wait"
    /\ login' = [login EXCEPT ![l].pc = "delete", ![l].got = "token"]
    /\ UNCHANGED <<callbacks, writing, overlapped, browser>>

\* mutant of CreateTimeout: Create waits without a timeout
CreateTimeoutNever(l) == FALSE /\ l \in Login /\ UNCHANGED vars

(* waitForCallback: the minute is over *)
CreateTimeout(l) ==
    /\ login[l].pc = "wait"
    /\ login' = [login EXCEPT ![l].pc = "delete", ![l].got = "error"]
    /\ UNCHANGED <<callbacks, writing, overlapped, browser>>

(* delete(a.Callbacks, state): whatever channel is there by now *)
DeleteBegin(l) ==
    /\ login[l].pc = "delete"
    /\ WriteBegin(l)
    /\ login' = [login EXCEPT ![l].pc = "remove"]
    /\ UNCHANGED <<callbacks, browser>>

\* mutant of CreateDelete: the channel stays in the map when the login failed
CreateDeleteOnSuccess(l) ==
    /\ login[l].pc = "remove"
    /\ WriteEnd(l, IF login[l].got = "token"
                     THEN [callbacks EXCEPT ![login[l].state] = NoChan] ELSE callbacks)
    /\ login' = [login EXCEPT ![l].pc = IF login[l].got = "token" THEN "created"
                                                                  ELSE "refused"]
    /\ UNCHANGED browser

CreateDelete(l) ==
    /\ login[l].pc = "remove"
    /\ WriteEnd(l, [callbacks EXCEPT ![login[l].state] = NoChan])
    /\ login' = [login EXCEPT ![l].pc = IF login[l].got = "token" THEN "created"
                                                                  ELSE "refused"]
    /\ UNCHANGED browser

-----------------------------------------------------------------------------
\* mutant of CallbackLookup: no check for a nil channel
CallbackLookupUnchecked(b, s) ==
    /\ browser[b].pc = "new"
    /\ \E l \in Login : login[l].state = s
    /\ browser' = [browser EXCEPT ![b] =
                     [pc |-> "exchange", chan |-> callbacks[s], outcome |-> "nothing"]]
    /\ UNCHANGED <<callbacks, writing, overlapped, login>>

(* AccessTokens.Callback: the lookup.  An error or no code in the query is *)
(* sent on at once; a code is exchanged first.                             *)
CallbackLookup(b, s) ==
    /\ browser[b].pc = "new"
    /\ \E l \in Login : login[l].state = s
    /\ \E ch \in {callbacks[s]} \cup (IF writing = {} THEN {} ELSE {NoChan}) :
         IF ch = NoChan
           THEN browser' = [browser EXCEPT ![b].pc = "answered"]
           ELSE \/ browser' = [browser EXCEPT ![b] =
                      [pc |-> "exchange", chan |-> ch, outcome |-> "nothing"]]
                \/ browser' = [browser EXCEPT ![b] =
                      [pc |-> "send", chan |-> ch, outcome |-> "error"]]
    /\ UNCHANGED <<callbacks, writing, overlapped, login>>

(* ExchangeAuthCodeForToken: a token with a refresh token, or an error     *)
(* (exchange failed, five seconds passed, token without one was revoked).  *)
Exchange(b) ==
    /\ browser[b].pc = "exchange"
    /\ \E o \in Outcome :
         browser' = [browser EXCEPT ![b].pc = "send", ![b].outcome = o]
    /\ UNCHANGED <<callbacks, writing, overlapped, login>>

(* callback <- OAuthCallback{...} meets <-callbackChan *)
Rendezvous(b) ==
    /\ browser[b].pc = "send"
    /\ login[browser[b].chan].pc = "wait"
    /\ login' = [login EXCEPT ![browser[b].chan].pc = "delete",
                              ![browser[b].chan].got = browser[b].outcome]
    /\ browser' = [browser EXCEPT ![b].pc = "answered"]
    /\ UNCHANGED <<callbacks, writing, overlapped>>

-----------------------------------------------------------------------------
CreateStep(l) ==
    \/ CreateStore(l) \/ CreateTimeout(l) \/ DeleteBegin(l) \/ CreateDelete(l)

CallbackStep(b) == Exchange(b) \/ Rendezvous(b)

(* Requests that are over; clients need not send any. *)
Done ==
    /\ \A l \in Login : login[l].pc \in {"created", "refused", "lost"}
    /\ UNCHANGED vars

Next ==
    \/ \E l \in Login : CreateStep(l) \/ \E s \in State : CreateBegin(l, s)
    \/ \E b \in Browser : CallbackStep(b) \/ \E s \in State : CallbackLookup(b, s)
    \/ ConcurrentMapFatal
    \/ Done

Spec == Init /\ [][Next]_vars

-----------------------------------------------------------------------------
(* The map holds no channel of a request that is over: entries are removed *)
(* on every path, also after a process that died in between, and whatever  *)
(* states the logins share.  (Two writes at once may undo a removal.)      *)
NoLeftoverChannel ==
    ~overlapped => \A s \in State : callbacks[s] # NoChan
        => login[callbacks[s]].pc \in {"wait", "delete", "remove"}

(* 201 is the answer to a token that some Callback sent on this request's  *)
(* own channel, whatever accesses to the map have met.  (Which channel the *)
(* Callback finds is another matter, with a shared state or a spoilt map.) *)
CreatedFromCallback ==
    \A l \in Login : login[l].pc = "created"
        => \E b \in Browser : /\ browser[b].pc = "answered"
                              /\ browser[b].chan = l
                              /\ browser[b].outcome = "token"

(* Every POST /access_tokens comes to an end, whatever became of its entry *)
(* of the map.                                                             *)
CreateEnds ==
    \A l \in Login : login[l].pc = "store"
        ~> login[l].pc \in {"created", "refused", "lost"}
=============================================================================
