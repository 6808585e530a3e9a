------------------------------- MODULE Logins -------------------------------
(***************************************************************************)
(* "draupnir authenticate" and "draupnir config set" on one machine        *)
(* (cmd/draupnir, pkg/client/config), in front of the rendezvous of        *)
(* AccessTokens.  The commands of a user share the file ~/.draupnir and    *)
(* nothing guards it: each one loads it, changes what it is about, and     *)
(* stores all of it again by truncating the file and writing it anew;      *)
(* authenticate waits for the user's browser in between.                   *)
(*                                                                         *)
(* The command that authenticates is named like the request it sends, a    *)
(* setting and a token like the command they come from.  Commands that     *)
(* only load the file are left out.                                        *)
(***************************************************************************)
EXTENDS AccessTokens

CONSTANTS
    Here,           \* the logins of this machine; the others come from elsewhere
    Setter,         \* "config set" commands
    NoValue         \* a setting's default, and no token

ASSUME LoginsAssumption ==
    /\ Here \subseteq Login
    /\ Setter \cap Login = {}
    /\ NoValue \notin Login \cup Setter

Command == Here \cup Setter

VARIABLES
    file,           \* ~/.draupnir: "missing", "empty", "whole", or "torn" (the end of
                    \* a longer text follows a shorter one), and the settings in it
    command         \* [Command -> pc, the settings it holds, where its Store goes on to]

clientVars == <<file, command>>
loginVars == <<vars, clientVars>>

(* Domain and Database are set and kept in the same way: one field stands  *)
(* for both.                                                               *)
Blank == [setting |-> NoValue, token |-> NoValue]

(* A configuration with what command c is about. *)
Changed(cfg, c) == IF c \in Here THEN [cfg EXCEPT !.token = c]
                                 ELSE [cfg EXCEPT !.setting = c]

Nothing(l) == [pc |-> l, cfg |-> Blank, next |-> "done"]

LoginsInit ==
    /\ Init
    /\ file = [state |-> "missing", cfg |-> Blank]
    /\ command = [c \in Command |-> Nothing("new")]

Become(c, r) == command' = [command EXCEPT ![c] = r]
GoTo(c, l) == Become(c, [command[c] EXCEPT !.pc = l])
End(c, l) == Become(c, Nothing(l))

-----------------------------------------------------------------------------
(* config.Load, the first a command does.  A file that is not there is     *)
(* stored with the defaults; an empty one is read as the defaults.         *)
Load(c) ==
    /\ command[c].pc = "new"
    /\ CASE file.state = "missing" ->
              Become(c, [Nothing("truncate") EXCEPT !.next = "loaded"])
         [] file.state = "torn" -> End(c, "failed")
         [] file.state \in {"empty", "whole"} ->
              Become(c, [Nothing("loaded") EXCEPT !.cfg = file.cfg])
    /\ UNCHANGED <<file, vars>>

Store(c) == Become(c, [command[c] EXCEPT !.pc = "truncate", !.next = "done",
                                         !.cfg = Changed(@, c)])

Set(c) ==
    /\ c \in Setter
    /\ command[c].pc = "loaded"
    /\ Store(c)
    /\ UNCHANGED <<file, vars>>

(* There is a token, and no --force.  As in Post, the file has been read a *)
(* second time by then.                                                    *)
AlreadyAuthenticated(c) ==
    /\ c \in Here
    /\ command[c].pc = "loaded"
    /\ command[c].cfg.token # NoValue
    /\ End(c, IF file.state = "torn" THEN "failed" ELSE "done")
    /\ UNCHANGED <<file, vars>>

(* The state of the request is the first number of an unseeded generator:  *)
(* any other login may use the same.  The address of the server is read    *)
(* from the file a second time.                                            *)
Post(c) ==
    /\ c \in Here
    /\ command[c].pc = "loaded"
    /\ IF file.state = "torn"
         THEN End(c, "failed") /\ UNCHANGED vars
         ELSE GoTo(c, "waiting") /\ \E s \in State : CreateBegin(c, s)
    /\ UNCHANGED file

\* mutant of Answered: whatever the answer decodes to is taken for a token
AnsweredAnything(c) ==
    /\ c \in Here
    /\ command[c].pc = "waiting"
    /\ login[c].pc \in {"created", "refused"}
    /\ Store(c)
    /\ UNCHANGED <<file, vars>>

(* Only 201 is an answer with a token. *)
Answered(c) ==
    /\ c \in Here
    /\ command[c].pc = "waiting"
    /\ login[c].pc \in {"created", "refused", "lost"}
    /\ IF login[c].pc = "created" THEN Store(c) ELSE End(c, "failed")
    /\ UNCHANGED <<file, vars>>

(* config.Store: os.Create, ... *)
Truncate(c) ==
    /\ command[c].pc = "truncate"
    /\ file' = [state |-> "empty", cfg |-> Blank]
    /\ GoTo(c, "write")
    /\ UNCHANGED vars

(* ... and the text in one write, over what another command may have       *)
(* written since.                                                          *)
Write(c) ==
    /\ command[c].pc = "write"
    /\ \/ file' = [state |-> "whole", cfg |-> command[c].cfg]
       \/ /\ file.state # "empty" /\ file.cfg # command[c].cfg
          /\ file' = [state |-> "torn", cfg |-> Blank]
    /\ IF command[c].next = "done"
         THEN End(c, "done") ELSE GoTo(c, command[c].next)
    /\ UNCHANGED vars

(* Store returns an error: os.Create's, or that of a write of nothing or   *)
(* of a part of the text, after which the file is as os.Create left it,    *)
(* cannot be parsed, or ends before the token, which comes last.           *)
StoreFails(c) ==
    /\ \/ command[c].pc = "truncate" /\ UNCHANGED file
       \/ /\ command[c].pc = "write"
          /\ file' \in {file, [state |-> "torn", cfg |-> Blank]} \cup
                [state : {"whole"}, cfg : {Blank, [command[c].cfg EXCEPT !.token = NoValue]}]
    /\ End(c, "failed")
    /\ UNCHANGED vars

(* The user interrupts the command.  Before it has sent or stored anything *)
(* that is as if it had not been started.                                  *)
Kill(c) ==
    /\ command[c].pc \in {"waiting", "truncate", "write"}
    /\ End(c, "failed")
    /\ UNCHANGED <<file, vars>>

-----------------------------------------------------------------------------
Server ==
    \/ \E l \in Login : CreateStep(l)
    \/ \E l \in Login \ Here, s \in State : CreateBegin(l, s)
    \/ \E b \in Browser : CallbackStep(b) \/ \E s \in State : CallbackLookup(b, s)
    \/ ConcurrentMapFatal

LoginsNext ==
    \/ \E c \in Command :
         \/ Load(c) \/ Set(c) \/ AlreadyAuthenticated(c)
         \/ Post(c) \/ Answered(c) \/ Truncate(c) \/ Write(c)
         \/ StoreFails(c) \/ Kill(c)
    \/ Server /\ UNCHANGED clientVars

LoginsSpec == LoginsInit /\ [][LoginsNext]_loginVars

(* Create goes on when it can, and its minute passes; browsers and users   *)
(* need not do anything.                                                   *)
LoginsFairness ==
    \A l \in Login : WF_loginVars(CreateStep(l) /\ UNCHANGED clientVars)

-----------------------------------------------------------------------------
(* What the next command will load. *)
Settings == file.cfg

(* Whatever overlaps, fails or dies, a token in the file, or about to be   *)
(* stored, is one the server answered with 201, and so one that a Callback *)
(* sent to this very login (CreatedFromCallback).                          *)
TokenIsReal ==
    \A t \in {Settings.token} \cup {command[c].cfg.token : c \in Command} :
        t # NoValue => login[t].pc = "created"
=============================================================================
