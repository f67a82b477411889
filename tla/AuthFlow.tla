------------------------------ MODULE AuthFlow ------------------------------
(***************************************************************************)
(* Signing in: the start of the program and the sign-in screen             *)
(* (crates/git-vacuum/src/main.rs, crates/git-vacuum-app/src/reduce.rs),   *)
(* the attempts at a token that run beside the loop                        *)
(* (crates/git-vacuum-service/src/auth_service.rs) and the OAuth device    *)
(* flows with their pollers, which nothing ever cancels.                   *)
(*                                                                         *)
(* A token lives in three places, the GitHub client, the keyring and, as   *)
(* the account it belongs to, the database.  Tasks run on several threads  *)
(* and every access to one of the three is an action.  The process may be  *)
(* left or killed at any moment and started again.                         *)
(*                                                                         *)
(* Left out: where the cursor is (Enter takes any entry), what an error    *)
(* says, the gh CLI entry, which only shows a hint, and signing out: the   *)
(* palette's selection never moves, so no key leads to "Log out".          *)
(***************************************************************************)
EXTENDS Integers, Sequences, FiniteSets

CONSTANTS Tokens,        \* access tokens
          NoToken,       \* no token, also the empty input
          Owner,         \* the account GitHub says a token belongs to
          NoUser,
          Typed,         \* bound: what may stand in the token field
          Granted,       \* bound: what a device flow may yield
          Given,         \* bound: the value of --token at a start
          KeyringFaults, \* may the keyring fail?
          DbFaults,      \* may the database fail?
          MaxPats,       \* bound: tokens submitted
          MaxFlows,      \* bound: device flows
          MaxBoots       \* bound: restarts

ASSUME TokensAssumption == NoToken \notin Tokens /\ NoUser \notin {Owner[t] : t \in Tokens}
ASSUME InputsAssumption ==
  Typed \subseteq Tokens \cup {NoToken} /\ Granted \subseteq Tokens /\ Given \subseteq Tokens \cup {NoToken}
ASSUME FaultsAssumption == KeyringFaults \in BOOLEAN /\ DbFaults \in BOOLEAN
ASSUME BoundsAssumption == MaxPats \in Nat /\ MaxFlows \in Nat /\ MaxBoots \in Nat

VARIABLES
  proc,      \* the process: start, loop, gone
  boots,     \* restarts so far
  session,   \* AppState::Running: who is signed in and by which attempt, or SignedOut
  screen,    \* AuthScreenState
  clientId,  \* is an OAuth client_id configured?
  client,    \* the GitHub client's token
  keyring,   \* the stored token
  accounts,  \* the table accounts
  valid,     \* the tokens GitHub accepts
  attempt,   \* attempt[a]: a token on its way through auth_service
  flow,      \* flow[f]: a device flow, its task and then its poller
  overdue,   \* device codes whose expires_in has passed
  appRx,     \* the application channel
  confirmed, \* history: tokens GitHub has accepted from this program
  rival      \* history: have attempts of this process been in each other's way?

processVars == <<proc, boots, clientId>>
stores == <<client, keyring, accounts>>
pollVars == <<flow, overdue>>
history == <<confirmed, rival>>
vars == <<processVars, session, screen, stores, valid, attempt, pollVars, appRx, history>>

Pats == 1 .. MaxPats
Flows == 1 .. MaxFlows
Startup == 0
CompletionOf(f) == MaxPats + f          \* the attempt at the token of flow f
Attempts == Startup .. MaxPats + MaxFlows
NoFlow == 0

SignedOut == [who |-> NoUser, by |-> Startup]
Signed == session # SignedOut

\* AuthScreenState::default
FreshScreen == [phase |-> "MethodPicker", loading |-> FALSE, last |-> "Pat", code |-> NoFlow]

Idle == [pc |-> "none", token |-> NoToken, asked |-> NoToken, stored |-> FALSE]
Ended == [Idle EXCEPT !.pc = "done"]
Begun(t) == [Idle EXCEPT !.pc = "install", !.token = t]
Lookup == [Idle EXCEPT !.pc = "read", !.stored = TRUE]
NoAttempts == [a \in Attempts |-> Idle]
NoFlows == [f \in Flows |-> "none"]

Event(kind, by, what) == [kind |-> kind, by |-> by, what |-> what]
Send(e) == appRx' = Append(appRx, e)

Busy(a) == attempt[a].pc \notin {"none", "done"}

\* A sign-in that is decided but not yet on the screen is still under way.
UnderWay ==
  \/ \E a \in Attempts : Busy(a)
  \/ \E k \in DOMAIN appRx : appRx[k].kind = "Succeeded"

\* Another attempt begins: beside one under way, or on top of a session.
NoteRival ==
  rival' = IF UnderWay \/ rival = "overlap" THEN "overlap"
           ELSE IF Signed \/ rival = "later" THEN "later"
           ELSE "none"

----------------------------------------------------------------------------
\* run_tui up to the loop, and the end of the process.

\* authenticate_pat for --token; load_stored_credentials in any case.
AtStart(t) == [NoAttempts EXCEPT ![Startup] = IF t = NoToken THEN Lookup ELSE Begun(t)]

Init ==
  /\ proc = "start" /\ boots = 0
  /\ clientId \in BOOLEAN
  /\ session = SignedOut
  /\ screen = FreshScreen
  /\ client = NoToken /\ keyring = NoToken /\ accounts = {}
  /\ valid = Tokens
  /\ \E t \in Given : attempt = AtStart(t)
  /\ flow = NoFlows /\ overdue = {}
  /\ appRx = <<>>
  /\ confirmed = {} /\ rival = "none"

\* Memory and tasks go with the process.
Blank ==
  /\ session' = SignedOut
  /\ screen' = FreshScreen
  /\ client' = NoToken
  /\ flow' = NoFlows /\ overdue' = {}
  /\ appRx' = <<>>
  /\ rival' = "none"
  /\ UNCHANGED <<keyring, accounts, valid, confirmed>>

\* 'q', Ctrl+C, or the process is killed.
Gone ==
  /\ proc # "gone"
  /\ proc' = "gone"
  /\ attempt' = NoAttempts
  /\ Blank
  /\ UNCHANGED <<boots, clientId>>

Boot(t) ==
  /\ proc = "gone"
  /\ boots < MaxBoots
  /\ boots' = boots + 1
  /\ proc' = "start"
  /\ clientId' \in BOOLEAN
  /\ attempt' = AtStart(t)
  /\ Blank

Conclude_AlwaysSucceeds(a, who) ==
  /\ attempt' = [attempt EXCEPT ![a] = Ended]
  /\ Send(Event("Succeeded", a, who))
  /\ proc' = "loop"
  /\ UNCHANGED session

\* The end of an attempt: who it signs in, if anybody.  A task reports; at the
\* start --token is followed by the look-up, and that by the loop.
Conclude(a, who) ==
  IF a # Startup
  THEN /\ attempt' = [attempt EXCEPT ![a] = Ended]
       /\ Send(Event(IF who = NoUser THEN "Failed" ELSE "Succeeded", a, who))
       /\ UNCHANGED <<proc, session>>
  ELSE /\ session' = IF who = NoUser THEN session ELSE [who |-> who, by |-> a]
       /\ attempt' = [attempt EXCEPT ![a] = IF attempt[a].stored THEN Ended ELSE Lookup]
       /\ proc' = IF attempt[a].stored THEN "loop" ELSE proc
       /\ UNCHANGED appRx

Proceed(a, pc) ==
  /\ attempt' = [attempt EXCEPT ![a].pc = pc]
  /\ UNCHANGED <<proc, session, appRx>>

\* What an attempt leaves alone.
Frame == UNCHANGED <<boots, clientId, screen, valid, pollVars>>

\* keyring.get_token: a token, none, or an error.
ReadStored ==
  /\ attempt[Startup].pc = "read"
  /\ \/ /\ keyring # NoToken
        /\ attempt' = [attempt EXCEPT ![Startup].pc = "install", ![Startup].token = keyring]
        /\ rival' = IF Signed THEN "later" ELSE rival
        /\ UNCHANGED <<proc, session, appRx>>
     \/ /\ keyring = NoToken \/ KeyringFaults
        /\ Conclude(Startup, NoUser)
        /\ UNCHANGED rival
  /\ UNCHANGED <<stores, confirmed>>
  /\ Frame

----------------------------------------------------------------------------
\* An attempt at a token: authenticate_pat, complete_oauth_with_token,
\* load_stored_credentials.

\* The token is installed in the client before anybody has looked at it.
Install(a) ==
  /\ attempt[a].pc = "install"
  /\ client' = attempt[a].token
  /\ Proceed(a, "ask")
  /\ UNCHANGED <<keyring, accounts, history>>
  /\ Frame

\* validate_token asks about the token the client has by then.
Ask(a) ==
  /\ attempt[a].pc = "ask"
  /\ attempt' = [attempt EXCEPT ![a].pc = "wait", ![a].asked = client]
  /\ UNCHANGED <<proc, session, appRx, stores, history>>
  /\ Frame

Answer_ErasesOnAnyError(a) ==
  /\ attempt[a].pc = "wait"
  /\ \/ /\ attempt[a].asked \in valid
        /\ confirmed' = confirmed \cup {attempt[a].asked}
        /\ Proceed(a, IF attempt[a].stored THEN "record" ELSE "keep")
     \/ /\ UNCHANGED confirmed
        /\ IF attempt[a].stored THEN Proceed(a, "erase") ELSE Conclude(a, NoUser)
  /\ UNCHANGED <<stores, rival>>
  /\ Frame

\* GET /user.  A network failure erases nothing.
Answer(a) ==
  /\ attempt[a].pc = "wait"
  /\ \/ /\ attempt[a].asked \in valid
        /\ confirmed' = confirmed \cup {attempt[a].asked}
        /\ Proceed(a, IF attempt[a].stored THEN "record" ELSE "keep")
     \/ /\ attempt[a].asked \notin valid /\ attempt[a].stored
        /\ Proceed(a, "erase")
        /\ UNCHANGED confirmed
     \/ /\ Conclude(a, NoUser)
        /\ UNCHANGED confirmed
  /\ UNCHANGED <<stores, rival>>
  /\ Frame

Keep_DropsError(a) ==
  /\ attempt[a].pc = "keep"
  /\ keyring' \in {attempt[a].token} \cup (IF KeyringFaults THEN {keyring} ELSE {})
  /\ Proceed(a, "record")
  /\ UNCHANGED <<client, accounts, history>>
  /\ Frame

\* keyring.set_token
Keep(a) ==
  /\ attempt[a].pc = "keep"
  /\ \/ keyring' = attempt[a].token /\ Proceed(a, "record")
     \/ KeyringFaults /\ Conclude(a, NoUser) /\ UNCHANGED keyring
  /\ UNCHANGED <<client, accounts, history>>
  /\ Frame

\* upsert_account, whose failure only a stored token survives.  What run_tui
\* writes once more after --token is the same again.
Record(a) ==
  /\ attempt[a].pc = "record"
  /\ \/ /\ accounts' = accounts \cup {Owner[attempt[a].asked]}
        /\ Conclude(a, Owner[attempt[a].asked])
     \/ /\ DbFaults
        /\ Conclude(a, IF attempt[a].stored THEN Owner[attempt[a].asked] ELSE NoUser)
        /\ UNCHANGED accounts
  /\ UNCHANGED <<client, keyring, history>>
  /\ Frame

\* keyring.delete_token, its error dropped.
Erase(a) ==
  /\ attempt[a].pc = "erase"
  /\ keyring' \in {NoToken} \cup (IF KeyringFaults THEN {keyring} ELSE {})
  /\ Proceed(a, "forget")
  /\ UNCHANGED <<client, accounts, history>>
  /\ Frame

\* clear_active_account: every account goes; its error is dropped.
Forget(a) ==
  /\ attempt[a].pc = "forget"
  /\ accounts' \in {{}} \cup (IF DbFaults THEN {accounts} ELSE {})
  /\ Conclude(a, NoUser)
  /\ UNCHANGED <<client, keyring, history>>
  /\ Frame

Try(a) == Install(a) \/ Ask(a) \/ Answer(a) \/ Keep(a) \/ Record(a) \/ Erase(a) \/ Forget(a)

----------------------------------------------------------------------------
\* The device flow: StartOAuthDeviceFlow and the poller it leaves behind.

PollFrame == UNCHANGED <<processVars, session, screen, stores, valid, attempt, history>>

FlowInit_DropsError(f) ==
  /\ flow[f] = "init"
  /\ \/ flow' = [flow EXCEPT ![f] = "sleep"] /\ Send(Event("Code", f, NoToken))
     \/ flow' = [flow EXCEPT ![f] = "done"] /\ UNCHANGED appRx
  /\ UNCHANGED overdue
  /\ PollFrame

\* device_flow_init: a code, or why there is none.
FlowInit(f) ==
  /\ flow[f] = "init"
  /\ \/ flow' = [flow EXCEPT ![f] = "sleep"] /\ Send(Event("Code", f, NoToken))
     \/ flow' = [flow EXCEPT ![f] = "done"] /\ Send(Event("FlowFailed", f, NoToken))
  /\ UNCHANGED overdue
  /\ PollFrame

\* start.elapsed() passes expires_in.
Clock(f) ==
  /\ flow[f] \in {"sleep", "asked"} /\ f \notin overdue
  /\ overdue' = overdue \cup {f}
  /\ UNCHANGED <<flow, appRx>>
  /\ PollFrame

Wake_IgnoresExpiry(f) ==
  /\ flow[f] = "sleep"
  /\ flow' = [flow EXCEPT ![f] = "asked"]
  /\ UNCHANGED <<appRx, overdue>>
  /\ PollFrame

\* The poller wakes: it gives up or asks again.
Wake(f) ==
  /\ flow[f] = "sleep"
  /\ \/ /\ f \in overdue
        /\ flow' = [flow EXCEPT ![f] = "done"]
        /\ Send(Event("Timeout", f, NoToken))
     \/ /\ f \notin overdue
        /\ flow' = [flow EXCEPT ![f] = "asked"]
        /\ UNCHANGED appRx
  /\ UNCHANGED overdue
  /\ PollFrame

PollAnswer_DropsDenial(f) ==
  /\ flow[f] = "asked"
  /\ \/ /\ flow' = [flow EXCEPT ![f] = "done"]
        /\ \/ \E t \in Granted : Send(Event("Token", f, t))
           \/ Send(Event("Timeout", f, NoToken))
           \/ UNCHANGED appRx
     \/ /\ flow' = [flow EXCEPT ![f] = "sleep"]
        /\ UNCHANGED appRx
  /\ UNCHANGED overdue
  /\ PollFrame

\* device_flow_poll: a token, expired, denied or a lasting error; or pending,
\* slow down or a passing error, and the poller sleeps again.
PollAnswer(f) ==
  /\ flow[f] = "asked"
  /\ \/ /\ flow' = [flow EXCEPT ![f] = "done"]
        /\ \/ \E t \in Granted : Send(Event("Token", f, t))
           \/ Send(Event("Timeout", f, NoToken))
           \/ Send(Event("FlowFailed", f, NoToken))
     \/ /\ flow' = [flow EXCEPT ![f] = "sleep"]
        /\ UNCHANGED appRx
  /\ UNCHANGED overdue
  /\ PollFrame

\* GitHub stops accepting a token; a token it never knew goes at once.
Revoke(t) ==
  /\ t \in valid
  /\ valid' = valid \ {t}
  /\ UNCHANGED <<processVars, session, screen, stores, attempt, pollVars, appRx, history>>

----------------------------------------------------------------------------
\* The loop: reduce_event, one event at a time.  A task a handler starts is
\* spawned once the channel is drained; what it does first commutes with the
\* events still to be drained, which touch the screen alone.

InAuth == proc = "loop" /\ ~Signed
OnScreen(fresh) == screen' = IF Signed THEN screen ELSE fresh

\* AuthSucceeded, whatever the state is.
HandleSucceeded(e) ==
  /\ e.kind = "Succeeded"
  /\ session' = [who |-> e.what, by |-> e.by]
  /\ screen' = FreshScreen
  /\ UNCHANGED <<attempt, rival>>

HandleFailed_KeepsPhase(e) ==
  /\ e.kind \in {"Failed", "FlowFailed"}
  /\ OnScreen([screen EXCEPT !.loading = FALSE])
  /\ UNCHANGED <<session, attempt, rival>>

\* AuthFailed, from an attempt or from a device flow.
HandleFailed(e) ==
  /\ e.kind \in {"Failed", "FlowFailed"}
  /\ OnScreen([screen EXCEPT !.phase = "AuthFailed", !.loading = FALSE])
  /\ UNCHANGED <<session, attempt, rival>>

\* OAuthCodeReceived
HandleCode(e) ==
  /\ e.kind = "Code"
  /\ OnScreen([screen EXCEPT !.phase = "CodePrompt", !.loading = FALSE, !.code = e.by])
  /\ UNCHANGED <<session, attempt, rival>>

\* OAuthTokenReceived: the token is completed even when somebody is signed in.
HandleToken(e) ==
  /\ e.kind = "Token"
  /\ OnScreen([screen EXCEPT !.phase = "Validating"])
  /\ attempt' = [attempt EXCEPT ![CompletionOf(e.by)] = Begun(e.what)]
  /\ NoteRival
  /\ UNCHANGED session

\* OAuthTimeout, of the flow on the screen or of an earlier one.
HandleTimeout(e) ==
  /\ e.kind = "Timeout"
  /\ OnScreen([screen EXCEPT !.phase = "AuthFailed", !.loading = FALSE, !.code = NoFlow])
  /\ UNCHANGED <<session, attempt, rival>>

Handle ==
  /\ proc = "loop" /\ appRx # <<>>
  /\ appRx' = Tail(appRx)
  /\ LET e == Head(appRx)
     IN HandleSucceeded(e) \/ HandleFailed(e) \/ HandleCode(e) \/ HandleToken(e) \/ HandleTimeout(e)
  /\ UNCHANGED <<processVars, stores, valid, pollVars, confirmed>>

----------------------------------------------------------------------------
\* The keys of the sign-in screen.

KeyFrame == UNCHANGED <<processVars, session, stores, valid, overdue, appRx, confirmed>>
NoTask == UNCHANGED <<attempt, flow, rival>>

\* "Personal Access Token", or "Try again" after one.
PickPat ==
  /\ InAuth
  /\ screen.phase = "MethodPicker" \/ (screen.phase = "AuthFailed" /\ screen.last = "Pat")
  /\ screen' = [screen EXCEPT !.phase = "PatInput", !.last = "Pat"]
  /\ NoTask
  /\ KeyFrame

\* A device flow begins, beside those under way, if there is a client_id.
StartOAuth ==
  IF clientId
  THEN \E f \in Flows :
         /\ flow[f] = "none" /\ \A g \in 1 .. f - 1 : flow[g] # "none"
         /\ flow' = [flow EXCEPT ![f] = "init"]
         /\ screen' = [screen EXCEPT !.phase = "Validating", !.loading = TRUE, !.last = "OAuth"]
  ELSE /\ screen' = [screen EXCEPT !.phase = "AuthFailed", !.last = "OAuth"]
       /\ UNCHANGED flow

\* "OAuth Device Flow", "Try again" after one, or 'o' at the token field.
PickOAuth ==
  /\ InAuth
  /\ \/ screen.phase \in {"MethodPicker", "PatInput"}
     \/ screen.phase = "AuthFailed" /\ screen.last = "OAuth"
  /\ StartOAuth
  /\ UNCHANGED <<attempt, rival>>
  /\ KeyFrame

\* Esc, and "Pick a different method": whatever is under way goes on.
Back ==
  /\ InAuth
  /\ screen.phase \in {"PatInput", "Validating", "CodeShown", "AuthFailed"}
  /\ screen' = [screen EXCEPT !.phase = "MethodPicker", !.loading = FALSE]
  /\ NoTask
  /\ KeyFrame

\* Enter at the token field.
Submit(t) ==
  /\ InAuth
  /\ screen.phase = "PatInput" /\ ~screen.loading
  /\ \/ /\ t = NoToken
        /\ screen' = [screen EXCEPT !.phase = "AuthFailed"]
        /\ NoTask
     \/ /\ t # NoToken
        /\ screen' = [screen EXCEPT !.phase = "Validating", !.loading = TRUE]
        /\ \E a \in Pats :
             /\ attempt[a] = Idle /\ \A b \in 1 .. a - 1 : attempt[b] # Idle
             /\ attempt' = [attempt EXCEPT ![a] = Begun(t)]
        /\ NoteRival
        /\ UNCHANGED flow
  /\ KeyFrame

\* Enter, 'o' or Esc on the prompt to open the browser.
DismissUrlPrompt ==
  /\ InAuth
  /\ screen.phase = "CodePrompt"
  /\ screen' = [screen EXCEPT !.phase = "CodeShown"]
  /\ NoTask
  /\ KeyFrame

Key == PickPat \/ PickOAuth \/ Back \/ (\E t \in Typed : Submit(t)) \/ DismissUrlPrompt

----------------------------------------------------------------------------
Poller(f) == FlowInit(f) \/ Wake(f) \/ PollAnswer(f)

Next ==
  \/ \E a \in Attempts : Try(a)
  \/ ReadStored
  \/ \E f \in Flows : Poller(f) \/ Clock(f)
  \/ \E t \in Tokens : Revoke(t)
  \/ Handle \/ Key
  \/ Gone \/ (\E t \in Given : Boot(t))

Spec == Init /\ [][Next]_vars

\* Requests and stores answer, time passes and the loop turns; nobody has to
\* press a key.
FairSpec ==
  /\ Spec
  /\ \A a \in Attempts : WF_vars(Try(a))
  /\ \A f \in Flows : WF_vars(Poller(f)) /\ WF_vars(Clock(f))
  /\ WF_vars(ReadStored) /\ WF_vars(Handle)

----------------------------------------------------------------------------
Phases == {"MethodPicker", "PatInput", "Validating", "CodePrompt", "CodeShown", "AuthFailed"}
AttemptPcs == {"none", "read", "install", "ask", "wait", "keep", "record", "erase", "forget", "done"}
Users == {Owner[t] : t \in Tokens} \cup {NoUser}
MaybeToken == Tokens \cup {NoToken}
Events ==
  {Event("Succeeded", a, u) : a \in Attempts, u \in Users \ {NoUser}}
  \cup {Event("Failed", a, NoUser) : a \in Attempts}
  \cup {Event(k, f, NoToken) : k \in {"Code", "Timeout", "FlowFailed"}, f \in Flows}
  \cup {Event("Token", f, t) : f \in Flows, t \in Tokens}

\* Every variable has its type (AuthScreenState, OAuthState, the events of
\* crates/git-vacuum-core/src/event.rs).
TypeOK ==
  /\ proc \in {"start", "loop", "gone"} /\ boots \in 0 .. MaxBoots /\ clientId \in BOOLEAN
  /\ session \in [who : Users, by : Attempts]
  /\ screen \in [phase : Phases, loading : BOOLEAN, last : {"Pat", "OAuth"}, code : Flows \cup {NoFlow}]
  /\ client \in MaybeToken /\ keyring \in MaybeToken /\ accounts \subseteq Users
  /\ valid \subseteq Tokens /\ confirmed \subseteq Tokens
  /\ attempt \in [Attempts -> [pc : AttemptPcs, token : MaybeToken, asked : MaybeToken, stored : BOOLEAN]]
  /\ flow \in [Flows -> {"none", "init", "sleep", "asked", "done"}] /\ overdue \subseteq Flows
  /\ appRx \in Seq(Events)
  /\ rival \in {"none", "later", "overlap"}

\* The sign-in screen never says it is waiting when nobody is working: a task
\* that leaves without an event, or an event that leaves the phase alone, would
\* hang the screen (reduce.rs:67, main.rs:677).
WaitingHasCause ==
  InAuth /\ (screen.phase = "Validating" \/ screen.loading) =>
    \/ \E a \in Attempts : Busy(a)
    \/ \E f \in Flows : flow[f] = "init"
    \/ appRx # <<>>

\* A device code stays on the screen only while somebody asks GitHub about it,
\* or the answer is on its way (main.rs:715, reduce.rs:911).
CodeOnScreenIsPolled ==
  InAuth /\ screen.phase \in {"CodePrompt", "CodeShown"} =>
    \/ flow[screen.code] \in {"sleep", "asked"}
    \/ \E k \in DOMAIN appRx : appRx[k].by = screen.code /\ appRx[k].kind \in {"Token", "Timeout", "FlowFailed"}

\* Once signed in, and unless attempts were in each other's way, the client and
\* the keyring hold one token, it belongs to the user on the screen, and a user
\* who signed in from the screen has an account row (auth_service.rs:11).
SignedInAgrees ==
  proc = "loop" /\ Signed /\ rival = "none" =>
    /\ client = keyring /\ client # NoToken
    /\ Owner[client] = session.who
    /\ session.by # Startup => session.who \in accounts

\* The keyring loses only a token GitHub no longer accepts and gains only one
\* it has accepted: not for a network failure, and not for a token nobody
\* checked, except when attempts overlap (auth_service.rs:28, 8).
KeyringStepIsEarned ==
  [][keyring' # keyring =>
       \/ keyring' = NoToken /\ keyring \notin valid
       \/ keyring' \in confirmed
       \/ rival = "overlap"]_vars

\* A poller nobody can cancel ends by itself, or with the process (main.rs:717).
PollerStops ==
  \A f \in Flows : (flow[f] \in {"sleep", "asked"}) ~> (flow[f] \in {"none", "done"})

\* Waiting for GitHub ends: with a screen to act on, a session or the end.
WaitingEnds == (InAuth /\ screen.phase = "Validating") ~> ~(InAuth /\ screen.phase = "Validating")
=============================================================================
