--------------------------- MODULE AuthFlowProofs ---------------------------
(***************************************************************************)
(* Safety of the sign-in for any tokens and accounts, any number of        *)
(* attempts, device flows and restarts, with or without a failing keyring  *)
(* and database.  Each conjunct of IInv is shown to be preserved in a      *)
(* lemma of its own; the theorems at the end follow from IInv.             *)
(***************************************************************************)
EXTENDS AuthFlowInv, SequenceTheorems, TLAPS

----------------------------------------------------------------------------
(* The constants and the operators the model is built from *)

\* The attempt at the start is one of the attempts; those of the token field
\* and those of the device flows are others.
LEMMA ConstantFacts ==
  /\ Startup \in Attempts /\ Startup = 0 /\ NoFlow = 0
  /\ Pats \subseteq Attempts \ {Startup} /\ Flows \subseteq Nat \ {0}
  /\ \A f \in Flows : CompletionOf(f) \in Attempts \ {Startup}
BY BoundsAssumption DEF Startup, NoFlow, Pats, Flows, CompletionOf, Attempts

Screens == [phase : Phases, loading : BOOLEAN, last : {"Pat", "OAuth"}, code : Flows \cup {NoFlow}]
Records == [pc : AttemptPcs, token : MaybeToken, asked : MaybeToken, stored : BOOLEAN]

\* The records attempts are made of.
LEMMA RecordFacts ==
  /\ Idle \in Records /\ Idle.pc = "none" /\ ~Idle.stored
  /\ Ended \in Records /\ Ended.pc = "done" /\ ~Ended.stored
  /\ Lookup \in Records /\ Lookup.pc = "read" /\ Lookup.stored
  /\ \A t \in MaybeToken :
       Begun(t) \in Records /\ Begun(t).pc = "install" /\ Begun(t).token = t /\ ~Begun(t).stored
BY DEF Idle, Ended, Lookup, Begun, Records, AttemptPcs, MaybeToken

\* What kind of event carries what.
LEMMA EventFacts ==
  ASSUME NEW e \in Events
  PROVE  /\ e.kind \in {"Succeeded", "Failed", "Code", "Timeout", "FlowFailed", "Token"}
         /\ e.kind = "Succeeded" => e.by \in Attempts /\ e.what \in Users \ {NoUser}
         /\ e.kind \in {"Code", "Timeout", "FlowFailed", "Token"} => e.by \in Flows
         /\ e.kind = "Token" => e.what \in Tokens
BY DEF Events, Event

\* So is what an attempt reports, and good news is not bad news.
LEMMA EventKinds ==
  ASSUME NEW a \in Attempts, NEW who \in Users \ {NoUser}
  PROVE  /\ Event("Failed", a, NoUser) \in Events /\ Event("Succeeded", a, who) \in Events
         /\ Event("Failed", a, NoUser) # Event("Succeeded", a, who)
<1>1. Event("Succeeded", a, who) \in {Event("Succeeded", b, u) : b \in Attempts, u \in Users \ {NoUser}}
  OBVIOUS
<1>2. Event("Failed", a, NoUser) \in Events
  BY DEF Events
<1>3. Event("Failed", a, NoUser).kind # Event("Succeeded", a, who).kind
  BY DEF Event
<1>. QED  BY <1>1, <1>2, <1>3 DEF Events

\* What a device flow sends is an event.
LEMMA EventMembers ==
  ASSUME NEW f \in Flows
  PROVE  /\ \A k \in {"Code", "Timeout", "FlowFailed"} : Event(k, f, NoToken) \in Events
         /\ \A t \in Tokens : Event("Token", f, t) \in Events
<1>1. ASSUME NEW k \in {"Code", "Timeout", "FlowFailed"} PROVE Event(k, f, NoToken) \in Events
  <2>1. Event(k, f, NoToken) \in {Event(l, g, NoToken) : l \in {"Code", "Timeout", "FlowFailed"}, g \in Flows}
    OBVIOUS
  <2>. QED  BY <2>1 DEF Events
<1>2. ASSUME NEW t \in Tokens PROVE Event("Token", f, t) \in Events
  <2>1. Event("Token", f, t) \in {Event("Token", g, u) : g \in Flows, u \in Tokens}
    OBVIOUS
  <2>. QED  BY <2>1 DEF Events
<1>. QED  BY <1>1, <1>2

\* Sending puts an event at the end of the channel and leaves the others.
LEMMA SendFacts ==
  ASSUME TypeOK, NEW e \in Events, Send(e)
  PROVE  /\ appRx' \in Seq(Events) /\ appRx' # <<>>
         /\ DOMAIN appRx = 1 .. Len(appRx) /\ Len(appRx) \in Nat
         /\ DOMAIN appRx' = 1 .. Len(appRx) + 1
         /\ \A k \in DOMAIN appRx : appRx'[k] = appRx[k]
         /\ appRx'[Len(appRx) + 1] = e
BY AppendProperties DEF TypeOK, Send

\* Receiving takes the first event away.
LEMMA ReceiveFacts ==
  ASSUME TypeOK, appRx # <<>>, appRx' = Tail(appRx)
  PROVE  /\ Head(appRx) \in Events /\ Head(appRx) = appRx[1] /\ 1 \in DOMAIN appRx
         /\ appRx' \in Seq(Events)
         /\ DOMAIN appRx = 1 .. Len(appRx) /\ Len(appRx) \in Nat
         /\ DOMAIN appRx' = 1 .. Len(appRx) - 1
         /\ \A k \in DOMAIN appRx' : k + 1 \in DOMAIN appRx /\ appRx'[k] = appRx[k + 1]
<1>1. appRx \in Seq(Events)
  BY DEF TypeOK
<1>2. Len(appRx) \in Nat \ {0} /\ DOMAIN appRx = 1 .. Len(appRx)
  BY <1>1, EmptySeq
<1>3. Head(appRx) = appRx[1] /\ Head(appRx) \in Events
  BY <1>1, <1>2, HeadTailProperties
<1>4. /\ Tail(appRx) \in Seq(Events) /\ Len(Tail(appRx)) = Len(appRx) - 1
      /\ \A k \in 1 .. Len(Tail(appRx)) : Tail(appRx)[k] = appRx[k + 1]
  BY <1>1, HeadTailProperties
<1>. QED  BY <1>2, <1>3, <1>4

\* The end of an attempt that may sign somebody in: the two ways it can take.
LEMMA ConcludeFacts ==
  ASSUME TypeOK, NEW a \in Attempts, NEW who \in Users, Conclude(a, who)
  PROVE  /\ attempt' \in [Attempts -> Records]
         /\ \A b \in Attempts \ {a} : attempt'[b] = attempt[b]
         /\ session' \in [who : Users, by : Attempts] /\ appRx' \in Seq(Events)
         /\ \/ /\ a # Startup /\ attempt'[a] = Ended
               /\ Send(Event(IF who = NoUser THEN "Failed" ELSE "Succeeded", a, who))
               /\ UNCHANGED <<proc, session>>
            \/ /\ a = Startup /\ UNCHANGED appRx
               /\ session' = IF who = NoUser THEN session ELSE [who |-> who, by |-> a]
               /\ \/ attempt[a].stored /\ attempt'[a] = Ended /\ proc' = "loop"
                  \/ ~attempt[a].stored /\ attempt'[a] = Lookup /\ proc' = proc
<1>1. attempt \in [Attempts -> Records] /\ session \in [who : Users, by : Attempts] /\ appRx \in Seq(Events)
  BY DEF TypeOK, Records
<1>2. Event(IF who = NoUser THEN "Failed" ELSE "Succeeded", a, who) \in Events
  BY DEF Event, Events
<1>3. CASE a # Startup
  <2>1. appRx' \in Seq(Events)
    BY <1>2, <1>3, SendFacts DEF Conclude
  <2>. QED  BY <1>1, <1>3, <2>1, RecordFacts DEF Conclude
<1>4. CASE a = Startup
  BY <1>1, <1>4, RecordFacts DEF Conclude
<1>. QED  BY <1>3, <1>4

\* The next call of an attempt.
LEMMA ProceedFacts ==
  ASSUME TypeOK, NEW a \in Attempts, NEW pc \in AttemptPcs, Proceed(a, pc)
  PROVE  /\ attempt' \in [Attempts -> Records]
         /\ attempt'[a].pc = pc /\ attempt'[a].stored = attempt[a].stored
         /\ attempt'[a].token = attempt[a].token /\ attempt'[a].asked = attempt[a].asked
         /\ \A b \in Attempts \ {a} : attempt'[b] = attempt[b]
         /\ UNCHANGED <<proc, session, appRx>>
BY DEF Proceed, TypeOK, Records

----------------------------------------------------------------------------
(* Type correctness *)

LEMMA InitType == Init => TypeOK
<1>. SUFFICES ASSUME Init PROVE TypeOK
  OBVIOUS
<1>1. attempt \in [Attempts -> Records]
  <2>1. PICK t \in Given : attempt = AtStart(t)
    BY DEF Init
  <2>2. Begun(t) \in Records /\ Lookup \in Records /\ Idle \in Records
    BY InputsAssumption, RecordFacts DEF MaybeToken
  <2>. QED  BY <2>1, <2>2 DEF AtStart, NoAttempts
<1>2. session \in [who : Users, by : Attempts]
  BY ConstantFacts DEF Init, SignedOut, Users
<1>3. screen \in [phase : Phases, loading : BOOLEAN, last : {"Pat", "OAuth"}, code : Flows \cup {NoFlow}]
  BY DEF Init, FreshScreen, Phases
<1>4. flow \in [Flows -> {"none", "init", "sleep", "asked", "done"}]
  BY DEF Init, NoFlows
<1>. QED  BY <1>1, <1>2, <1>3, <1>4, BoundsAssumption DEF Init, TypeOK, Records, MaybeToken

\* Memory and tasks of a process that is gone, or begins.
LEMMA BlankType ==
  ASSUME TypeOK, Blank, proc' \in {"start", "gone"}, boots' \in 0 .. MaxBoots, clientId' \in BOOLEAN,
         attempt' = NoAttempts \/ \E t \in Given : attempt' = AtStart(t)
  PROVE  TypeOK'
<1>1. attempt' \in [Attempts -> Records]
  <2>1. Idle \in Records /\ Lookup \in Records /\ \A t \in Given : Begun(t) \in Records
    BY InputsAssumption, RecordFacts DEF MaybeToken
  <2>. QED  BY <2>1 DEF AtStart, NoAttempts
<1>2. session' \in [who : Users, by : Attempts]
  BY ConstantFacts DEF Blank, SignedOut, Users
<1>3. screen' \in [phase : Phases, loading : BOOLEAN, last : {"Pat", "OAuth"}, code : Flows \cup {NoFlow}]
  BY DEF Blank, FreshScreen, Phases
<1>4. flow' \in [Flows -> {"none", "init", "sleep", "asked", "done"}]
  BY DEF Blank, NoFlows
<1>5. appRx' \in Seq(Events)
  BY DEF Blank
<1>. QED  BY <1>1, <1>2, <1>3, <1>4, <1>5 DEF Blank, TypeOK, Records, MaybeToken

\* What an attempt may do to the variables it shares with the loop.
LEMMA TryShape ==
  ASSUME TypeOK, AnswerInv, NEW a \in Attempts, Try(a)
  PROVE  /\ attempt' \in [Attempts -> Records] /\ session' \in [who : Users, by : Attempts]
         /\ appRx' \in Seq(Events) /\ proc' \in {"start", "loop", "gone"}
<1>. DEFINE Goal == /\ attempt' \in [Attempts -> Records] /\ session' \in [who : Users, by : Attempts]
                    /\ appRx' \in Seq(Events) /\ proc' \in {"start", "loop", "gone"}
<1>1. /\ attempt \in [Attempts -> Records] /\ session \in [who : Users, by : Attempts]
      /\ appRx \in Seq(Events) /\ proc \in {"start", "loop", "gone"} /\ client \in MaybeToken
  BY DEF TypeOK, Records
<1>2. NoUser \in Users /\ \A t \in Tokens : Owner[t] \in Users
  BY DEF Users
<1>3. ASSUME NEW who \in Users, Conclude(a, who) PROVE Goal
  BY <1>1, <1>3, ConcludeFacts
<1>4. ASSUME NEW pc \in AttemptPcs, Proceed(a, pc) PROVE Goal
  BY <1>1, <1>4, ProceedFacts
<1>5. CASE Ask(a)
  <2>1. attempt[a] \in Records /\ "wait" \in AttemptPcs
    BY <1>1 DEF AttemptPcs
  <2>2. [attempt[a] EXCEPT !.pc = "wait", !.asked = client] \in Records
    BY <1>1, <2>1 DEF Records
  <2>3. attempt' = [attempt EXCEPT ![a] = [attempt[a] EXCEPT !.pc = "wait", !.asked = client]]
    BY <1>1, <1>5, <2>1 DEF Ask, Records
  <2>4. UNCHANGED <<proc, session, appRx>>
    BY <1>5 DEF Ask
  <2>. QED  BY <1>1, <2>2, <2>3, <2>4
<1>6. CASE Install(a)
  BY <1>4, <1>6 DEF Install, AttemptPcs
<1>7. CASE Answer(a)
  BY <1>2, <1>3, <1>4, <1>7 DEF Answer, AttemptPcs
<1>8. CASE Keep(a)
  BY <1>2, <1>3, <1>4, <1>8 DEF Keep, AttemptPcs
<1>9. CASE Record(a)
  <2>1. attempt[a].asked \in Tokens
    BY <1>9 DEF Record, AnswerInv, Past, TypeOK
  <2>. QED  BY <1>2, <1>3, <1>9, <2>1 DEF Record
<1>10. CASE Erase(a)
  BY <1>4, <1>10 DEF Erase, AttemptPcs
<1>11. CASE Forget(a)
  BY <1>2, <1>3, <1>11 DEF Forget
<1>. QED  BY <1>5, <1>6, <1>7, <1>8, <1>9, <1>10, <1>11 DEF Try

LEMMA TypeStep ==
  ASSUME IInv, [Next]_vars
  PROVE  TypeOK'
<1>. USE ConstantFacts DEF IInv
<1>1. ASSUME NEW a \in Attempts, Try(a) PROVE TypeOK'
  <2>1. TypeOK /\ attempt[a] \in Records
    BY DEF TypeOK, Records
  <2>2. client' \in MaybeToken /\ keyring' \in MaybeToken
    BY <1>1, <2>1 DEF Try, Install, Ask, Answer, Keep, Record, Erase, Forget, stores, Records, TypeOK, MaybeToken
  <2>3. confirmed' \subseteq Tokens
    BY <1>1, <2>1 DEF Try, Install, Ask, Answer, Keep, Record, Erase, Forget, history, TypeOK
  <2>4. accounts' \subseteq Users
    <3>1. CASE Record(a)
      <4>1. attempt[a].asked \in Tokens
        BY <3>1 DEF Record, AnswerInv, Past, TypeOK
      <4>. QED  BY <3>1, <4>1 DEF Record, TypeOK, Users
    <3>. QED  BY <1>1, <3>1 DEF Try, Install, Ask, Answer, Keep, Erase, Forget, stores, TypeOK
  <2>5. rival' = rival /\ UNCHANGED <<boots, clientId, screen, valid, pollVars>>
    BY <1>1 DEF Try, Install, Ask, Answer, Keep, Record, Erase, Forget, history, Frame
  <2>. QED  BY <1>1, <2>1, <2>2, <2>3, <2>4, <2>5, TryShape DEF TypeOK, Records, pollVars
<1>2. CASE ReadStored
  <2>1. attempt \in [Attempts -> Records] /\ keyring \in MaybeToken /\ NoUser \in Users
    BY DEF TypeOK, Records, Users
  <2>2. CASE Conclude(Startup, NoUser) /\ UNCHANGED rival
    <3>1. proc' \in {"start", "loop", "gone"}
      BY <2>1, <2>2, ConcludeFacts DEF TypeOK
    <3>. QED  BY <1>2, <2>1, <2>2, <3>1, ConcludeFacts DEF ReadStored, Frame, stores, pollVars, TypeOK, Records
  <2>3. CASE ~(Conclude(Startup, NoUser) /\ UNCHANGED rival)
    <3>1. /\ attempt' = [attempt EXCEPT ![Startup].pc = "install", ![Startup].token = keyring]
          /\ rival' \in {"later", rival} /\ UNCHANGED <<proc, session, appRx>>
      BY <1>2, <2>3 DEF ReadStored
    <3>2. attempt' \in [Attempts -> Records]
      <4>1. attempt[Startup] \in Records /\ "install" \in AttemptPcs
        BY <2>1 DEF AttemptPcs
      <4>2. [attempt[Startup] EXCEPT !.pc = "install", !.token = keyring] \in Records
        BY <2>1, <4>1 DEF Records
      <4>3. attempt' = [attempt EXCEPT ![Startup] = [attempt[Startup] EXCEPT !.pc = "install", !.token = keyring]]
        BY <2>1, <3>1, <4>1 DEF Records
      <4>. QED  BY <2>1, <4>2, <4>3
    <3>. QED  BY <1>2, <3>1, <3>2 DEF ReadStored, Frame, stores, pollVars, TypeOK, Records
  <2>. QED  BY <2>2, <2>3
<1>3. ASSUME NEW f \in Flows, Poller(f) \/ Clock(f) PROVE TypeOK'
  <2>1. flow' \in [Flows -> {"none", "init", "sleep", "asked", "done"}] /\ overdue' \subseteq Flows
    BY <1>3 DEF Poller, FlowInit, Wake, PollAnswer, Clock, TypeOK
  <2>2. appRx' \in Seq(Events)
    <3>1. /\ \A k \in {"Code", "Timeout", "FlowFailed"} : Event(k, f, NoToken) \in Events
          /\ \A t \in Granted : Event("Token", f, t) \in Events
      BY EventMembers, InputsAssumption
    <3>2. ASSUME NEW e \in Events, Send(e) PROVE appRx' \in Seq(Events)
      BY <3>2, SendFacts
    <3>. QED  BY <1>3, <3>1, <3>2 DEF Poller, FlowInit, Wake, PollAnswer, Clock, TypeOK
  <2>. QED  BY <1>3, <2>1, <2>2
            DEF Poller, FlowInit, Wake, PollAnswer, Clock, PollFrame, processVars, stores, history, TypeOK
<1>4. ASSUME NEW t \in Tokens, Revoke(t) PROVE TypeOK'
  BY <1>4 DEF Revoke, processVars, stores, pollVars, history, TypeOK
<1>5. CASE Handle
  <2>. DEFINE e == Head(appRx)
  <2>0. screen \in Screens
    BY DEF TypeOK, Screens
  <2>1. e \in Events /\ appRx' \in Seq(Events)
    BY <1>5, ReceiveFacts DEF Handle
  <2>2. session' \in [who : Users, by : Attempts]
    BY <1>5, <2>1, EventFacts
       DEF Handle, HandleSucceeded, HandleFailed, HandleCode, HandleToken, HandleTimeout, TypeOK
  <2>3. attempt' \in [Attempts -> Records] /\ rival' \in {"none", "later", "overlap"}
    <3>1. CASE HandleToken(e)
      <4>1. Begun(e.what) \in Records /\ CompletionOf(e.by) \in Attempts
        BY <2>1, <3>1, EventFacts, RecordFacts DEF HandleToken, MaybeToken
      <4>. QED  BY <3>1, <4>1 DEF HandleToken, NoteRival, TypeOK, Records
    <3>. QED  BY <1>5, <3>1 DEF Handle, HandleSucceeded, HandleFailed, HandleCode, HandleTimeout, TypeOK, Records
  <2>4. screen' \in Screens
    <3>1. CASE HandleSucceeded(e)
      BY <3>1 DEF HandleSucceeded, FreshScreen, Screens, Phases
    <3>2. CASE HandleFailed(e)
      BY <2>0, <3>2 DEF HandleFailed, OnScreen, Screens, Phases
    <3>3. CASE HandleCode(e)
      <4>1. e.by \in Flows
        BY <2>1, <3>3, EventFacts DEF HandleCode
      <4>. QED  BY <2>0, <3>3, <4>1 DEF HandleCode, OnScreen, Screens, Phases
    <3>4. CASE HandleToken(e)
      BY <2>0, <3>4 DEF HandleToken, OnScreen, Screens, Phases
    <3>5. CASE HandleTimeout(e)
      BY <2>0, <3>5 DEF HandleTimeout, OnScreen, Screens, Phases
    <3>. QED  BY <1>5, <3>1, <3>2, <3>3, <3>4, <3>5 DEF Handle
  <2>. QED  BY <1>5, <2>1, <2>2, <2>3, <2>4 DEF Handle, processVars, stores, pollVars, TypeOK, Records, Screens
<1>6. CASE Key
  <2>0. screen \in Screens
    BY DEF TypeOK, Screens
  <2>1. screen' \in Screens
    <3>1. CASE PickPat
      BY <2>0, <3>1 DEF PickPat, Screens, Phases
    <3>2. CASE PickOAuth
      <4>1. \/ screen' = [screen EXCEPT !.phase = "Validating", !.loading = TRUE, !.last = "OAuth"]
           \/ screen' = [screen EXCEPT !.phase = "AuthFailed", !.last = "OAuth"]
        BY <3>2 DEF PickOAuth, StartOAuth
      <4>. QED  BY <2>0, <4>1 DEF Screens, Phases
    <3>3. CASE Back \/ DismissUrlPrompt
      BY <2>0, <3>3 DEF Back, DismissUrlPrompt, Screens, Phases
    <3>4. ASSUME NEW t \in Typed, Submit(t) PROVE screen' \in Screens
      BY <2>0, <3>4 DEF Submit, Screens, Phases
    <3>. QED  BY <1>6, <3>1, <3>2, <3>3, <3>4 DEF Key
  <2>2. flow' \in [Flows -> {"none", "init", "sleep", "asked", "done"}]
    BY <1>6 DEF Key, PickPat, PickOAuth, StartOAuth, Back, Submit, DismissUrlPrompt, NoTask, TypeOK
  <2>3. attempt' \in [Attempts -> Records] /\ rival' \in {"none", "later", "overlap"}
    <3>1. ASSUME NEW t \in Typed, Submit(t) PROVE attempt' \in [Attempts -> Records] /\ rival' \in {"none", "later", "overlap"}
      <4>1. t \in MaybeToken
        BY InputsAssumption DEF MaybeToken
      <4>2. attempt' = attempt \/ \E a \in Pats : attempt' = [attempt EXCEPT ![a] = Begun(t)]
        BY <3>1 DEF Submit, NoTask
      <4>3. attempt' \in [Attempts -> Records]
        BY <4>1, <4>2, RecordFacts DEF TypeOK, Records
      <4>4. rival' \in {"none", "later", "overlap"}
        BY <3>1 DEF Submit, NoTask, NoteRival, TypeOK
      <4>. QED  BY <4>3, <4>4
    <3>. QED  BY <1>6, <3>1 DEF Key, PickPat, PickOAuth, Back, DismissUrlPrompt, NoTask, TypeOK, Records
  <2>. QED  BY <1>6, <2>1, <2>2, <2>3
            DEF Key, PickPat, PickOAuth, Back, Submit, DismissUrlPrompt, KeyFrame, processVars, stores,
                TypeOK, Records, Screens
<1>7. CASE Gone
  BY <1>7, BlankType DEF Gone, TypeOK
<1>8. ASSUME NEW t \in Given, Boot(t) PROVE TypeOK'
  <2>1. boots' \in 0 .. MaxBoots
    BY <1>8, BoundsAssumption DEF Boot, TypeOK
  <2>. QED  BY <1>8, <2>1, BlankType DEF Boot
<1>9. CASE UNCHANGED vars
  BY <1>9 DEF vars, processVars, stores, pollVars, history, TypeOK
<1>. QED  BY <1>1, <1>2, <1>3, <1>4, <1>5, <1>6, <1>7, <1>8, <1>9 DEF Next

----------------------------------------------------------------------------
(* Attempts, and the process they belong to *)

\* An attempt goes on to its next call or ends, and leaves the others alone.
LEMMA TryMoves ==
  ASSUME TypeOK, AnswerInv, ProcessInv, NEW a \in Attempts, Try(a)
  PROVE  /\ Busy(a) /\ attempt[a].pc # "read" /\ UNCHANGED <<screen, valid, flow, overdue>>
         /\ \A b \in Attempts \ {a} : attempt'[b] = attempt[b]
         /\ \/ /\ attempt'[a].pc \notin {"none", "read", "done"}
               /\ attempt'[a].stored = attempt[a].stored /\ attempt'[a].token = attempt[a].token
               /\ attempt'[a].pc \in {"erase", "forget"} => attempt'[a].stored
               /\ UNCHANGED <<proc, session, appRx>>
            \/ \E who \in Users : Conclude(a, who)
<1>. DEFINE Goal == /\ \A b \in Attempts \ {a} : attempt'[b] = attempt[b]
                    /\ \/ /\ attempt'[a].pc \notin {"none", "read", "done"}
                          /\ attempt'[a].stored = attempt[a].stored /\ attempt'[a].token = attempt[a].token
                          /\ attempt'[a].pc \in {"erase", "forget"} => attempt'[a].stored
                          /\ UNCHANGED <<proc, session, appRx>>
                       \/ \E who \in Users : Conclude(a, who)
<1>1. /\ Busy(a) /\ attempt[a].pc # "read" /\ UNCHANGED <<screen, valid, flow, overdue>>
  BY DEF Try, Install, Ask, Answer, Keep, Record, Erase, Forget, Busy, Frame, pollVars
<1>. SUFFICES Goal
  BY <1>1
<1>2. NoUser \in Users /\ \A t \in Tokens : Owner[t] \in Users
  BY DEF Users
<1>3. ASSUME NEW who \in Users, Conclude(a, who) PROVE Goal
  BY <1>3, ConcludeFacts
<1>4. ASSUME NEW pc \in AttemptPcs \ {"none", "read", "done"}, Proceed(a, pc),
             pc \in {"erase", "forget"} => attempt[a].stored
      PROVE  Goal
  <2>1. attempt[a] \in Records
    BY DEF TypeOK, Records
  <2>2. attempt'[a].pc = pc /\ attempt'[a].stored = attempt[a].stored /\ attempt'[a].token = attempt[a].token
    BY <1>4, ProceedFacts
  <2>. QED  BY <1>4, <2>2, ProceedFacts
<1>5. CASE Ask(a)
  BY <1>5 DEF Ask, TypeOK, Busy
<1>6. CASE Install(a)
  BY <1>4, <1>6 DEF Install, AttemptPcs
<1>7. CASE Answer(a)
  <2>1. CASE \E pc \in {"record", "keep"} : Proceed(a, pc)
    BY <1>4, <2>1 DEF AttemptPcs
  <2>2. CASE attempt[a].stored /\ Proceed(a, "erase")
    BY <1>4, <2>2 DEF AttemptPcs
  <2>3. CASE Conclude(a, NoUser)
    BY <1>2, <1>3, <2>3
  <2>. QED  BY <1>7, <2>1, <2>2, <2>3 DEF Answer
<1>8. CASE Keep(a)
  BY <1>2, <1>3, <1>4, <1>8 DEF Keep, AttemptPcs
<1>9. CASE Record(a)
  <2>1. attempt[a].asked \in Tokens
    BY <1>9 DEF Record, AnswerInv, Past, TypeOK
  <2>. QED  BY <1>2, <1>3, <1>9, <2>1 DEF Record
<1>10. CASE Erase(a)
  <2>1. attempt[a].stored
    BY <1>10 DEF Erase, ProcessInv, Past
  <2>. QED  BY <1>4, <1>10, <2>1 DEF Erase, AttemptPcs
<1>11. CASE Forget(a)
  BY <1>2, <1>3, <1>11 DEF Forget
<1>. QED  BY <1>5, <1>6, <1>7, <1>8, <1>9, <1>10, <1>11 DEF Try

\* The loop begins attempts of the token field and of the device flows only.
LEMMA LoopBegins ==
  ASSUME TypeOK, Handle \/ Key
  PROVE  \/ attempt' = attempt
         \/ \E b \in Attempts \ {Startup}, t \in MaybeToken : attempt' = [attempt EXCEPT ![b] = Begun(t)]
<1>1. CASE Handle
  BY <1>1, ConstantFacts, ReceiveFacts, EventFacts
     DEF Handle, HandleSucceeded, HandleFailed, HandleCode, HandleToken, HandleTimeout, MaybeToken
<1>2. CASE Key
  BY <1>2, ConstantFacts, InputsAssumption
     DEF Key, PickPat, PickOAuth, Back, Submit, DismissUrlPrompt, NoTask, MaybeToken
<1>. QED  BY <1>1, <1>2

LEMMA ProcessStep ==
  ASSUME IInv, [Next]_vars
  PROVE  ProcessInv'
<1>. USE ConstantFacts, RecordFacts DEF IInv
<1>0. attempt \in [Attempts -> Records]
  BY DEF TypeOK, Records
<1>1. ASSUME NEW a \in Attempts, Try(a) PROVE ProcessInv'
  <2>1. CASE \E who \in Users : Conclude(a, who)
    BY <1>0, <1>1, <2>1, ConcludeFacts, TryMoves DEF ProcessInv, Busy, Past
  <2>2. CASE ~\E who \in Users : Conclude(a, who)
    BY <1>0, <1>1, <2>2, TryMoves DEF ProcessInv, Busy, Past
  <2>. QED  BY <2>1, <2>2
<1>2. CASE ReadStored
  <2>1. attempt[Startup].stored /\ Busy(Startup) /\ NoUser \in Users
    BY <1>2 DEF ReadStored, ProcessInv, Past, Busy, Users
  <2>2. CASE Conclude(Startup, NoUser)
    BY <1>0, <1>2, <2>1, <2>2, ConcludeFacts DEF ReadStored, Frame, pollVars, ProcessInv, Busy, Past
  <2>3. CASE ~Conclude(Startup, NoUser)
    <3>1. /\ attempt' = [attempt EXCEPT ![Startup].pc = "install", ![Startup].token = keyring]
          /\ UNCHANGED <<proc, session, appRx, screen, flow>>
      BY <1>2, <2>3 DEF ReadStored, Frame, pollVars
    <3>2. /\ attempt'[Startup].pc = "install" /\ attempt'[Startup].stored = attempt[Startup].stored
          /\ \A b \in Attempts \ {Startup} : attempt'[b] = attempt[b]
      BY <1>0, <3>1 DEF Records
    <3>3. proc = "start" /\ (proc = "start" <=> Busy(Startup))'
      BY <2>1, <3>1, <3>2 DEF ProcessInv, Busy
    <3>4. \A b \in Attempts : attempt'[b].pc \in {"read", "erase", "forget"} => attempt'[b].stored
      BY <2>1, <3>2 DEF ProcessInv, Past
    <3>5. \A b \in Attempts \ {Startup} : ~attempt'[b].stored /\ attempt'[b].pc = "none"
      BY <3>2, <3>3 DEF ProcessInv
    <3>6. screen' = FreshScreen /\ appRx' = <<>> /\ \A f \in Flows : flow'[f] = "none"
      BY <3>1, <3>3 DEF ProcessInv
    <3>. QED  BY <3>3, <3>4, <3>5, <3>6 DEF ProcessInv, Past
  <2>. QED  BY <2>2, <2>3
<1>3. ASSUME NEW f \in Flows, Poller(f) \/ Clock(f) PROVE ProcessInv'
  <2>1. flow[f] # "none"
    BY <1>3 DEF Poller, FlowInit, Wake, PollAnswer, Clock
  <2>2. proc = "loop"
    BY <2>1 DEF ProcessInv, TypeOK
  <2>. QED  BY <1>3, <2>2
            DEF Poller, FlowInit, Wake, PollAnswer, Clock, PollFrame, processVars, ProcessInv, Busy, Past
<1>4. CASE Handle
  <2>1. attempt' = attempt \/ \E b \in Attempts \ {Startup}, t \in MaybeToken : attempt' = [attempt EXCEPT ![b] = Begun(t)]
    BY <1>4, LoopBegins
  <2>. QED  BY <1>0, <1>4, <2>1 DEF Handle, processVars, ProcessInv, Busy, Past
<1>5. CASE Key
  <2>1. attempt' = attempt \/ \E b \in Attempts \ {Startup}, t \in MaybeToken : attempt' = [attempt EXCEPT ![b] = Begun(t)]
    BY <1>5, LoopBegins
  <2>2. proc = "loop" /\ proc' = "loop"
    BY <1>5 DEF Key, PickPat, PickOAuth, Back, Submit, DismissUrlPrompt, InAuth, KeyFrame, processVars
  <2>. QED  BY <1>0, <2>1, <2>2 DEF ProcessInv, Busy, Past
<1>6. CASE Gone
  BY <1>6 DEF Gone, Blank, NoAttempts, NoFlows, ProcessInv, Busy, Past
<1>7. ASSUME NEW t \in Given, Boot(t) PROVE ProcessInv'
  <2>1. t \in MaybeToken
    BY InputsAssumption DEF MaybeToken
  <2>. QED  BY <1>7, <2>1 DEF Boot, AtStart, Blank, NoAttempts, NoFlows, ProcessInv, Busy, Past
<1>8. CASE UNCHANGED <<proc, attempt, screen, appRx, flow>>
  BY <1>8 DEF ProcessInv, Busy, Past
<1>. QED  BY <1>1, <1>2, <1>3, <1>4, <1>5, <1>6, <1>7, <1>8
          DEF Next, Revoke, vars, processVars, pollVars

\* What an attempt has heard stays right.
LEMMA AnswerStep ==
  ASSUME IInv, [Next]_vars
  PROVE  AnswerInv'
<1>. USE ConstantFacts, RecordFacts DEF IInv
<1>0. attempt \in [Attempts -> Records]
  BY DEF TypeOK, Records
<1>1. ASSUME NEW a \in Attempts, Try(a) PROVE AnswerInv'
  <2>1. confirmed \subseteq confirmed' /\ valid' = valid
    BY <1>1 DEF Try, Install, Ask, Answer, Keep, Record, Erase, Forget, history, Frame
  <2>. DEFINE Heard ==
         /\ attempt'[a].pc \in {"keep", "record"} => attempt'[a].asked \in confirmed'
         /\ attempt'[a].pc = "erase" => attempt'[a].asked \notin valid
  <2>2. Heard
    <3>1. ASSUME NEW pc \in AttemptPcs, Proceed(a, pc),
                 pc \in {"keep", "record"} => attempt[a].asked \in confirmed',
                 pc = "erase" => attempt[a].asked \notin valid
          PROVE  Heard
      BY <3>1, ProceedFacts
    <3>2. ASSUME NEW who \in Users, Conclude(a, who) PROVE Heard
      BY <3>2, ConcludeFacts
    <3>3. NoUser \in Users /\ \A t \in Tokens : Owner[t] \in Users
      BY DEF Users
    <3>4. CASE Answer(a)
      BY <3>1, <3>2, <3>3, <3>4 DEF Answer, AttemptPcs
    <3>5. CASE Keep(a)
      BY <2>1, <3>1, <3>2, <3>3, <3>5 DEF Keep, AnswerInv, Past, AttemptPcs
    <3>6. CASE Record(a)
      <4>1. attempt[a].asked \in Tokens
        BY <3>6 DEF Record, AnswerInv, Past, TypeOK
      <4>. QED  BY <3>2, <3>3, <3>6, <4>1 DEF Record
    <3>7. CASE Ask(a)
      BY <1>0, <3>7 DEF Ask, Records
    <3>8. CASE Install(a) \/ Erase(a) \/ Forget(a)
      BY <3>1, <3>2, <3>3, <3>8 DEF Install, Erase, Forget, AttemptPcs
    <3>. QED  BY <1>1, <3>4, <3>5, <3>6, <3>7, <3>8 DEF Try
  <2>3. \A b \in Attempts \ {a} : attempt'[b] = attempt[b]
    BY <1>1, TryMoves
  <2>. QED  BY <2>1, <2>2, <2>3 DEF AnswerInv, Past
<1>2. CASE ReadStored
  <2>1. attempt'[Startup].pc \in {"install", "done"} /\ \A b \in Attempts \ {Startup} : attempt'[b] = attempt[b]
    <3>1. CASE Conclude(Startup, NoUser)
      <4>1. NoUser \in Users /\ attempt[Startup].stored
        BY <1>2 DEF Users, ReadStored, ProcessInv, Past
      <4>. QED  BY <3>1, <4>1, ConcludeFacts
    <3>2. CASE ~Conclude(Startup, NoUser)
      BY <1>0, <1>2, <3>2 DEF ReadStored, Records
    <3>. QED  BY <3>1, <3>2
  <2>. QED  BY <1>2, <2>1 DEF ReadStored, Frame, AnswerInv, Past
<1>3. CASE Handle \/ Key
  <2>1. attempt' = attempt \/ \E b \in Attempts \ {Startup}, t \in MaybeToken : attempt' = [attempt EXCEPT ![b] = Begun(t)]
    BY <1>3, LoopBegins
  <2>2. UNCHANGED <<confirmed, valid>>
    BY <1>3 DEF Handle, Key, PickPat, PickOAuth, Back, Submit, DismissUrlPrompt, KeyFrame
  <2>. QED  BY <1>0, <2>1, <2>2 DEF AnswerInv, Past
<1>4. CASE Gone
  BY <1>4 DEF Gone, NoAttempts, AnswerInv, Past
<1>5. ASSUME NEW t \in Given, Boot(t) PROVE AnswerInv'
  <2>1. t \in MaybeToken
    BY InputsAssumption DEF MaybeToken
  <2>. QED  BY <1>5, <2>1 DEF Boot, AtStart, NoAttempts, AnswerInv, Past
<1>6. ASSUME NEW t \in Tokens, Revoke(t) PROVE AnswerInv'
  BY <1>6 DEF Revoke, history, AnswerInv, Past
<1>7. CASE UNCHANGED <<attempt, confirmed, valid>>
  BY <1>7 DEF AnswerInv, Past
<1>. QED  BY <1>1, <1>2, <1>3, <1>4, <1>5, <1>6, <1>7
          DEF Next, Poller, FlowInit, Wake, PollAnswer, Clock, PollFrame, vars, processVars, history

----------------------------------------------------------------------------
(* One attempt at a time *)

\* The event of a device flow signs nobody in: every sign-in that is in the
\* channel after a step of a poller was there before.
LEMMA PollerEvents ==
  ASSUME TypeOK, NEW f \in Flows, Poller(f)
  PROVE  /\ \A k \in DOMAIN appRx' : appRx'[k].kind = "Succeeded" => k \in DOMAIN appRx /\ appRx'[k] = appRx[k]
         /\ UNCHANGED <<processVars, session, screen, stores, valid, attempt, history, overdue>>
<1>1. ASSUME NEW e \in Events, e.kind # "Succeeded", Send(e)
      PROVE  \A k \in DOMAIN appRx' : appRx'[k].kind = "Succeeded" => k \in DOMAIN appRx /\ appRx'[k] = appRx[k]
  BY <1>1, SendFacts
<1>2. /\ \A k \in {"Code", "Timeout", "FlowFailed"} :
           Event(k, f, NoToken) \in Events /\ Event(k, f, NoToken).kind # "Succeeded"
      /\ \A t \in Granted : Event("Token", f, t) \in Events /\ Event("Token", f, t).kind # "Succeeded"
  BY EventMembers, InputsAssumption DEF Event
<1>3. CASE UNCHANGED appRx
  BY <1>3 DEF Poller, FlowInit, Wake, PollAnswer, PollFrame
<1>4. CASE \E e \in Events : e.kind # "Succeeded" /\ Send(e)
  BY <1>1, <1>4 DEF Poller, FlowInit, Wake, PollAnswer, PollFrame
<1>5. UNCHANGED appRx \/ \E e \in Events : e.kind # "Succeeded" /\ Send(e)
  BY <1>2 DEF Poller, FlowInit, Wake, PollAnswer
<1>. QED  BY <1>3, <1>4, <1>5

\* What attempt b has done to client and keyring.
Done(b) ==
  /\ Past(b, {"ask", "wait", "keep", "record", "erase"}) => client = attempt[b].token
  /\ Past(b, {"wait", "keep", "record", "erase"}) => attempt[b].asked = attempt[b].token
  /\ Past(b, {"record"}) => keyring = attempt[b].token
  /\ attempt[b].stored /\ Past(b, {"install", "ask", "wait", "erase"}) => keyring = attempt[b].token

\* Its next call keeps to that.
LEMMA DoneStep ==
  ASSUME IInv, NEW a \in Attempts, Try(a), Done(a)
  PROVE  Done(a)'
<1>. USE RecordFacts DEF IInv
<1>0. attempt \in [Attempts -> Records]
  BY DEF TypeOK, Records
<1>1. ASSUME NEW who \in Users, Conclude(a, who) PROVE Done(a)'
  BY <1>1, ConcludeFacts DEF Done, Past
<1>2. NoUser \in Users
  BY DEF Users
<1>3. CASE Install(a)
  <2>1. Proceed(a, "ask") /\ client' = attempt[a].token /\ keyring' = keyring
    BY <1>3 DEF Install
  <2>. QED  BY <1>3, <2>1, ProceedFacts DEF Install, Done, Past, AttemptPcs
<1>4. CASE Ask(a)
  <2>1. /\ attempt'[a].pc = "wait" /\ attempt'[a].asked = client
        /\ attempt'[a].stored = attempt[a].stored /\ attempt'[a].token = attempt[a].token
    BY <1>0, <1>4 DEF Ask, Records
  <2>. QED  BY <1>4, <2>1 DEF Ask, stores, Done, Past
<1>5. CASE Answer(a)
  <2>1. UNCHANGED <<client, keyring>> /\ attempt[a].pc = "wait"
    BY <1>5 DEF Answer, stores
  <2>2. CASE Proceed(a, "record") /\ attempt[a].stored
    BY <2>1, <2>2, ProceedFacts DEF Done, Past, AttemptPcs
  <2>3. CASE Proceed(a, "keep") /\ ~attempt[a].stored
    BY <2>1, <2>3, ProceedFacts DEF Done, Past, AttemptPcs
  <2>4. CASE Proceed(a, "erase")
    BY <2>1, <2>4, ProceedFacts DEF Done, Past, AttemptPcs
  <2>. QED  BY <1>1, <1>2, <1>5, <2>2, <2>3, <2>4 DEF Answer
<1>6. CASE Keep(a)
  <2>1. CASE keyring' = attempt[a].token /\ Proceed(a, "record")
    BY <1>6, <2>1, ProceedFacts DEF Keep, Done, Past, AttemptPcs
  <2>. QED  BY <1>1, <1>2, <1>6, <2>1 DEF Keep
<1>7. CASE Record(a)
  <2>1. Owner[attempt[a].asked] \in Users
    BY <1>7 DEF Record, AnswerInv, Past, TypeOK, Users
  <2>. QED  BY <1>1, <1>2, <1>7, <2>1 DEF Record
<1>8. CASE Erase(a)
  <2>1. attempt'[a].pc = "forget"
    BY <1>8, ProceedFacts DEF Erase, AttemptPcs
  <2>. QED  BY <2>1 DEF Done, Past
<1>9. CASE Forget(a)
  BY <1>1, <1>2, <1>9 DEF Forget
<1>. QED  BY <1>3, <1>4, <1>5, <1>6, <1>7, <1>8, <1>9 DEF Try

\* While an attempt goes on, nobody but the attempt that ends says so.
LEMMA TryEvents ==
  ASSUME TypeOK, AnswerInv, ProcessInv, NEW a \in Attempts, Try(a), Busy(a)'
  PROVE  UNCHANGED appRx
BY TryMoves, ConcludeFacts, RecordFacts DEF Busy

LEMMA SoloStep ==
  ASSUME IInv, [Next]_vars
  PROVE  SoloInv'
<1>. USE ConstantFacts, RecordFacts DEF IInv
<1>0. attempt \in [Attempts -> Records]
  BY DEF TypeOK, Records
<1>. SUFFICES ASSUME rival' # "overlap"
              PROVE  /\ (\A b, c \in Attempts : Busy(b) /\ Busy(c) => b = c)'
                     /\ (\A b \in Attempts, k \in DOMAIN appRx : Busy(b) => appRx[k].kind # "Succeeded")'
                     /\ (\A b \in Attempts : Done(b))'
  BY DEF SoloInv, Done
<1>. DEFINE Goal == /\ (\A b, c \in Attempts : Busy(b) /\ Busy(c) => b = c)'
                    /\ (\A b \in Attempts, k \in DOMAIN appRx : Busy(b) => appRx[k].kind # "Succeeded")'
                    /\ (\A b \in Attempts : Done(b))'
<1>01. rival # "overlap" => /\ \A b, c \in Attempts : Busy(b) /\ Busy(c) => b = c
                            /\ \A b \in Attempts, k \in DOMAIN appRx : Busy(b) => appRx[k].kind # "Succeeded"
                            /\ \A b \in Attempts : Done(b)
  BY DEF SoloInv, Done
<1>1. ASSUME NEW a \in Attempts, Try(a) PROVE Goal
  <2>1. rival # "overlap"
    BY <1>1 DEF Try, Install, Ask, Answer, Keep, Record, Erase, Forget, history
  <2>2. Busy(a) /\ \A b \in Attempts \ {a} : ~Busy(b) /\ attempt'[b] = attempt[b]
    BY <1>1, <1>01, <2>1, TryMoves
  <2>3. \A b \in Attempts \ {a} : ~Busy(b)'
    BY <2>2 DEF Busy
  <2>4. \A k \in DOMAIN appRx : appRx[k].kind # "Succeeded"
    BY <1>01, <2>1, <2>2
  <2>5. Busy(a)' => appRx' = appRx
    BY <1>1, TryEvents
  <2>6. Done(a)'
    BY <1>1, <1>01, <2>1, DoneStep
  <2>7. \A b \in Attempts \ {a} : Done(b)'
    BY <2>3 DEF Done, Busy, Past
  <2>. QED  BY <2>3, <2>4, <2>5, <2>6, <2>7
<1>2. CASE ReadStored
  <2>1. attempt[Startup].stored /\ Busy(Startup) /\ NoUser \in Users
    BY <1>2 DEF ReadStored, ProcessInv, Past, Busy, Users
  <2>2. proc = "start" /\ appRx = <<>> /\ appRx' = <<>>
    BY <1>2, <2>1, ConcludeFacts DEF ReadStored, ProcessInv
  <2>3. /\ \A b \in Attempts \ {Startup} : attempt'[b] = attempt[b] /\ attempt[b].pc = "none"
        /\ \/ attempt'[Startup].pc = "done"
           \/ attempt'[Startup].pc = "install" /\ attempt'[Startup].token = keyring
    <3>1. \A b \in Attempts \ {Startup} : attempt[b].pc = "none"
      BY <2>2 DEF ProcessInv
    <3>2. CASE Conclude(Startup, NoUser)
      BY <2>1, <3>1, <3>2, ConcludeFacts
    <3>3. CASE ~Conclude(Startup, NoUser)
      BY <1>0, <1>2, <3>1, <3>3 DEF ReadStored, Records
    <3>. QED  BY <3>2, <3>3
  <2>4. keyring' = keyring
    BY <1>2 DEF ReadStored, stores
  <2>5. \A b \in Attempts \ {Startup} : ~Busy(b)' /\ Done(b)'
    <3>1. \A b \in Attempts \ {Startup} : attempt'[b].pc = "none"
      BY <2>3
    <3>. QED  BY <3>1 DEF Busy, Done, Past
  <2>6. Done(Startup)'
    BY <2>3, <2>4 DEF Done, Past
  <2>. QED  BY <2>2, <2>5, <2>6
<1>3. ASSUME NEW f \in Flows, Poller(f) PROVE Goal
  BY <1>3, <1>01, PollerEvents DEF history, stores, Busy, Done, Past
<1>4. CASE Handle \/ Key
  <2>1. UNCHANGED stores
    BY <1>4 DEF Handle, Key, PickPat, PickOAuth, Back, Submit, DismissUrlPrompt, KeyFrame
  <2>2. \A k \in DOMAIN appRx' : \E l \in DOMAIN appRx : appRx'[k] = appRx[l]
    <3>1. CASE Handle
      BY <3>1, ReceiveFacts DEF Handle
    <3>2. CASE Key
      BY <3>2 DEF Key, PickPat, PickOAuth, Back, Submit, DismissUrlPrompt, KeyFrame
    <3>. QED  BY <1>4, <3>1, <3>2
  <2>3. CASE attempt' = attempt /\ rival' = rival
    BY <1>01, <2>1, <2>2, <2>3 DEF stores, Busy, Done, Past
  <2>4. CASE ~(attempt' = attempt /\ rival' = rival)
    <3>1. NoteRival
      BY <1>4, <2>4 DEF Handle, HandleSucceeded, HandleFailed, HandleCode, HandleToken, HandleTimeout,
         Key, PickPat, PickOAuth, Back, Submit, DismissUrlPrompt, NoTask
    <3>2. ~UnderWay
      BY <3>1 DEF NoteRival
    <3>3. \A c \in Attempts : ~Busy(c)
      BY <3>2 DEF UnderWay
    <3>4. \A k \in DOMAIN appRx' : appRx'[k].kind # "Succeeded"
      BY <2>2, <3>2 DEF UnderWay
    <3>5. CASE attempt' = attempt
      BY <3>3, <3>5 DEF Busy, Done, Past
    <3>6. CASE attempt' # attempt
      <4>1. PICK b \in Attempts \ {Startup}, t \in MaybeToken : attempt' = [attempt EXCEPT ![b] = Begun(t)]
        BY <1>4, <3>6, LoopBegins
      <4>2. attempt'[b] = Begun(t) /\ \A c \in Attempts \ {b} : ~Busy(c)'
        BY <1>0, <3>3, <4>1 DEF Busy
      <4>. QED  BY <3>4, <4>2 DEF Busy, Done, Past
    <3>. QED  BY <3>5, <3>6
  <2>. QED  BY <2>3, <2>4
<1>5. CASE Gone
  BY <1>5 DEF Gone, Blank, NoAttempts, Busy, Done, Past
<1>6. ASSUME NEW t \in Given, Boot(t) PROVE Goal
  <2>1. t \in MaybeToken
    BY InputsAssumption DEF MaybeToken
  <2>. QED  BY <1>6, <2>1 DEF Boot, AtStart, Blank, NoAttempts, Busy, Done, Past
<1>7. CASE UNCHANGED <<attempt, appRx, client, keyring, rival>>
  BY <1>01, <1>7 DEF Busy, Done, Past
<1>. QED  BY <1>1, <1>2, <1>3, <1>4, <1>5, <1>6, <1>7
          DEF Next, Revoke, Clock, PollFrame, vars, history, stores, processVars

----------------------------------------------------------------------------
(* Client, keyring and accounts *)

\* Of an attempt only the record of the account signs somebody in; what else
\* it reports was there before, or is a failure.
LEMMA QuietTry ==
  ASSUME TypeOK, AnswerInv, NEW a \in Attempts, Try(a), ~Record(a)
  PROVE  /\ session' = session
         /\ \A k \in DOMAIN appRx' : appRx'[k].kind = "Succeeded" => k \in DOMAIN appRx /\ appRx'[k] = appRx[k]
<1>1. CASE Conclude(a, NoUser)
  <2>1. NoUser \in Users /\ Event("Failed", a, NoUser) \in Events /\ Event("Failed", a, NoUser).kind = "Failed"
    BY DEF Users, Event, Events
  <2>2. \/ session' = session /\ Send(Event("Failed", a, NoUser))
        \/ session' = session /\ UNCHANGED appRx
    BY <1>1, <2>1, ConcludeFacts
  <2>. QED  BY <2>1, <2>2, SendFacts
<1>2. CASE UNCHANGED <<session, appRx>>
  BY <1>2
<1>. QED  BY <1>1, <1>2 DEF Try, Install, Ask, Answer, Keep, Erase, Forget, Proceed

\* Agreed in the next state, of a user and an attempt that are given.
AgreedNext(who, by) ==
  /\ client' = keyring' /\ client' # NoToken
  /\ Owner[client'] = who
  /\ by # Startup => who \in accounts'

\* The user an attempt ends with has an account, unless that failed at the
\* start, and the stores hold the token that was asked about.
LEMMA RecordAgrees ==
  ASSUME IInv, rival # "overlap", NEW a \in Attempts, Record(a), NEW who, who = Owner[attempt[a].asked]
  PROVE  /\ who \in Users \ {NoUser}
         /\ Conclude(a, who) => AgreedNext(who, a)
         /\ Conclude(a, NoUser) \/ Conclude(a, who)
<1>. USE ConstantFacts DEF IInv
<1>1. attempt[a].asked \in Tokens /\ who \in Users \ {NoUser}
  BY TokensAssumption DEF Record, AnswerInv, Past, TypeOK, Users
<1>2. client = attempt[a].token /\ keyring = attempt[a].token /\ attempt[a].asked = attempt[a].token
  BY DEF Record, SoloInv, Past
<1>3. client' = client /\ keyring' = keyring
  BY DEF Record
<1>4. client # NoToken /\ Owner[client] = who
  BY <1>1, <1>2, TokensAssumption
<1>5. Conclude(a, who) /\ a # Startup => who \in accounts'
  <2>1. CASE accounts' = accounts \cup {who}
    BY <2>1
  <2>2. CASE accounts' # accounts \cup {who}
    <3>1. CASE attempt[a].stored
      BY <3>1 DEF ProcessInv
    <3>2. CASE ~attempt[a].stored /\ a # Startup /\ Conclude(a, who)
      <4>1. Conclude(a, NoUser)
        BY <2>2, <3>2 DEF Record
      <4>2. /\ Event("Failed", a, NoUser) \in Events /\ Event("Succeeded", a, who) \in Events
            /\ Event("Failed", a, NoUser) # Event("Succeeded", a, who)
        BY <1>1, EventKinds
      <4>3. Send(Event("Failed", a, NoUser)) /\ Send(Event("Succeeded", a, who))
        BY <1>1, <3>2, <4>1 DEF Conclude
      <4>. QED  BY <4>2, <4>3, SendFacts
    <3>. QED  BY <3>1, <3>2
  <2>. QED  BY <2>1, <2>2
<1>. QED  BY <1>1, <1>2, <1>3, <1>4, <1>5 DEF AgreedNext, Record

LEMMA AgreeStep ==
  ASSUME IInv, [Next]_vars
  PROVE  AgreeInv'
<1>. USE ConstantFacts, RecordFacts DEF IInv
<1>0. attempt \in [Attempts -> Records]
  BY DEF TypeOK, Records
<1>. DEFINE Goal == /\ Signed' => AgreedNext(session'.who, session'.by)
                    /\ \A k \in DOMAIN appRx' : appRx'[k].kind = "Succeeded" => AgreedNext(appRx'[k].what, appRx'[k].by)
                    /\ \A a \in Attempts : Busy(a)' /\ attempt'[a].pc # "read" => ~Signed'
<1>. SUFFICES ASSUME rival' = "none" PROVE Goal
  BY DEF AgreeInv, Agreed, AgreedNext
<1>01. rival = "none" =>
         /\ Signed => Agreed(session.who, session.by)
         /\ \A k \in DOMAIN appRx : appRx[k].kind = "Succeeded" => Agreed(appRx[k].what, appRx[k].by)
         /\ \A a \in Attempts : Busy(a) /\ attempt[a].pc # "read" => ~Signed
  BY DEF AgreeInv
<1>1. ASSUME NEW a \in Attempts, Try(a) PROVE Goal
  <2>1. rival = "none"
    BY <1>1 DEF Try, Install, Ask, Answer, Keep, Record, Erase, Forget, history
  <2>2. Busy(a) /\ attempt[a].pc # "read" /\ ~Signed
    BY <1>1, <1>01, <2>1, TryMoves
  <2>3. \A k \in DOMAIN appRx : appRx[k].kind # "Succeeded"
    BY <2>1, <2>2 DEF SoloInv
  <2>4. \A b \in Attempts \ {a} : ~Busy(b)'
    BY <1>1, <2>1, <2>2, TryMoves DEF SoloInv, Busy
  <2>5. CASE ~Record(a)
    <3>1. ~Signed'
      BY <1>1, <2>2, <2>5, QuietTry DEF Signed
    <3>2. \A k \in DOMAIN appRx' : appRx'[k].kind # "Succeeded"
      BY <1>1, <2>3, <2>5, QuietTry
    <3>. QED  BY <3>1, <3>2
  <2>6. CASE Record(a)
    <3>0. PICK who : who = Owner[attempt[a].asked]
      OBVIOUS
    <3>1. /\ who \in Users \ {NoUser}
          /\ Conclude(a, who) => AgreedNext(who, a)
          /\ Conclude(a, NoUser) \/ Conclude(a, who)
      BY <2>1, <2>6, <3>0, RecordAgrees
    <3>2. CASE Conclude(a, NoUser)
      <4>1. NoUser \in Users /\ Event("Failed", a, NoUser) \in Events /\ Event("Failed", a, NoUser).kind = "Failed"
        BY DEF Users, Event, Events
      <4>2. /\ session' = session
            /\ UNCHANGED appRx \/ Send(Event("Failed", a, NoUser))
            /\ attempt'[a].pc \in {"done", "read"}
        BY <3>2, <4>1, ConcludeFacts
      <4>3. \A k \in DOMAIN appRx' : appRx'[k].kind # "Succeeded"
        BY <2>3, <4>1, <4>2, SendFacts
      <4>. QED  BY <2>2, <2>4, <4>2, <4>3 DEF Busy, Signed
    <3>3. CASE Conclude(a, who)
      <4>1. AgreedNext(who, a) /\ attempt'[a].pc \in {"done", "read"}
        BY <3>1, <3>3, ConcludeFacts
      <4>2. Event("Succeeded", a, who) \in Events
        BY <3>1, EventKinds
      <4>3. \/ session' = session /\ Send(Event("Succeeded", a, who))
            \/ session' = [who |-> who, by |-> a] /\ UNCHANGED appRx
        BY <3>1, <3>3, ConcludeFacts
      <4>4. CASE session' = session /\ Send(Event("Succeeded", a, who))
        <5>1. \A k \in DOMAIN appRx' : appRx'[k].kind = "Succeeded" => appRx'[k] = Event("Succeeded", a, who)
          BY <2>3, <4>2, <4>4, SendFacts
        <5>2. Event("Succeeded", a, who).what = who /\ Event("Succeeded", a, who).by = a
          BY DEF Event
        <5>. QED  BY <2>2, <2>4, <4>1, <4>4, <5>1, <5>2 DEF Busy, Signed
      <4>5. CASE session' = [who |-> who, by |-> a] /\ UNCHANGED appRx
        BY <2>3, <2>4, <4>1, <4>5 DEF Busy
      <4>. QED  BY <4>3, <4>4, <4>5
    <3>. QED  BY <3>1, <3>2, <3>3
  <2>. QED  BY <2>5, <2>6
<1>2. CASE ReadStored
  <2>1. attempt[Startup].stored /\ Busy(Startup) /\ NoUser \in Users
    BY <1>2 DEF ReadStored, ProcessInv, Past, Busy, Users
  <2>2. /\ rival = "none" /\ UNCHANGED <<stores, session, appRx>>
        /\ \/ attempt'[Startup].pc = "done"
           \/ ~Signed
    <3>1. CASE Conclude(Startup, NoUser) /\ UNCHANGED rival
      BY <1>2, <2>1, <3>1, ConcludeFacts DEF ReadStored
    <3>2. CASE ~(Conclude(Startup, NoUser) /\ UNCHANGED rival)
      BY <1>2, <3>2 DEF ReadStored
    <3>. QED  BY <3>1, <3>2
  <2>3. \A b \in Attempts \ {Startup} : ~Busy(b)'
    <3>1. \A b \in Attempts \ {Startup} : attempt[b].pc = "none"
      BY <2>1 DEF ProcessInv
    <3>2. \A b \in Attempts \ {Startup} : attempt'[b] = attempt[b]
      <4>1. CASE Conclude(Startup, NoUser)
        BY <2>1, <4>1, ConcludeFacts
      <4>. QED  BY <1>0, <1>2, <4>1 DEF ReadStored
    <3>. QED  BY <3>1, <3>2 DEF Busy
  <2>. QED  BY <1>01, <2>2, <2>3 DEF stores, Busy, Agreed, AgreedNext, Signed
<1>3. ASSUME NEW f \in Flows, Poller(f) PROVE Goal
  BY <1>3, <1>01, PollerEvents DEF history, stores, Busy, Agreed, AgreedNext, Signed
<1>4. CASE Handle
  <2>. DEFINE e == Head(appRx)
  <2>1. UNCHANGED stores /\ e \in Events /\ 1 \in DOMAIN appRx /\ e = appRx[1]
    BY <1>4, ReceiveFacts DEF Handle
  <2>2. \A k \in DOMAIN appRx' : \E l \in DOMAIN appRx : appRx'[k] = appRx[l]
    BY <1>4, ReceiveFacts DEF Handle
  <2>3. CASE HandleSucceeded(e)
    <3>1. rival = "none" /\ Agreed(e.what, e.by) /\ \A b \in Attempts : ~Busy(b)
      BY <1>01, <2>1, <2>3 DEF HandleSucceeded, SoloInv
    <3>2. session'.who = e.what /\ session'.by = e.by /\ attempt' = attempt
      BY <2>3 DEF HandleSucceeded
    <3>. QED  BY <1>01, <2>1, <2>2, <3>1, <3>2 DEF Agreed, AgreedNext, stores, Busy
  <2>4. CASE HandleToken(e)
    <3>1. rival = "none" /\ ~Signed /\ session' = session
      BY <2>4 DEF HandleToken, NoteRival, TypeOK
    <3>. QED  BY <1>01, <2>1, <2>2, <3>1 DEF Agreed, AgreedNext, stores, Signed
  <2>5. CASE UNCHANGED <<session, attempt, rival>>
    BY <1>01, <2>1, <2>2, <2>5 DEF Agreed, AgreedNext, stores, Busy, Signed
  <2>. QED  BY <1>4, <2>3, <2>4, <2>5 DEF Handle, HandleFailed, HandleCode, HandleTimeout
<1>5. CASE Key
  <2>1. ~Signed /\ UNCHANGED <<stores, session, appRx>>
    BY <1>5 DEF Key, PickPat, PickOAuth, Back, Submit, DismissUrlPrompt, InAuth, KeyFrame
  <2>2. rival = "none"
    BY <1>5 DEF Key, PickPat, PickOAuth, Back, Submit, DismissUrlPrompt, NoTask, NoteRival, TypeOK
  <2>. QED  BY <1>01, <2>1, <2>2 DEF Agreed, AgreedNext, stores, Signed
<1>6. CASE Blank
  BY <1>6 DEF Blank, Signed
<1>7. CASE UNCHANGED <<attempt, appRx, session, rival, stores>>
  BY <1>01, <1>7 DEF Agreed, AgreedNext, stores, Busy, Signed
<1>. QED  BY <1>1, <1>2, <1>3, <1>4, <1>5, <1>6, <1>7
          DEF Next, Gone, Boot, Revoke, Clock, PollFrame, vars, history, processVars

----------------------------------------------------------------------------
(* What the screen waits for *)

\* Attempts and the look-up leave what is in the channel, and what they add is
\* neither a code nor a last word; outside the loop the screen is fresh.
LEMMA AttemptEvents ==
  ASSUME IInv, (\E a \in Attempts : Try(a)) \/ ReadStored
  PROVE  /\ UNCHANGED <<screen, flow>>
         /\ InAuth' => proc = "loop" \/ screen' = FreshScreen
         /\ proc = "loop" => session' = session
         /\ \A k \in DOMAIN appRx : k \in DOMAIN appRx' /\ appRx'[k] = appRx[k]
         /\ \A k \in DOMAIN appRx' : appRx'[k].kind = "Code" => k \in DOMAIN appRx
<1>. USE ConstantFacts, RecordFacts DEF IInv
<1>1. UNCHANGED <<screen, flow>>
  BY DEF Try, Install, Ask, Answer, Keep, Record, Erase, Forget, ReadStored, Frame, pollVars
<1>2. proc # "loop" => screen' = FreshScreen
  BY <1>1 DEF ProcessInv
<1>. DEFINE Rest == /\ proc = "loop" => session' = session
                    /\ \A k \in DOMAIN appRx : k \in DOMAIN appRx' /\ appRx'[k] = appRx[k]
                    /\ \A k \in DOMAIN appRx' : appRx'[k].kind = "Code" => k \in DOMAIN appRx
<1>. SUFFICES Rest
  BY <1>1, <1>2 DEF InAuth
<1>3. ASSUME NEW a \in Attempts, NEW who \in Users, Conclude(a, who), Busy(a) PROVE Rest
  <2>1. CASE a # Startup
    <3>. DEFINE e == Event(IF who = NoUser THEN "Failed" ELSE "Succeeded", a, who)
    <3>1. e \in Events /\ e.kind # "Code"
      <4>1. CASE who = NoUser
        BY <4>1 DEF Event, Events
      <4>2. CASE who # NoUser
        BY <4>2, EventKinds DEF Event
      <4>. QED  BY <4>1, <4>2
    <3>2. Send(e) /\ session' = session
      BY <1>3, <2>1 DEF Conclude
    <3>. QED  BY <3>1, <3>2, SendFacts
  <2>2. CASE a = Startup
    <3>1. proc = "start" /\ appRx' = appRx
      BY <1>3, <2>2 DEF Conclude, ProcessInv
    <3>. QED  BY <3>1
  <2>. QED  BY <2>1, <2>2
<1>4. CASE \E a \in Attempts : Try(a)
  BY <1>3, <1>4, TryMoves
<1>5. CASE ReadStored
  <2>1. Busy(Startup) /\ NoUser \in Users
    BY <1>5 DEF ReadStored, Busy, Users
  <2>. QED  BY <1>3, <1>5, <2>1 DEF ReadStored
<1>. QED  BY <1>4, <1>5

LEMMA CodeStep ==
  ASSUME IInv, [Next]_vars
  PROVE  CodeInv'
<1>. USE ConstantFacts DEF IInv
<1>0. screen \in Screens
  BY DEF TypeOK, Screens
<1>. DEFINE Told(f) == \E l \in DOMAIN appRx : Final(appRx[l], f)
            ToldNext(f) == \E l \in DOMAIN appRx' : Final(appRx'[l], f)
            PolledNext(f) == flow'[f] \in {"sleep", "asked"}
            OnCode == InAuth /\ screen.phase \in {"CodePrompt", "CodeShown"}
            OnCodeNext == InAuth' /\ screen'.phase \in {"CodePrompt", "CodeShown"}
            Behind(k) == \E l \in DOMAIN appRx : k < l /\ Final(appRx[l], appRx[k].by)
            BehindNext(k) == \E l \in DOMAIN appRx' : k < l /\ Final(appRx'[l], appRx'[k].by)
            Codes == \A k \in DOMAIN appRx' :
                       appRx'[k].kind = "Code" => PolledNext(appRx'[k].by) \/ BehindNext(k)
            Shown == OnCodeNext =>
                       screen'.code \in Flows /\ (PolledNext(screen'.code) \/ ToldNext(screen'.code))
<1>. SUFFICES Codes /\ Shown
  BY DEF CodeInv, CodeOnScreenIsPolled, Polled, Final
<1>01. \A k \in DOMAIN appRx : appRx[k].kind = "Code" => Polled(appRx[k].by) \/ Behind(k)
  BY DEF CodeInv
<1>02. OnCode => screen.code \in Flows /\ (Polled(screen.code) \/ Told(screen.code))
  BY DEF CodeInv, CodeOnScreenIsPolled, Polled, Final
<1>03. \A k \in DOMAIN appRx : appRx[k] \in Events /\ (appRx[k].kind = "Code" => appRx[k].by \in Flows)
  BY EventFacts DEF TypeOK
<1>1. CASE (\E a \in Attempts : Try(a)) \/ ReadStored
  <2>1. /\ UNCHANGED <<screen, flow>> /\ (OnCodeNext => OnCode)
        /\ \A k \in DOMAIN appRx : k \in DOMAIN appRx' /\ appRx'[k] = appRx[k]
        /\ \A k \in DOMAIN appRx' : appRx'[k].kind = "Code" => k \in DOMAIN appRx
    BY <1>1, AttemptEvents DEF InAuth, Signed, FreshScreen
  <2>2. Codes
    BY <1>01, <2>1 DEF Polled
  <2>3. Shown
    BY <1>02, <2>1 DEF Polled
  <2>. QED  BY <2>2, <2>3
<1>2. ASSUME NEW f \in Flows, Poller(f) PROVE Codes /\ Shown
  <2>1. OnCodeNext => OnCode /\ screen' = screen
    BY <1>2 DEF Poller, FlowInit, Wake, PollAnswer, PollFrame, processVars, InAuth, Signed
  <2>2. \A g \in Flows \ {f} : Polled(g) => PolledNext(g)
    BY <1>2 DEF Poller, FlowInit, Wake, PollAnswer, Polled, TypeOK
  <2>3. ASSUME NEW e \in Events, Send(e), e.by = f,
               e.kind = "Code" => PolledNext(f),
               Polled(f) => PolledNext(f) \/ Final(e, f)
        PROVE  Codes /\ Shown
    <3>1. /\ \A k \in DOMAIN appRx : k \in DOMAIN appRx' /\ appRx'[k] = appRx[k] /\ k < Len(appRx) + 1
          /\ Len(appRx) + 1 \in DOMAIN appRx' /\ appRx'[Len(appRx) + 1] = e
          /\ \A k \in DOMAIN appRx' : k \in DOMAIN appRx \/ k = Len(appRx) + 1
      BY <2>3, SendFacts
    <3>2. \A g \in Flows : Polled(g) => PolledNext(g) \/ Final(e, g)
      BY <2>2, <2>3
    <3>3. ASSUME NEW k \in DOMAIN appRx', appRx'[k].kind = "Code"
          PROVE  PolledNext(appRx'[k].by) \/ BehindNext(k)
      <4>1. CASE k = Len(appRx) + 1
        BY <2>3, <3>1, <3>3, <4>1
      <4>2. CASE k \in DOMAIN appRx
        <5>1. appRx'[k] = appRx[k] /\ appRx[k].by \in Flows /\ (Polled(appRx[k].by) \/ Behind(k))
          BY <1>01, <1>03, <3>1, <3>3, <4>2
        <5>2. CASE Behind(k)
          BY <3>1, <5>1, <5>2
        <5>3. CASE Polled(appRx[k].by)
          BY <3>1, <3>2, <4>2, <5>1, <5>3
        <5>. QED  BY <5>1, <5>2, <5>3
      <4>. QED  BY <3>1, <4>1, <4>2
    <3>4. Shown
      BY <1>02, <2>1, <3>1, <3>2
    <3>. QED  BY <3>3, <3>4
  <2>4. CASE UNCHANGED appRx /\ (Polled(f) => PolledNext(f))
    BY <1>01, <1>02, <1>03, <2>1, <2>2, <2>4
  <2>5. \/ UNCHANGED appRx /\ (Polled(f) => PolledNext(f))
        \/ \E e \in Events : /\ Send(e) /\ e.by = f
                             /\ e.kind = "Code" => PolledNext(f)
                             /\ Polled(f) => PolledNext(f) \/ Final(e, f)
    <3>1. \A k \in {"Code", "Timeout", "FlowFailed"} :
             /\ Event(k, f, NoToken) \in Events /\ Event(k, f, NoToken).by = f
             /\ Event(k, f, NoToken).kind = k
      BY EventMembers DEF Event
    <3>2. \A t \in Granted :
             /\ Event("Token", f, t) \in Events /\ Event("Token", f, t).by = f
             /\ Event("Token", f, t).kind = "Token"
      BY EventMembers, InputsAssumption DEF Event
    <3>3. CASE FlowInit(f)
      BY <3>1, <3>3 DEF FlowInit, Polled, TypeOK
    <3>4. CASE Wake(f)
      BY <3>1, <3>4 DEF Wake, Polled, Final, TypeOK
    <3>5. CASE PollAnswer(f)
      BY <3>1, <3>2, <3>5 DEF PollAnswer, Polled, Final, TypeOK
    <3>. QED  BY <1>2, <3>3, <3>4, <3>5 DEF Poller
  <2>. QED  BY <2>3, <2>4, <2>5
<1>3. CASE Handle
  <2>. DEFINE e == Head(appRx)
  <2>1. /\ flow' = flow /\ proc' = proc /\ e \in Events /\ 1 \in DOMAIN appRx /\ e = appRx[1]
        /\ DOMAIN appRx = 1 .. Len(appRx) /\ Len(appRx) \in Nat /\ DOMAIN appRx' = 1 .. Len(appRx) - 1
        /\ \A k \in DOMAIN appRx' : appRx'[k] = appRx[k + 1]
    BY <1>3, ReceiveFacts DEF Handle, pollVars, processVars
  <2>2. ASSUME NEW k \in DOMAIN appRx, Behind(k)
        PROVE  \E l \in DOMAIN appRx' : k - 1 < l /\ Final(appRx'[l], appRx[k].by)
    <3>1. PICK l \in DOMAIN appRx : k < l /\ Final(appRx[l], appRx[k].by)
      BY <2>2
    <3>2. l - 1 \in DOMAIN appRx' /\ appRx'[l - 1] = appRx[l] /\ k - 1 < l - 1
      BY <2>1, <3>1
    <3>. QED  BY <3>1, <3>2
  <2>3. ASSUME NEW k \in DOMAIN appRx', appRx'[k].kind = "Code"
        PROVE  PolledNext(appRx'[k].by) \/ BehindNext(k)
    <3>1. k + 1 \in DOMAIN appRx /\ appRx'[k] = appRx[k + 1] /\ (k + 1) - 1 = k
      BY <2>1
    <3>2. Polled(appRx[k + 1].by) \/ Behind(k + 1)
      BY <1>01, <2>3, <3>1
    <3>. QED  BY <2>1, <2>2, <3>1, <3>2 DEF Polled
  <2>4. Shown
    <3>1. CASE HandleCode(e)
      <4>1. e.by \in Flows /\ (Polled(e.by) \/ Behind(1))
        BY <1>01, <1>03, <2>1, <3>1 DEF HandleCode
      <4>2. Polled(e.by) \/ ToldNext(e.by)
        BY <2>1, <2>2, <4>1
      <4>3. OnCodeNext => screen'.code = e.by
        BY <2>1, <3>1 DEF HandleCode, OnScreen, InAuth, Signed, TypeOK
      <4>. QED  BY <2>1, <4>1, <4>2, <4>3 DEF Polled
    <3>2. CASE HandleSucceeded(e)
      BY <3>2 DEF HandleSucceeded, FreshScreen
    <3>3. CASE HandleFailed(e)
      BY <1>0, <3>3 DEF HandleFailed, OnScreen, InAuth, Signed, Screens
    <3>4. CASE HandleToken(e)
      BY <1>0, <3>4 DEF HandleToken, OnScreen, InAuth, Signed, Screens
    <3>5. CASE HandleTimeout(e)
      BY <1>0, <3>5 DEF HandleTimeout, OnScreen, InAuth, Signed, Screens
    <3>. QED  BY <1>3, <3>1, <3>2, <3>3, <3>4, <3>5 DEF Handle
  <2>. QED  BY <2>3, <2>4
<1>4. CASE Key
  <2>1. appRx' = appRx /\ InAuth
    BY <1>4 DEF Key, PickPat, PickOAuth, Back, Submit, DismissUrlPrompt, KeyFrame
  <2>2. \A f \in Flows : Polled(f) => PolledNext(f)
    BY <1>4 DEF Key, PickPat, PickOAuth, StartOAuth, Back, Submit, DismissUrlPrompt, NoTask, Polled, TypeOK
  <2>3. OnCodeNext => OnCode /\ screen'.code = screen.code
    <3>1. CASE PickPat \/ Back
      BY <1>0, <3>1 DEF PickPat, Back, Screens
    <3>2. CASE PickOAuth
      <4>1. \/ screen' = [screen EXCEPT !.phase = "Validating", !.loading = TRUE, !.last = "OAuth"]
           \/ screen' = [screen EXCEPT !.phase = "AuthFailed", !.last = "OAuth"]
        BY <3>2 DEF PickOAuth, StartOAuth
      <4>. QED  BY <1>0, <4>1 DEF Screens
    <3>3. ASSUME NEW t \in Typed, Submit(t) PROVE ~OnCodeNext
      BY <1>0, <3>3 DEF Submit, Screens
    <3>4. CASE DismissUrlPrompt
      BY <1>0, <2>1, <3>4 DEF DismissUrlPrompt, Screens
    <3>. QED  BY <1>4, <3>1, <3>2, <3>3, <3>4 DEF Key
  <2>. QED  BY <1>01, <1>02, <1>03, <2>1, <2>2, <2>3
<1>5. CASE Blank
  BY <1>5 DEF Blank, FreshScreen
<1>6. CASE UNCHANGED <<proc, session, screen, flow, appRx>>
  BY <1>01, <1>02, <1>6 DEF Polled, InAuth, Signed
<1>. QED  BY <1>1, <1>2, <1>3, <1>4, <1>5, <1>6
          DEF Next, Gone, Boot, Revoke, Clock, PollFrame, vars, pollVars, processVars

LEMMA WaitingStep ==
  ASSUME IInv, [Next]_vars
  PROVE  WaitingHasCause'
<1>. USE ConstantFacts, RecordFacts DEF IInv
<1>0. attempt \in [Attempts -> Records]
  BY DEF TypeOK, Records
<1>00. screen \in Screens
  BY DEF TypeOK, Screens
<1>. DEFINE Waiting == InAuth /\ (screen.phase = "Validating" \/ screen.loading)
            WaitingNext == InAuth' /\ (screen'.phase = "Validating" \/ screen'.loading)
            Cause == \/ \E a \in Attempts : Busy(a)
                     \/ \E f \in Flows : flow[f] = "init"
                     \/ appRx # <<>>
            CauseNext == \/ \E a \in Attempts : Busy(a)'
                         \/ \E f \in Flows : flow'[f] = "init"
                         \/ appRx' # <<>>
<1>. SUFFICES ASSUME WaitingNext PROVE CauseNext
  BY DEF WaitingHasCause
<1>01. Waiting => Cause
  BY DEF WaitingHasCause
<1>1. ASSUME NEW a \in Attempts, Try(a) PROVE CauseNext
  <2>1. screen' = screen
    BY <1>1, AttemptEvents
  <2>2. proc = "loop"
    BY <2>1 DEF ProcessInv, FreshScreen
  <2>3. a # Startup
    BY <1>1, <2>2, TryMoves DEF ProcessInv, TypeOK
  <2>4. CASE \E who \in Users : Conclude(a, who)
    <3>1. PICK who \in Users : Conclude(a, who)
      BY <2>4
    <3>2. \E e \in Events : Send(e)
      <4>1. CASE who = NoUser
        <5>1. Event("Failed", a, NoUser) \in Events
          BY DEF Event, Events
        <5>. QED  BY <2>3, <3>1, <4>1, <5>1 DEF Conclude
      <4>2. CASE who # NoUser
        BY <2>3, <3>1, <4>2, EventKinds DEF Conclude
      <4>. QED  BY <4>1, <4>2
    <3>. QED  BY <3>2, SendFacts
  <2>. QED  BY <1>1, <2>4, TryMoves DEF Busy
<1>2. CASE ReadStored
  <2>1. proc = "start" /\ screen' = screen
    BY <1>2, AttemptEvents DEF ReadStored, ProcessInv, Busy
  <2>. QED  BY <2>1 DEF ProcessInv, FreshScreen
<1>3. ASSUME NEW f \in Flows, Poller(f) PROVE CauseNext
  <2>1. Waiting
    BY <1>3, PollerEvents DEF processVars, InAuth, Signed
  <2>2. \/ UNCHANGED appRx
        \/ \E e \in Events : Send(e)
    BY <1>3, EventMembers, InputsAssumption DEF Poller, FlowInit, Wake, PollAnswer
  <2>3. CASE \E e \in Events : Send(e)
    BY <2>3, SendFacts
  <2>4. CASE UNCHANGED appRx
    <3>1. flow[f] # "init"
      <4>. SUFFICES ASSUME FlowInit(f) PROVE FALSE
        BY <1>3 DEF Poller, Wake, PollAnswer
      <4>1. \E e \in Events : Send(e)
        BY EventMembers DEF FlowInit
      <4>2. Len(appRx') = Len(appRx) + 1 /\ Len(appRx) \in Nat
        BY <4>1, AppendProperties DEF Send, TypeOK
      <4>. QED  BY <2>4, <4>2
    <3>2. \A g \in Flows : flow[g] = "init" => flow'[g] = "init"
      BY <1>3, <3>1 DEF Poller, FlowInit, Wake, PollAnswer, TypeOK
    <3>. QED  BY <1>01, <1>3, <2>1, <2>4, <3>2, PollerEvents DEF Busy
  <2>. QED  BY <2>2, <2>3, <2>4
<1>4. CASE Handle
  <2>. DEFINE e == Head(appRx)
  <2>1. e \in Events /\ proc' = proc
    BY <1>4, ReceiveFacts DEF Handle, processVars
  <2>2. CASE HandleToken(e)
    <3>1. CompletionOf(e.by) \in Attempts /\ Begun(e.what).pc = "install"
      BY <2>1, <2>2, EventFacts DEF HandleToken, MaybeToken
    <3>. QED  BY <1>0, <2>2, <3>1 DEF HandleToken, Busy
  <2>3. ~HandleSucceeded(e)
    BY DEF HandleSucceeded, FreshScreen
  <2>4. ~HandleFailed(e)
    <3>. SUFFICES ASSUME HandleFailed(e) PROVE FALSE
      OBVIOUS
    <3>1. screen' = [screen EXCEPT !.phase = "AuthFailed", !.loading = FALSE]
      BY DEF HandleFailed, OnScreen, InAuth, Signed
    <3>2. screen'.phase = "AuthFailed" /\ ~screen'.loading
      BY <1>00, <3>1 DEF Screens
    <3>. QED  BY <3>2
  <2>5. ~HandleCode(e)
    <3>. SUFFICES ASSUME HandleCode(e) PROVE FALSE
      OBVIOUS
    <3>1. screen' = [screen EXCEPT !.phase = "CodePrompt", !.loading = FALSE, !.code = e.by]
      BY DEF HandleCode, OnScreen, InAuth, Signed
    <3>2. screen'.phase = "CodePrompt" /\ ~screen'.loading
      BY <1>00, <3>1 DEF Screens
    <3>. QED  BY <3>2
  <2>6. ~HandleTimeout(e)
    <3>. SUFFICES ASSUME HandleTimeout(e) PROVE FALSE
      OBVIOUS
    <3>1. screen' = [screen EXCEPT !.phase = "AuthFailed", !.loading = FALSE, !.code = NoFlow]
      BY DEF HandleTimeout, OnScreen, InAuth, Signed
    <3>2. screen'.phase = "AuthFailed" /\ ~screen'.loading
      BY <1>00, <3>1 DEF Screens
    <3>. QED  BY <3>2
  <2>. QED  BY <1>4, <2>2, <2>3, <2>4, <2>5, <2>6 DEF Handle
<1>5. CASE Key
  <2>1. appRx' = appRx /\ InAuth
    BY <1>5 DEF Key, PickPat, PickOAuth, Back, Submit, DismissUrlPrompt, KeyFrame
  <2>2. CASE UNCHANGED <<attempt, flow>>
    <3>1. Waiting
      <4>1. CASE PickPat
        BY <1>00, <2>1, <4>1 DEF PickPat, Screens
      <4>2. CASE PickOAuth
        <5>1. ~clientId
          BY <2>2, <4>2 DEF PickOAuth, StartOAuth, TypeOK
        <5>2. screen' = [screen EXCEPT !.phase = "AuthFailed", !.last = "OAuth"]
          BY <4>2, <5>1 DEF PickOAuth, StartOAuth
        <5>3. screen'.phase = "AuthFailed" /\ screen'.loading = screen.loading
          BY <1>00, <5>2 DEF Screens
        <5>. QED  BY <2>1, <5>3
      <4>3. CASE Back
        BY <1>00, <4>3 DEF Back, Screens
      <4>4. ASSUME NEW t \in Typed, Submit(t) PROVE Waiting
        <5>1. CASE t = NoToken
          BY <1>00, <2>1, <4>4, <5>1 DEF Submit, Screens
        <5>2. CASE t # NoToken
          <6>1. PICK a \in Pats : attempt[a] = Idle /\ attempt' = [attempt EXCEPT ![a] = Begun(t)]
            BY <4>4, <5>2 DEF Submit
          <6>. QED  BY <1>0, <2>2, <6>1, InputsAssumption DEF MaybeToken
        <5>. QED  BY <5>1, <5>2
      <4>5. CASE DismissUrlPrompt
        BY <1>00, <2>1, <4>5 DEF DismissUrlPrompt, Screens
      <4>. QED  BY <1>5, <4>1, <4>2, <4>3, <4>4, <4>5 DEF Key
    <3>. QED  BY <1>01, <2>1, <2>2, <3>1 DEF Busy
  <2>3. CASE ~UNCHANGED <<attempt, flow>>
    <3>1. CASE PickOAuth
      BY <2>3, <3>1 DEF PickOAuth, StartOAuth, TypeOK
    <3>2. ASSUME NEW t \in Typed, Submit(t) PROVE CauseNext
      <4>1. PICK a \in Pats : attempt' = [attempt EXCEPT ![a] = Begun(t)]
        BY <2>3, <3>2 DEF Submit, NoTask
      <4>. QED  BY <1>0, <4>1, InputsAssumption DEF Busy, MaybeToken
    <3>. QED  BY <1>5, <2>3, <3>1, <3>2 DEF Key, PickPat, Back, DismissUrlPrompt, NoTask
  <2>. QED  BY <2>2, <2>3
<1>6. CASE Blank
  BY <1>6 DEF Blank, FreshScreen
<1>7. CASE UNCHANGED <<proc, session, screen, attempt, flow, appRx>>
  BY <1>01, <1>7 DEF Busy, InAuth, Signed
<1>. QED  BY <1>1, <1>2, <1>3, <1>4, <1>5, <1>6, <1>7
          DEF Next, Gone, Boot, Revoke, Clock, PollFrame, vars, pollVars, processVars

----------------------------------------------------------------------------
(* The theorems *)

LEMMA InitInv == Init => IInv
<1>. SUFFICES ASSUME Init PROVE IInv
  OBVIOUS
<1>. USE ConstantFacts, RecordFacts
<1>0. PICK t \in Given : attempt = AtStart(t)
  BY DEF Init
<1>1. /\ Begun(t).pc = "install" /\ ~Begun(t).stored
      /\ \A b \in Attempts \ {Startup} : attempt[b] = Idle
      /\ attempt[Startup] = IF t = NoToken THEN Lookup ELSE Begun(t)
  BY <1>0, InputsAssumption DEF AtStart, NoAttempts, MaybeToken
<1>2. TypeOK
  BY InitType
<1>3. ProcessInv
  BY <1>1 DEF Init, NoFlows, ProcessInv, Busy, Past
<1>4. AnswerInv /\ SoloInv
  <2>1. \A b \in Attempts : attempt[b].pc \in {"none", "read", "install"} /\ (attempt[b].pc = "install" => ~attempt[b].stored)
    BY <1>1
  <2>2. \A b, c \in Attempts : Busy(b) /\ Busy(c) => b = c
    BY <1>1 DEF Busy
  <2>3. appRx = <<>>
    BY DEF Init
  <2>. QED  BY <2>1, <2>2, <2>3 DEF AnswerInv, SoloInv, Past
<1>5. AgreeInv
  BY DEF Init, AgreeInv, Signed
<1>6. CodeInv /\ WaitingHasCause
  BY DEF Init, CodeInv, CodeOnScreenIsPolled, WaitingHasCause, FreshScreen, InAuth
<1>. QED  BY <1>2, <1>3, <1>4, <1>5, <1>6 DEF IInv

\* Every reachable state satisfies the inductive invariant.
THEOREM Invariance == Spec => []IInv
<1>1. IInv /\ [Next]_vars => IInv'
  BY TypeStep, ProcessStep, AnswerStep, SoloStep, AgreeStep, CodeStep, WaitingStep DEF IInv
<1>. QED  BY InitInv, <1>1, PTL DEF Spec

\* Every variable always has its type (auth_service.rs, reduce.rs, event.rs).
THEOREM TypeCorrect == Spec => []TypeOK
<1>1. IInv => TypeOK
  BY DEF IInv
<1>. QED  BY Invariance, <1>1, PTL

\* Whatever answers, fails or is given up, the sign-in screen waits only while
\* an attempt or a request for a code is under way or its event in the channel.
THEOREM WaitingIsCaused == Spec => []WaitingHasCause
<1>1. IInv => WaitingHasCause
  BY DEF IInv
<1>. QED  BY Invariance, <1>1, PTL

\* However many device flows were begun and given up, the code on the screen is
\* one that is polled or whose answer is on its way.
THEOREM ShownCodeIsPolled == Spec => []CodeOnScreenIsPolled
<1>1. IInv => CodeOnScreenIsPolled
  BY DEF IInv, CodeInv
<1>. QED  BY Invariance, <1>1, PTL

\* Whichever call of a sign-in fails, a user on the screen is the owner of the
\* token in client and keyring, unless attempts were in each other's way.
THEOREM StoresAgree == Spec => []SignedInAgrees
<1>1. IInv => SignedInAgrees
  BY DEF IInv, AgreeInv, Agreed, SignedInAgrees
<1>. QED  BY Invariance, <1>1, PTL

\* The keyring loses only a refused token and gains only a checked one, unless
\* attempts overlap.
THEOREM KeyringIsEarned == Spec => KeyringStepIsEarned
<1>. DEFINE Earned == keyring' # keyring =>
                        \/ keyring' = NoToken /\ keyring \notin valid
                        \/ keyring' \in confirmed
                        \/ rival = "overlap"
<1>1. IInv /\ [Next]_vars => Earned
  <2>. SUFFICES ASSUME IInv, [Next]_vars, keyring' # keyring, rival # "overlap"
                PROVE  (keyring' = NoToken /\ keyring \notin valid) \/ keyring' \in confirmed
    OBVIOUS
  <2>1. PICK a \in Attempts : Keep(a) \/ Erase(a)
    BY DEF Next, Try, Install, Ask, Answer, Record, Forget, ReadStored, Poller, FlowInit, Wake, PollAnswer,
       Clock, PollFrame, Revoke, Handle, Key, PickPat, PickOAuth, Back, Submit, DismissUrlPrompt, KeyFrame,
       Gone, Boot, Blank, vars, stores
  <2>2. CASE Keep(a)
    BY <2>2 DEF Keep, IInv, AnswerInv, SoloInv, Past
  <2>3. CASE Erase(a)
    <3>1. attempt[a].stored
      BY <2>3 DEF Erase, IInv, ProcessInv, Past
    <3>. QED  BY <2>3, <3>1 DEF Erase, IInv, AnswerInv, SoloInv, Past
  <2>. QED  BY <2>1, <2>2, <2>3
<1>. QED  BY Invariance, <1>1, PTL DEF Spec, KeyringStepIsEarned
=============================================================================
