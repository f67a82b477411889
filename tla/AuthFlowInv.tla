---------------------------- MODULE AuthFlowInv ----------------------------
(***************************************************************************)
(* The inductive invariant behind the theorems of AuthFlowProofs, kept     *)
(* apart so that TLC checks it on a small instance before it is proved.    *)
(***************************************************************************)
EXTENDS AuthFlow

Past(a, pcs) == attempt[a].pc \in pcs

\* Only the attempt at the start looks a token up, and the loop begins when
\* that attempt is over; without the loop there is no other task and no event.
ProcessInv ==
  /\ proc = "start" <=> Busy(Startup)
  /\ proc # "loop" =>
       /\ screen = FreshScreen /\ appRx = <<>>
       /\ \A a \in Attempts \ {Startup} : attempt[a].pc = "none"
       /\ \A f \in Flows : flow[f] = "none"
  /\ \A a \in Attempts : Past(a, {"read", "erase", "forget"}) => attempt[a].stored
  /\ \A a \in Attempts \ {Startup} : ~attempt[a].stored

\* What stands in an attempt was accepted by GitHub, or refused by it.
AnswerInv ==
  \A a \in Attempts :
    /\ Past(a, {"keep", "record"}) => attempt[a].asked \in confirmed
    /\ Past(a, {"erase"}) => attempt[a].asked \notin valid

\* While attempts do not overlap there is one at a time, its result included,
\* and client and keyring are as it has left them.
SoloInv ==
  rival # "overlap" =>
    /\ \A a, b \in Attempts : Busy(a) /\ Busy(b) => a = b
    /\ \A a \in Attempts, k \in DOMAIN appRx : Busy(a) => appRx[k].kind # "Succeeded"
    /\ \A a \in Attempts :
         /\ Past(a, {"ask", "wait", "keep", "record", "erase"}) => client = attempt[a].token
         /\ Past(a, {"wait", "keep", "record", "erase"}) => attempt[a].asked = attempt[a].token
         /\ Past(a, {"record"}) => keyring = attempt[a].token
         /\ attempt[a].stored /\ Past(a, {"install", "ask", "wait", "erase"}) => keyring = attempt[a].token

\* The three stores say that this user is signed in, by this attempt.
Agreed(who, by) ==
  /\ client = keyring /\ client # NoToken
  /\ Owner[client] = who
  /\ by # Startup => who \in accounts

\* A lone sign-in leaves them so, on the screen or on its way to it, and none
\* begins on top of a session.
AgreeInv ==
  rival = "none" =>
    /\ Signed => Agreed(session.who, session.by)
    /\ \A k \in DOMAIN appRx : appRx[k].kind = "Succeeded" => Agreed(appRx[k].what, appRx[k].by)
    /\ \A a \in Attempts : Busy(a) /\ attempt[a].pc # "read" => ~Signed

\* The last word about a device code.
Final(e, f) == e.by = f /\ e.kind \in {"Token", "Timeout", "FlowFailed"}
Polled(f) == flow[f] \in {"sleep", "asked"}

\* A code still to be shown is polled, or its last word comes behind it; a code
\* on the screen is that of a flow.
CodeInv ==
  /\ \A k \in DOMAIN appRx : appRx[k].kind = "Code" =>
       \/ Polled(appRx[k].by)
       \/ \E l \in DOMAIN appRx : k < l /\ Final(appRx[l], appRx[k].by)
  /\ InAuth /\ screen.phase \in {"CodePrompt", "CodeShown"} => screen.code \in Flows
  /\ CodeOnScreenIsPolled

IInv ==
  /\ TypeOK /\ ProcessInv /\ AnswerInv /\ SoloInv /\ AgreeInv /\ CodeInv
  /\ WaitingHasCause
=============================================================================
