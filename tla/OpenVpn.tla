------------------------------ MODULE OpenVpn ------------------------------
(***************************************************************************)
(* The service's OpenVpn object (service/openvpn.cpp): one per VPN that a  *)
(* client has opened, wrapping one openvpn.exe process.  This module has   *)
(* no variables.  It gives the object as a record and each of its methods  *)
(* as an operator from the object to the object after the call, together   *)
(* with the messages the call sends; VpnService owns the objects.          *)
(*                                                                         *)
(* What openvpn.exe prints arrives in chunks of whatever is in the pipe.   *)
(* The code searches a chunk for phrases, so a chunk is the SET of phrases *)
(* it contains.  LOG messages and the text of messages are left out.       *)
(***************************************************************************)
EXTENDS Integers, Sequences

\* Prompts, in the order in which readProcessData tests for them, and the
\* lastAction (= INPUT type) each stands for.
PromptOrder == <<"PrivateKey", "AuthUsername", "ChallengeUsername", "AuthPassword",
                 "ChallengePassword", "ChallengePin", "HttpUsername", "HttpPassword">>
PromptType == [PrivateKey |-> 3, AuthUsername |-> 0, ChallengeUsername |-> 0,
               AuthPassword |-> 1, ChallengePassword |-> 2, ChallengePin |-> 2,
               HttpUsername |-> 5, HttpPassword |-> 6]

\* Error phrases in the order of the else-if chain.  "Fatal" stands for the
\* phrases that only differ in the message shown (bad decrypt, mac verify
\* failure, expired certificate, "Exiting", "Use --help", ...).
ErrorOrder == <<"TapNeeded", "NeedPem", "TlsFailed", "Unresolved", "AuthFailed",
                "Fatal", "TryAgain", "NoRoute">>

\* "ProxyAuth": "Proxy requires authentication" without "process exiting";
\* "SigTerm": the line openvpn prints on a normal end; "TokenPin": an
\* AUTH_FAILED that asks for a PIN.
OtherPhrases == {"TapNotified", "ProxyAuth", "SigTerm", "TokenPin",
                 "RestartPause", "InitCompleted"}

Phrases == {PromptOrder[i] : i \in DOMAIN PromptOrder}
             \cup {ErrorOrder[i] : i \in DOMAIN ErrorOrder} \cup OtherPhrases

\* The first phrase of an if / else-if chain that the chunk contains.
FirstOf(order, chunk) ==
    LET hits == {i \in DOMAIN order : order[i] \in chunk}
    IN  IF hits = {} THEN "none"
        ELSE order[CHOOSE i \in hits : \A j \in hits : i <= j]

-----------------------------------------------------------------------------
\* The object.  proc is the QProcess: "none" (not started, or its end has
\* been dealt with), "starting" (openvpn has not read its config yet),
\* "running", and "exited" / "crashed" (ended, finished() not delivered yet).
\* wired: the process's signals are connected to this object's slots.
\* challangeUserName is reduced to whether a name is known.

Procs == {"none", "starting", "running", "exited", "crashed"}
Alive == {"starting", "running"}
Actions == -1 .. 6

OpenVpnObject ==
    [onDisconnect : BOOLEAN, connectionStable : BOOLEAN, connecting : BOOLEAN,
     lastAction : Actions, retryMultiHostCount : Nat,
     connectionIsAOtpConnection : BOOLEAN, challangeUserName : BOOLEAN,
     proc : Procs, wired : BOOLEAN]

\* The constructor.
NewOpenVpn ==
    [onDisconnect |-> FALSE, connectionStable |-> FALSE, connecting |-> FALSE,
     lastAction |-> -1, retryMultiHostCount |-> 0,
     connectionIsAOtpConnection |-> FALSE, challangeUserName |-> FALSE,
     proc |-> "none", wired |-> FALSE]

\* Messages about one VPN, without the VPN's id.
Plain(cmd) == [cmd |-> cmd]
Input(type) == [cmd |-> "INPUT", type |-> type]

\* One message if the condition holds, none otherwise.
When(cond, m) == IF cond THEN <<m>> ELSE << >>

\* sendStatus
sendStatus(o) == [cmd |-> "STATUS", connected |-> o.connectionStable,
                  connecting |-> o.connecting, lastAction |-> o.lastAction]

-----------------------------------------------------------------------------
\* The outcomes of connectToVpn:
\*   "noConfig"  the file cannot be read: ERROR, the object stays listed
\*   "noExe"     openvpn.exe is missing: the object removes itself, silently
\*   "failed"    the process does not start: ERROR (from showProcessError),
\*               and the object removes itself
\*   "started"
ConnectOutcomes == {"noConfig", "noExe", "failed", "started"}

\* Fault: the early return without the reset of connecting.
stillConnecting(o, outcome, remoteLines) ==
    [o EXCEPT !.connecting = TRUE, !.lastAction = -1,
              !.wired = outcome # "noConfig",
              !.proc = IF outcome = "started" THEN "starting" ELSE "none"]

\* connectToVpn.  The config file's lines that begin with "remote" are
\* counted; every such line raises the number of hosts to try.
connectToVpn(o, outcome, remoteLines) ==
    LET hosts == o.retryMultiHostCount + remoteLines
    IN  CASE outcome = "noConfig" ->
               [o EXCEPT !.lastAction = -1, !.connecting = FALSE, !.connectionStable = FALSE]
          [] outcome = "noExe" ->
               [o EXCEPT !.connecting = TRUE, !.lastAction = -1,
                         !.retryMultiHostCount = hosts, !.wired = TRUE]
          [] outcome = "failed" ->
               [o EXCEPT !.connecting = TRUE, !.lastAction = -1, !.connectionStable = FALSE,
                         !.retryMultiHostCount = hosts, !.wired = TRUE]
          [] OTHER ->
               [o EXCEPT !.connecting = TRUE, !.lastAction = -1,
                         !.retryMultiHostCount = hosts, !.wired = TRUE, !.proc = "starting"]

connectToVpnSends(outcome) == When(outcome \in {"noConfig", "failed"}, Plain("ERROR"))
connectToVpnRemoves(outcome) == outcome \in {"noExe", "failed"}

\* showProcessError(Crashed), then processFinished: what the end of the
\* process leads to.  The client hears of it only if it was a crash that
\* nobody had asked for; there is no DISCONNECTED.
processFinished(o) ==
    [o EXCEPT !.wired = FALSE, !.connectionStable = FALSE, !.connecting = FALSE,
              !.lastAction = -1, !.proc = "none"]
processFinishedSends(o) == When(o.proc = "crashed" /\ ~o.onDisconnect, Plain("ERROR"))

\* disconnectVpn.  If the exit event cannot be created it returns early,
\* with the process still running and nobody listening to it any more.
disconnectVpn(o, eventOk) ==
    [o EXCEPT !.wired = FALSE, !.onDisconnect = TRUE, !.connectionStable = FALSE,
              !.connecting = FALSE, !.proc = IF eventOk THEN "none" ELSE @]

\* setUsername, setPassword, setPrivateKey, setChallengeKey: written to the
\* process if it can be written to, and the request counts as answered.
Writable(o) == o.proc \in Alive
answer(o, type) ==
    IF Writable(o)
    THEN [o EXCEPT !.lastAction = -1,
                   !.challangeUserName = @ \/ type \in {0, 5}]
    ELSE o

-----------------------------------------------------------------------------
\* readProcessData, one chunk.

ErrorKind(chunk) == FirstOf(ErrorOrder, chunk)
OtpPhrase(chunk) == chunk \cap {"TokenPin", "ChallengePin"} # {}

\* A host failed and there is none left to try: _tlsHandshakeFailed.
GivesUp(o, chunk) ==
    ErrorKind(chunk) \in {"TlsFailed", "Unresolved"} /\ o.retryMultiHostCount <= 0

\* "No Route to Host" and none left to try: the process is killed.
Kills(o, chunk) == ErrorKind(chunk) = "NoRoute" /\ o.retryMultiHostCount <= 0

\* Fault: the number of hosts left is never lowered.
forgetsHost(o, chunk) == FALSE

\* A host failed and there is another one.
UsesHost(o, chunk) ==
    ErrorKind(chunk) \in {"TlsFailed", "Unresolved", "NoRoute"} /\ o.retryMultiHostCount > 0

\* errorOcurred, after the three corrections below the chain.
ErrorOccurred(chunk) ==
    /\ ErrorKind(chunk) \notin {"none", "TryAgain", "NoRoute"}
    /\ "ProxyAuth" \notin chunk
    /\ "SigTerm" \notin chunk
    /\ ~OtpPhrase(chunk)

\* The name that was given before answers a second user prompt by itself.
SelfAnswered(o, chunk) ==
    FirstOf(PromptOrder, chunk) = "ChallengeUsername" /\ o.challangeUserName

LastActionAfter(o, chunk) ==
    LET prompt == FirstOf(PromptOrder, chunk)
    IN  IF "TapNotified" \in chunk \/ SelfAnswered(o, chunk) THEN -1
        ELSE IF prompt = "none" THEN o.lastAction ELSE PromptType[prompt]

readProcessData(o, chunk, eventOk) ==
    LET read == [o EXCEPT
          !.lastAction = LastActionAfter(o, chunk),
          !.retryMultiHostCount = IF UsesHost(o, chunk) THEN @ - 1 ELSE @,
          !.connectionIsAOtpConnection = @ \/ OtpPhrase(chunk),
          !.connectionStable = IF ErrorOccurred(chunk) \/ Kills(o, chunk) THEN FALSE
                               ELSE @ \/ "TapNotified" \in chunk,
          !.onDisconnect = @ \/ Kills(o, chunk),
          !.proc = IF Kills(o, chunk) THEN "crashed" ELSE @]
        left == IF GivesUp(o, chunk) THEN disconnectVpn(read, eventOk) ELSE read
    IN  IF "InitCompleted" \in chunk
        THEN [left EXCEPT !.connectionStable = TRUE, !.connecting = FALSE]
        ELSE left

\* The messages, in the order in which the body sends them.
readProcessDataSends(o, chunk, eventOk) ==
    LET prompt == FirstOf(PromptOrder, chunk)
    IN  When(prompt # "none" /\ ~SelfAnswered(o, chunk), Input(PromptType[prompt]))
     \o When(ErrorKind(chunk) = "TapNeeded", Plain("TAPINSTALL"))
     \o When(ErrorKind(chunk) = "NoRoute", Plain("ERROR"))
     \o When(ErrorOccurred(chunk), Plain("ERROR"))
     \o When("AuthFailed" \in chunk /\ ~(o.connectionIsAOtpConnection \/ OtpPhrase(chunk)),
             Plain("REMOVE_USER_DATA"))
     \o When(GivesUp(o, chunk) /\ eventOk, Plain("DISCONNECTED"))
     \o When("RestartPause" \in chunk /\ ~GivesUp(o, chunk), Plain("RESTART"))
     \o When("InitCompleted" \in chunk, Plain("RECEIVEDIP"))
=============================================================================
