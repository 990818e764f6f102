------------------------------ MODULE Session ------------------------------
(***************************************************************************)
(* One entry of the client's connection list and the service behind it:    *)
(* ConnectionData (its state, scripts and saved credentials), the message  *)
(* handlers of FrmMain and SrvCLI, the list's connect button and the       *)
(* dialogs that ask for credentials, composed with VpnService through the  *)
(* two directions of the client's socket.                                  *)
(*                                                                         *)
(* The socket delivers in order and without loss; it does not break here.  *)
(* Client and service take turns in any order, so every message may be     *)
(* overtaken by what happens at its destination.                           *)
(***************************************************************************)
EXTENDS VpnService, SequencesExt

CONSTANTS
    Me,         \* the client's connection
    Id,         \* the id of the entry
    StartGiven, \* the types that -user and -pwd answer
    MaxQueue,   \* bound: the user and openvpn rest while a queue is longer
    MaxDialogs, \* bound: dialogs open at a time
    MaxActs     \* bound: what the user does in the main window, and suspends

ASSUME SessionAssumption ==
    /\ Me \in Conns /\ Id \in Ids
    /\ StartGiven \subseteq {0, 1}
    /\ MaxQueue \in Nat /\ MaxDialogs \in Nat /\ MaxActs \in Nat

VARIABLES
    state,              \* ConnectionData::state
    errorAlreadyFired,  \* ConnectionData::errorAlreadyFired
    saved,              \* the types whose value is in the database
    dialogs,            \* types of the open dialogs, the newest one last
    script,             \* the button's handler runs a script: "BC", "BD" or "none"
    toService,          \* commands under way to the service
    toClient,           \* messages under way to the client
    ecRuns,             \* history: EC scripts run since Connect
    autoSent,           \* history: types whose saved value was sent
    refused,            \* history: ... and led to an AUTH_FAILED, and is still saved
    acts,               \* history: what the user has done, up to MaxActs
    unheard             \* history: the service ended or restarted something
                        \* without a word, or a removed object said something

client == <<state, errorAlreadyFired, saved, dialogs, script, ecRuns, acts>>
allVars == <<vars, client, toService, toClient, autoSent, refused, unheard>>

States == {"Disconnected", "Connecting", "Connected", "Disconnecting", "Error"}
Savable == {0, 1, 3, 5, 6}

Command1(cmd) == [cmd |-> cmd]
AnswerOf(type, by) == [cmd |-> "ANSWER", type |-> type, by |-> by]

\* SrvCLI::send of the client
ClientSends(cmds) == toService' = toService \o cmds

\* A step of the client leaves the service alone, which sends nothing in it.
ServiceRests ==
    /\ sent' = Nothing
    /\ UNCHANGED <<conn, vpn, place, owner, ident, vault, signalled>>

\* The user does something.
Acts ==
    /\ conn[Me] = "up"
    /\ script = "none"
    /\ Len(toService) < MaxQueue
    /\ acts < MaxActs
    /\ acts' = acts + 1

-----------------------------------------------------------------------------

\* ConnectionData::SetState.  ec is the number of EC scripts run before.
SetState(newState, ec) ==
    /\ state' = newState
    /\ errorAlreadyFired' = CASE newState = "Error" -> TRUE
                              [] newState = "Connecting" -> FALSE
                              [] OTHER -> errorAlreadyFired
    /\ ecRuns' = IF newState = "Error" /\ ~errorAlreadyFired /\ ec < 2 THEN ec + 1 ELSE ec

\* ConnectionData::Connect, which sets the state, runs the BC script and sends,
\* and ConnectionData::Disconnect, which runs the BD script if the entry is
\* connected and sends.  runScript processes events, so messages are received
\* between the two halves; what the user might do in that moment is left out.
ConnectEntry == SetState("Connecting", 0) /\ script' = "BC" /\ UNCHANGED toService

DisconnectEntry ==
    IF state = "Connected"
    THEN script' = "BD" /\ UNCHANGED <<state, errorAlreadyFired, ecRuns, toService>>
    ELSE ClientSends(<<Command1("CLOSE")>>) /\ SetState("Disconnecting", ecRuns) /\ UNCHANGED script

\* The connect button.  An open dialog is modal.
connectionButtonClicked ==
    /\ Acts
    /\ dialogs = << >>
    /\ IF state \in {"Connecting", "Connected"} THEN DisconnectEntry ELSE ConnectEntry
    /\ UNCHANGED <<saved, dialogs, toClient, autoSent, refused, unheard>>

\* The script has been started and the rest of the handler runs.
scriptStarted ==
    /\ \/ script = "BC" /\ ClientSends(<<Command1("OPEN")>>) /\ UNCHANGED <<state, errorAlreadyFired, ecRuns>>
       \/ script = "BD" /\ ClientSends(<<Command1("CLOSE")>>) /\ SetState("Disconnecting", ecRuns)
    /\ script' = "none"
    /\ UNCHANGED <<saved, dialogs, acts, toClient, autoSent, refused, unheard>>

SameEntry == UNCHANGED <<state, errorAlreadyFired, saved, dialogs, script, ecRuns>>

\* The machine goes to sleep: every entry is disconnected, whatever its state,
\* and no state is changed.
Suspend ==
    /\ Acts
    /\ ClientSends(<<Command1("CLOSE")>>)
    /\ SameEntry
    /\ UNCHANGED <<toClient, autoSent, refused, unheard>>

\* Another entry is removed: the states of all remaining ones are asked for.
ContextRemoveOther ==
    /\ Acts
    /\ dialogs = << >>
    /\ ClientSends(<<Command1("STATUS")>>)
    /\ SameEntry
    /\ UNCHANGED <<toClient, autoSent, refused, unheard>>

\* ConnectionData::HasCrediantials
HasCrediantials(type) == type \in saved

\* ConnectionData::saveUserData: an OTP is never saved.
saveUserData(type, save) == saved' = saved \cup (IF save THEN {type} \cap Savable ELSE {})

\* ConnectionData::getSavedUserData
getSavedUserData(type) == AnswerOf(type, "saved")

\* FrmGetUserData::showEvent: a dialog that asks for this type, over those
\* that are open.
showEvent(type) == dialogs' = Append(dialogs, type)

\* userInputIsNeeded, types 0 to 6
userInputIsNeeded(type) ==
    \/ /\ type \in StartGiven
       /\ ClientSends(<<AnswerOf(type, "start")>>)
       /\ UNCHANGED <<saved, dialogs, autoSent>>
    \/ /\ type \notin StartGiven /\ HasCrediantials(type)
       /\ ClientSends(<<getSavedUserData(type)>>)
       /\ autoSent' = autoSent \cup {type}
       /\ UNCHANGED <<saved, dialogs>>
    \/ /\ type \notin StartGiven /\ ~HasCrediantials(type)
       /\ Len(dialogs) < MaxDialogs
       /\ showEvent(type)
       /\ UNCHANGED <<saved, toService, autoSent>>

\* Fault: only the user name is cleared.
removeUserName ==
    /\ saved' = saved \ {0}
    /\ autoSent' = autoSent \ {0}
    /\ refused' = refused \ {0}

\* userInputIsNeeded, type -1: REMOVE_USER_DATA
removeUserData ==
    /\ saved' = saved \ (0 .. 6)
    /\ autoSent' = {}
    /\ refused' = {}

\* ConfigSettingsWidget::on_cmdRemoveCreds_clicked
on_cmdRemoveCreds_clicked ==
    /\ Acts
    /\ dialogs = << >>
    /\ removeUserData
    /\ UNCHANGED <<state, errorAlreadyFired, dialogs, script, ecRuns, toService, toClient, unheard>>

SameInput == UNCHANGED <<saved, dialogs, toService, autoSent>>
SameState == UNCHANGED <<state, errorAlreadyFired, ecRuns>>

\* Fault: only an entry that is connected is set to disconnected.
setDisconnectedIfConnected ==
    IF state # "Connected" THEN SameState ELSE SetState("Disconnected", ecRuns)

\* Fault: "connected" is tested first and both flags are taken for connected.
statusConnectedFirst(m) ==
    /\ SetState(IF m.connected \/ m.connecting THEN "Connected" ELSE "Disconnected", ecRuns)
    /\ IF m.lastAction > -1 THEN userInputIsNeeded(m.lastAction) ELSE SameInput

setDisconnected ==
    IF state = "Error" THEN SameState ELSE SetState("Disconnected", ecRuns)

setError == SetState("Error", ecRuns)
receivedIP == SetState("Connected", ecRuns)
receivedReconnect == SetState("Connecting", ecRuns)

\* receivedTapControl(1): if the user agrees, what is connected or connecting
\* is told to disconnect, without a change of its state, and ADDTAP is sent,
\* whose answers are Startup's matter.
receivedTapControl ==
    /\ \/ state \in {"Connected", "Connecting"} /\ ClientSends(<<Command1("CLOSE")>>)
       \/ UNCHANGED toService
    /\ SameState
    /\ UNCHANGED <<saved, dialogs, autoSent>>

receivedStatus(m) ==
    /\ SetState(IF m.connecting THEN "Connecting"
                ELSE IF m.connected THEN "Connected" ELSE "Disconnected", ecRuns)
    /\ IF m.lastAction > -1 THEN userInputIsNeeded(m.lastAction) ELSE SameInput

\* SrvCLI::slotStartRead: one message.
Receive ==
    /\ toClient # << >>
    /\ toClient' = Tail(toClient)
    /\ LET m == Head(toClient)
       IN  \/ m.cmd = "DISCONNECTED" /\ setDisconnected /\ SameInput /\ UNCHANGED refused
           \/ m.cmd = "ERROR" /\ setError /\ SameInput /\ UNCHANGED refused
           \/ m.cmd = "RECEIVEDIP" /\ receivedIP /\ SameInput /\ UNCHANGED refused
           \/ m.cmd = "RESTART" /\ receivedReconnect /\ SameInput /\ UNCHANGED refused
           \/ m.cmd = "STATUS" /\ receivedStatus(m) /\ UNCHANGED refused
           \/ m.cmd = "INPUT" /\ userInputIsNeeded(m.type) /\ SameState /\ UNCHANGED refused
           \/ m.cmd = "REMOVE_USER_DATA" /\ removeUserData /\ SameState /\ UNCHANGED <<dialogs, toService>>
           \/ m.cmd = "TAPINSTALL" /\ receivedTapControl /\ UNCHANGED refused
    /\ UNCHANGED <<script, acts, unheard>>

\* History: a message that may be answered is marked with the types whose
\* saved value had been refused before it was sent.  A mark is about that
\* value, and goes when another one is saved.
Marked(m, bad) ==
    CASE m.cmd = "INPUT" -> [cmd |-> "INPUT", type |-> m.type, bad |-> bad]
      [] m.cmd = "STATUS" -> [cmd |-> "STATUS", connected |-> m.connected, connecting |-> m.connecting,
                              lastAction |-> m.lastAction, bad |-> bad]
      [] OTHER -> m

\* The dialog's OK, with or without "save".
on_cmdOK_clicked(save) ==
    /\ dialogs # << >>
    /\ Len(toService) < MaxQueue
    /\ LET type == Last(dialogs)
           kept == IF save /\ type \in Savable THEN {type} ELSE {}
       IN  /\ ClientSends(<<AnswerOf(type, "user")>>)
           /\ saveUserData(type, save)
           /\ autoSent' = autoSent \ kept
           /\ refused' = refused \ kept
           /\ toClient' = [k \in DOMAIN toClient |-> Marked(toClient[k], toClient[k].bad \ kept)]
    /\ dialogs' = Front(dialogs)
    /\ UNCHANGED <<state, errorAlreadyFired, script, ecRuns, acts, unheard>>

\* The dialog is closed: the VPN is closed, and the prompt answered with nothing.
closeEvent ==
    /\ dialogs # << >>
    /\ Len(toService) < MaxQueue
    /\ ClientSends(<<Command1("CLOSE"), AnswerOf(Last(dialogs), "user")>>)
    /\ dialogs' = Front(dialogs)
    /\ UNCHANGED <<state, errorAlreadyFired, script, ecRuns, acts, saved, toClient,
                   autoSent, refused, unheard>>

Client ==
    /\ \/ connectionButtonClicked \/ scriptStarted \/ Suspend \/ ContextRemoveOther \/ Receive
       \/ \E save \in BOOLEAN : on_cmdOK_clicked(save)
       \/ closeEvent \/ on_cmdRemoveCreds_clicked
    /\ ServiceRests

-----------------------------------------------------------------------------
\* What a step of the service sends goes onto the socket.
Deliver ==
    toClient' = IF sent'.msgs # << >> /\ sent'.to = Me
                THEN toClient \o [k \in DOMAIN sent'.msgs |-> Marked(sent'.msgs[k], refused)]
                ELSE toClient

\* A CLOSE whose exit event cannot be created is not answered.
HeardOf == unheard' = (unheard \/ place' = place)

Ignore == Items(Me, Id) = {} /\ ServiceRests /\ UNCHANGED toClient

\* SslServerConnection::slotStartRead: one command.
Serve ==
    /\ toService # << >>
    /\ toService' = Tail(toService)
    /\ LET m == Head(toService)
       IN  \/ /\ m.cmd = "OPEN"
              /\ \/ OpenAgain(Me, Id)
                 \/ OpenRejected(Me, Id)
                 \/ \E outcome \in Outcomes, n \in RemoteLines : OpenNew(Me, Id, outcome, n)
              /\ Deliver
              /\ UNCHANGED unheard
           \/ m.cmd = "CLOSE" /\ CLOSE(Me, Id) /\ Deliver /\ HeardOf
           \/ m.cmd = "STATUS" /\ STATUS(Me, Id) /\ Deliver /\ UNCHANGED unheard
           \/ m.cmd = "ANSWER" /\ Answer(Me, Id, m.type) /\ Deliver /\ UNCHANGED unheard
           \/ m.cmd \in {"CLOSE", "ANSWER"} /\ Ignore /\ UNCHANGED unheard
    /\ UNCHANGED <<client, autoSent, refused>>

\* openvpn and the service's event loop.  openvpn prints nothing while it
\* waits for an answer.
Speaks(o) ==
    /\ Len(toClient) < MaxQueue /\ Len(toService) < MaxQueue
    /\ vpn[o].lastAction = -1
    /\ \E chunk \in Chunks, eventOk \in EventResults :
         /\ Output(o, chunk, eventOk)
         /\ refused' = IF Plain("REMOVE_USER_DATA") \in
                            Range(readProcessDataSends(vpn[o], chunk, eventOk))
                       THEN autoSent ELSE refused
         /\ unheard' = \/ unheard
                       \/ place[o] = "doomed"
                       \/ GivesUp(vpn[o], chunk) /\ (eventOk => "InitCompleted" \in chunk)

Ends(o) ==
    /\ Finished(o)
    /\ unheard' = (unheard \/ (place[o] = "listed" /\ processFinishedSends(vpn[o]) = << >>))
    /\ UNCHANGED refused

Runs(o) ==
    /\ \/ ReadsConfig(o) \/ ConfigMissing(o) \/ Delete(o)
       \/ \E how \in {"exited", "crashed"} : ProcExit(o, how)
    /\ UNCHANGED <<unheard, refused>>

\* Connections are accepted, and the command line may close the VPN.
Others ==
    /\ \/ (\E c \in Conns : Connected(c)) /\ UNCHANGED unheard
       \/ (\E c \in Conns : CliCLOSE(c, Me, Id)) /\ HeardOf
    /\ UNCHANGED refused

Service ==
    \/ Serve
    \/ /\ (\E o \in Objs : Speaks(o) \/ Ends(o) \/ Runs(o)) \/ Others
       /\ Deliver
       /\ UNCHANGED <<client, toService, autoSent>>

SessionInit ==
    /\ Init
    /\ state = "Disconnected"
    /\ errorAlreadyFired = FALSE
    /\ saved \in SUBSET {1}
    /\ dialogs = << >> /\ script = "none"
    /\ toService = << >> /\ toClient = << >>
    /\ ecRuns = 0 /\ acts = 0
    /\ autoSent = {} /\ refused = {}
    /\ unheard = FALSE

SessionNext == Client \/ Service

\* Both event loops run: what has arrived is read, a finished process is
\* noticed, a timer fires.  The user and openvpn owe nobody anything.
SessionFairness ==
    /\ WF_allVars(Receive /\ ServiceRests) /\ WF_allVars(Serve)
    /\ WF_allVars(scriptStarted /\ ServiceRests)
    /\ \A o \in Objs :
         WF_allVars((Ends(o) \/ (Delete(o) /\ UNCHANGED <<unheard, refused>>))
                      /\ Deliver /\ UNCHANGED <<client, toService, autoSent>>)

SessionSpec == SessionInit /\ [][SessionNext]_allVars
FairSession == SessionSpec /\ SessionFairness

-----------------------------------------------------------------------------
\* Properties.

AtRest == toService = << >> /\ toClient = << >> /\ script = "none"

\* Safety: when nothing is under way, an entry that is shown as connected is
\* connected: the service lists an object for it whose connection is stable.
\* It holds up to what unheard records: processFinished tells the client
\* nothing unless the process crashed, nor does disconnectVpn if it has no
\* exit event; a removed object goes on sending until it is deleted; and one
\* that gives up reports an IP from the same chunk after DISCONNECTED.
GreenIsConnected ==
    AtRest /\ state = "Connected" /\ ~unheard
        => \E o \in Items(Me, Id) : vpn[o].connectionStable

\* Action property: once the server has refused a saved credential, a later
\* prompt of openvpn, and a later STATUS that tells of one, is not answered
\* with that credential.  It depends on REMOVE_USER_DATA being sent before
\* the next INPUT, arriving before it, and clearing every type.
NoRefusedResend ==
    [][\A type \in Savable :
          /\ toClient # << >> /\ Head(toClient).cmd \in {"INPUT", "STATUS"}
          /\ toService' = Append(toService, AnswerOf(type, "saved"))
          => type \notin Head(toClient).bad]_allVars

\* Liveness: once a CLOSE has reached a service that lists the VPN, the entry
\* does not stay in Disconnecting for good (unless the process ends silently
\* first).
DisconnectAnswered ==
    (toService # << >> /\ Head(toService).cmd = "CLOSE" /\ Items(Me, Id) # {})
        ~> (state # "Disconnecting" \/ unheard)

=============================================================================
