------------------------------- MODULE Shell -------------------------------
(***************************************************************************)
(* The main window and the tray icon of a running client (FrmMain), with   *)
(* the states of its entries as far as they decide about closing, about    *)
(* the window and about what the command line is told.  How an entry gets  *)
(* its state is Session's matter: here the service may report anything.    *)
(***************************************************************************)
EXTENDS Integers, Sequences, FiniteSets

CONSTANT Entries   \* the configs of the user, in the order of the list

ASSUME ShellAssumption == Entries \subseteq Nat

VARIABLES
    state,        \* the entries that are loaded, with their state
    tableState,   \* vpn-state in the table vpn, read by -status
    visible,      \* the window is shown
    menu,         \* the text of the tray menu's third action
    byKey,        \* history: the window was closed by Alt+F4
    dhWarning,    \* the box about small keys: due, open, over, or first: WinMain
                  \* has opened it, and QApplication::exec has not begun
    icon,         \* the tray icon is shown
    asking,       \* open boxes of closeApplication
    under,        \* those under the closeApplication that leaves
    posted,       \* CLOSE_VPN_CLIENT is in the message queue
    trayTimer,    \* the 500 ms of SetIP are running
    connections,  \* the static vector of receivedTapControl
    reconnected   \* history: the entries the last installation connected again

windowVars == <<visible, menu, byKey>>
closeVars == <<icon, asking, under, posted>>
tapVars == <<connections, reconnected>>
shellVars == <<state, tableState, windowVars, dhWarning, closeVars, trayTimer, tapVars>>

States == {"Disconnected", "Connected", "Connecting", "Disconnecting", "Error"}
Loaded == DOMAIN state
In(s) == {e \in Loaded : state[e] = s}

Only(f, S) == [x \in S |-> f[x]]

ShellInit ==
    /\ state = << >> /\ tableState = [e \in Entries |-> "Disconnected"]
    /\ visible = FALSE /\ menu = "Show window" /\ byKey = FALSE
    /\ dhWarning = "due"
    /\ icon = FALSE /\ asking = 0 /\ under = 0 /\ posted = FALSE /\ trayTimer = FALSE
    /\ connections = {} /\ reconnected = {}

\* The end of the process.  The table keeps the states of this moment.
ShellEnds ==
    /\ state' = << >> /\ visible' = FALSE /\ menu' = "Show window"
    /\ byKey' = FALSE /\ dhWarning' = "due"
    /\ icon' = FALSE /\ asking' = 0 /\ under' = 0 /\ posted' = FALSE /\ trayTimer' = FALSE
    /\ connections' = {} /\ reconnected' = {}
    /\ UNCHANGED tableState

-----------------------------------------------------------------------------
\* Entries

\* Configs::refreshConfigs: entries of the table that are not in the list are
\* loaded; a state that needs this process is corrected in memory only.
Corrected(s) == IF s \in {"Connected", "Connecting", "Disconnecting"} THEN "Disconnected" ELSE s
refreshConfigs ==
    LET new == DOMAIN tableState \ Loaded
        old == Loaded \cap DOMAIN tableState
    IN  state' = [e \in old \cup new |-> IF e \in old THEN state[e] ELSE Corrected(tableState[e])]

\* ConnectionData::SetState: the table, then the memory.
SetState(e, s) ==
    /\ tableState' = [tableState EXCEPT ![e] = s]
    /\ state' = [state EXCEPT ![e] = s]

\* A report of the service, or a click.  SetIP arms the timer of the tray.
Changes(e, s) ==
    /\ state[e] # s
    /\ SetState(e, s)
    /\ trayTimer' = (trayTimer \/ s = "Connected")
    /\ UNCHANGED <<windowVars, dhWarning, closeVars, tapVars>>

WarningOpen == dhWarning \in {"first", "open"}

\* What the window itself offers: no box is open.
windowFree == visible /\ asking = 0 /\ ~WarningOpen

\* MainListView::ContextRemove
ContextRemove(e) ==
    /\ windowFree
    /\ tableState' = Only(tableState, DOMAIN tableState \ {e})
    /\ state' = Only(state, Loaded \ {e})
    /\ UNCHANGED <<windowVars, dhWarning, closeVars, trayTimer, tapVars>>

-----------------------------------------------------------------------------
\* The window

sameRest == UNCHANGED <<tableState, closeVars, tapVars>>

\* showEvent, also called by taskBarMove for a window that is shown.
showNormal ==
    /\ menu' = "Hide window"
    /\ refreshConfigs
    /\ visible' = TRUE
    /\ byKey' = FALSE
    /\ UNCHANGED <<trayTimer, tableState, tapVars>>
showEvent == showNormal /\ UNCHANGED closeVars

\* Fault: the window is closed without a change of the menu.
closeOnly == visible' = FALSE /\ UNCHANGED menu

\* close() with setText("Show window"), also setMenuToShowWindow.
Hides == visible' = FALSE /\ menu' = "Show window"

hidesOnly == Hides /\ UNCHANGED <<state, byKey, dhWarning, trayTimer>> /\ sameRest

\* showDiffieHellmanWarning, the first time in a process: a box of its own, in
\* whose event loop the icon goes on working; the caller waits.
showDiffieHellmanWarning(wanted, how) ==
    IF dhWarning = "due" THEN dhWarning' = IF wanted THEN how ELSE "over"
    ELSE UNCHANGED dhWarning

\* What follows it in its callers: a window that is shown stays so.
warningOver ==
    /\ dhWarning' = "over"
    /\ IF visible
       THEN menu' = "Hide window" /\ UNCHANGED <<state, visible, byKey, trayTimer, tableState, tapVars>>
       ELSE showNormal

Shows(wanted) ==
    /\ showDiffieHellmanWarning(wanted, "open")
    /\ IF dhWarning = "due" /\ wanted THEN UNCHANGED <<state, windowVars, trayTimer>> /\ sameRest
       ELSE showEvent

\* The box is closed, if no box of closeApplication lies over it.
WarningClosed == WarningOpen /\ asking = 0 /\ warningOver /\ UNCHANGED closeVars

\* WinMain before QApplication::exec: showNormal, close, setMenuToShowWindow,
\* showTrayIcon, and for alwaysPopup the warning and showNormal.
FirstShown(popup, wanted, silent) ==
    /\ icon' = ~silent
    /\ refreshConfigs
    /\ IF popup THEN showDiffieHellmanWarning(wanted, "first") ELSE UNCHANGED dhWarning
    /\ IF popup /\ ~wanted THEN visible' = TRUE /\ menu' = "Hide window" ELSE Hides
    /\ UNCHANGED <<tableState, byKey, asking, under, posted, trayTimer, tapVars>>

\* A double click on the icon, and the third action of its menu.
trayActivated(wanted) == icon /\ IF visible THEN hidesOnly ELSE Shows(wanted)
showHideTrayMenu(wanted) == icon /\ IF visible THEN hidesOnly ELSE Shows(wanted)

\* The window's own button.
on_cmdCloseWindow_clicked == windowFree /\ hidesOnly

\* TBThread looks every 50 ms whether the task bar has moved; its message is
\* handled by the thread of the window.
taskBarMove == visible /\ showEvent /\ UNCHANGED dhWarning
TBThread == taskBarMove

\* WM_CLOSE from the keyboard: nobody changes the menu.
AltF4 ==
    /\ windowFree
    /\ visible' = FALSE
    /\ byKey' = TRUE
    /\ UNCHANGED <<state, menu, dhWarning, trayTimer>> /\ sameRest

\* checkIfSendToTrayIsNeeded, 500 ms after an entry was connected.
checkIfSendToTrayIsNeeded(wanted) ==
    /\ trayTimer
    /\ trayTimer' = FALSE
    /\ IF wanted /\ In("Error") = {} /\ In("Connecting") = {} /\ In("Connected") # {} /\ visible
       THEN Hides ELSE UNCHANGED <<visible, menu>>
    /\ UNCHANGED <<state, byKey, dhWarning>> /\ sameRest

-----------------------------------------------------------------------------
\* receivedTapControl: a device is missing (and the user agrees), it was
\* installed, or that failed.  The vector is emptied only by success.

TapNeeded ==
    /\ connections' = connections \cup In("Connected") \cup In("Connecting")
    /\ UNCHANGED <<state, tableState, windowVars, dhWarning, closeVars, trayTimer, reconnected>>

\* Fault: the vector is emptied and used whatever g_bSilent says.
reconnectsAlways(silent) ==
    /\ connections # {}
    /\ connections' = {}
    /\ reconnected' = connections
    /\ UNCHANGED <<state, tableState, windowVars, dhWarning, closeVars, trayTimer>>

TapInstalled(silent) ==
    /\ connections # {}
    /\ connections' = {}
    /\ reconnected' = IF silent THEN connections ELSE {}
    /\ UNCHANGED <<state, tableState, windowVars, dhWarning, closeVars, trayTimer>>

-----------------------------------------------------------------------------
\* Closing

noneElse == UNCHANGED <<state, tableState, windowVars, trayTimer, tapVars>>

\* sendClose: STOP_CLIENT from the service.
sendClose ==
    /\ posted' = TRUE
    /\ UNCHANGED <<icon, asking, under, dhWarning>> /\ noneElse

\* closeApplication asks if blockShutdown is on and an entry is connected.
\* Message::confirm is TRUE in silence.
MustAsk(block, silent) == block /\ In("Connected") # {} /\ ~silent

\* closeApplication up to its question, or else up to processEvents: the icon
\* goes, and what waits in the queues is still handled before the process ends.
closeApplication(block, silent) ==
    /\ IF MustAsk(block, silent)
       THEN asking' = asking + 1 /\ UNCHANGED <<icon, under>>
       ELSE icon' = FALSE /\ under' = asking /\ UNCHANGED asking
    /\ UNCHANGED dhWarning /\ noneElse

\* The answer.  Yes sends Close for every entry, which changes no state.
Answered(yes) ==
    /\ asking > under
    /\ asking' = asking - 1
    /\ IF yes THEN icon' = FALSE /\ under' = asking - 1 ELSE UNCHANGED <<icon, under>>
    /\ UNCHANGED <<posted, dhWarning>> /\ noneElse

\* QCoreApplication::exit closes every box.  If that was the warning of
\* WinMain, QApplication::exec comes only now and knows nothing of the exit:
\* the client goes on, without its icon.
exitComesTooEarly ==
    /\ dhWarning = "first" /\ warningOver
    /\ asking' = 0 /\ under' = 0
    /\ UNCHANGED <<icon, posted>>

-----------------------------------------------------------------------------
\* Properties

\* The menu offers to show a window that is hidden and to hide one that is
\* shown, through every way it is opened and closed except the keyboard.
MenuTells == byKey \/ (visible <=> menu = "Hide window")

\* The pointers that are connected again after an installation are entries
\* that still exist, although the vector keeps them over failed installations
\* and over removals: only a silent client uses it, and a silent client's
\* window is never shown, so that nothing can be removed there.
ReconnectsLive == reconnected \subseteq Loaded
=============================================================================
