--------------------------- MODULE ClientProcess ---------------------------
(***************************************************************************)
(* WinMain of the client and SingleApplication: a process is started with  *)
(* a command line, splits it (CommandLine), goes through its options, asks *)
(* whether a client runs already, and either ends or becomes the client of *)
(* this user: it opens its database and settings (ClientStore), checks for *)
(* updates (UpdateCheck), shows its window (Shell) and runs until it is    *)
(* closed, killed, or crashes.                                             *)
(*                                                                         *)
(* boot is the process that is just being started, pc the client that      *)
(* runs.  The portable client has a folder of its own; only the shared     *)
(* memory is common.  A second client that is let in because the first one *)
(* could not create the shared memory is not followed.                     *)
(***************************************************************************)
EXTENDS CommandLine, ClientStore, UpdateCheck, Shell

CONSTANTS OddLines,      \* lines that are only split: started first
          ProxyInputs,   \* what the user leaves the proxy page with
          MaxRuns,       \* bound: processes started
          CheckedRuns,   \* bound: later processes get no answer to their check
          MaxActs        \* bound: what happens to clients that are up

ASSUME ProcessAssumption ==
    /\ {MaxRuns, MaxActs, CheckedRuns} \subseteq Nat
    /\ \A p \in ProxyInputs : p.use \in {"CONFIG", "IE", "MANUAL"} /\ p.http \in BOOLEAN

VARIABLES
    boot,       \* none, scan, options, refresh, attach, create, waiting, second
    x,          \* the loop over the options
    opt,        \* what they set: -silent, and an unknown one was found
    pc,         \* off, database, execute, window, migrate, update, show, up,
                \* saving, leaving
    silent,     \* g_bSilent of the client that runs
    holders,    \* the processes attached to the shared memory "1x4z37"
    runs, acts

processVars == <<boot, x, opt, pc, silent, holders, runs, acts>>
allVars == <<scanVars, storeVars, updateVars, shellVars, processVars>>
resident == <<storeVars, updateVars, shellVars, pc, silent>>

NoOptions == [silent |-> FALSE, unknown |-> FALSE]

ProcessInit ==
    /\ ScanStarts(<< >>) /\ StoreInit /\ UpdateInit /\ ShellInit
    /\ boot = "none" /\ x = 1 /\ opt = NoOptions
    /\ pc = "off" /\ silent = FALSE
    /\ holders = {}
    /\ runs = 0 /\ acts = 0

-----------------------------------------------------------------------------
\* Starting a process

Loads(line) ==
    /\ CmdLine' = line /\ i' = 0 /\ argv' = << >> /\ _argv' = << >>
    /\ in_QM' = FALSE /\ in_TEXT' = FALSE /\ in_SPACE' = TRUE
    /\ x' = 1 /\ opt' = NoOptions

BootEnds == boot' = "none" /\ Loads(<< >>)

Start ==
    /\ boot = "none" /\ runs < MaxRuns
    /\ \E line \in Lines :
          /\ line \in OddLines => runs = 0
          /\ Loads(line)
    /\ runs' = runs + 1
    /\ boot' = "scan"
    /\ UNCHANGED <<resident, holders, acts>>

\* CommandLineToArgvA
Splits ==
    /\ boot = "scan"
    /\ IF Scanning THEN Scan /\ UNCHANGED boot
       ELSE boot' = "options" /\ UNCHANGED scanVars
    /\ UNCHANGED <<resident, x, opt, holders, runs, acts>>

Is(word) == Argument(x + 1) = <<word>>
Follow(n) == x + n < argc

\* The options that end the process, those of them that read the list of the
\* configs first (-disconnect only if its two numbers are), those that ask the
\* service and wait for its answer, and those that take the next argument with
\* them.  -delayDaemon
\* reads its number but leaves it in place.
Disconnects == Is("-disconnect") /\ Follow(2)
Ends == Is("-help") \/ Is("-version") \/ Is("-status") \/ Disconnects
Refreshes == Is("-status") \/ Disconnects
Asks == (Is("-log") /\ Follow(1)) \/ (Is("-error") /\ Follow(2)) \/ Is("-stop") \/ Is("-clients")
Takes == (Is("-user") \/ Is("-pwd")) /\ Follow(1)
Known == \/ Is("-silent") \/ Is("-german") \/ Is("-debug") \/ Is("-manage") \/ Is("-noSave")
         \/ Is("-vpnlog") \/ (Is("-delayDaemon") /\ Follow(1)) \/ Takes

\* -stop reaches the client that runs, through the service.
STOP_CLIENTS == IF pc \in {"up", "saving", "leaving"} THEN sendClose ELSE UNCHANGED shellVars
StopClients == IF Is("-stop") THEN STOP_CLIENTS ELSE UNCHANGED shellVars

\* One pass of the loop over the options.
Option ==
    /\ boot = "options" /\ x < argc
    /\ \/ Ends /\ ~Is("-status") /\ BootEnds /\ UNCHANGED <<storeVars, shellVars>>
       \/ /\ Refreshes
          /\ boot' = "refresh"
          /\ OtherOpens
          /\ UNCHANGED <<scanVars, x, opt, shellVars>>
       \/ Asks /\ BootEnds /\ UNCHANGED <<storeVars, shellVars>>
       \/ /\ Asks
          /\ boot' = "waiting"
          /\ StopClients
          /\ UNCHANGED <<scanVars, x, opt, storeVars>>
       \/ /\ ~Ends /\ ~Asks
          /\ opt' = [silent |-> opt.silent \/ Is("-silent"), unknown |-> opt.unknown \/ ~Known]
          /\ x' = IF Takes THEN x + 2 ELSE x + 1
          /\ UNCHANGED <<scanVars, boot, storeVars, shellVars>>
    /\ UNCHANGED <<updateVars, pc, silent, holders, runs, acts>>

\* Configs::refreshConfigs of -status and -disconnect: the first use of the
\* database opens it, and perhaps creates it, beside a client that starts or
\* runs.  Then the process ends, or before, when it is killed.  The rows whose
\* files are missing, which it deletes (Configs), have their files here.
RefreshOfOther ==
    /\ boot = "refresh"
    /\ \/ OtherExecutes /\ UNCHANGED <<scanVars, boot, x, opt>>
       \/ OtherEnds /\ BootEnds
    /\ UNCHANGED <<updateVars, shellVars, pc, silent, holders, runs, acts>>

\* ClientCom::slotRead: whatever comes, the process ends.
slotRead ==
    /\ boot = "waiting"
    /\ BootEnds
    /\ UNCHANGED <<resident, holders, runs, acts>>

OptionsDone ==
    /\ boot = "options" /\ x >= argc
    /\ IF opt.unknown THEN BootEnds ELSE boot' = "attach" /\ UNCHANGED <<scanVars, x, opt>>
    /\ UNCHANGED <<resident, holders, runs, acts>>

\* SingleApplication::setSharedKey and the test behind it: a process that
\* could attach ends.
Attach ==
    /\ boot = "attach"
    /\ IF holders # {} THEN BootEnds ELSE boot' = "create" /\ UNCHANGED <<scanVars, x, opt>>
    /\ UNCHANGED <<resident, holders, runs, acts>>

\* create fails if somebody else was faster; the client runs nevertheless.
Create ==
    /\ boot = "create"
    /\ holders' = IF holders = {} THEN {"client"} ELSE holders
    /\ IF pc = "off"
       THEN BootEnds /\ pc' = "database" /\ silent' = opt.silent
       ELSE boot' = "second" /\ UNCHANGED <<scanVars, x, opt, pc, silent>>
    /\ UNCHANGED <<storeVars, updateVars, shellVars, runs, acts>>

\* A portable client does not ask whether somebody runs.
Portable ==
    /\ boot \in {"attach", "create"} /\ runs < MaxRuns
    /\ \/ "portable" \notin holders /\ holders' = holders \cup {"portable"} /\ runs' = runs + 1
       \/ "portable" \in holders /\ holders' = holders \ {"portable"} /\ UNCHANGED runs
    /\ UNCHANGED <<scanVars, resident, boot, x, opt, acts>>

-----------------------------------------------------------------------------
\* The client comes up

\* A process that splits its own command line and goes through the options is
\* seen by nobody: these steps of it come one after the other.
At(p) == pc = p /\ boot \notin {"scan", "options"}

others == <<scanVars, boot, x, opt, silent, holders, runs, acts>>

Opens ==
    /\ At("database") /\ pc' = "execute"
    /\ OpenDatabase
    /\ UNCHANGED <<updateVars, shellVars, others>>

Creates ==
    /\ At("execute")
    /\ IF todo # << >> THEN Execute /\ UNCHANGED pc ELSE loadOrRefresh /\ pc' = "window"
    /\ UNCHANGED <<updateVars, shellVars, others>>

\* The constructor of FrmMain, which makes the ProxySettings, then initDaemon.
WindowIsThere ==
    /\ LoadProxy
    /\ pc' = "update"
    /\ \/ runs <= CheckedRuns /\ StartsCheck
       \/ runs > CheckedRuns /\ step' = "done" /\ UNCHANGED <<dwStatus, retry, text, offered>>

CreatesWindow ==
    /\ At("window")
    /\ IF Migrates THEN checkAndMigrateOldProxySettings /\ pc' = "migrate" /\ UNCHANGED updateVars
       ELSE WindowIsThere
    /\ UNCHANGED <<shellVars, others>>

GoesOnMigrating ==
    /\ At("migrate")
    /\ \/ SetsNext /\ UNCHANGED <<pc, updateVars>>
       \/ WindowIsThere
    /\ UNCHANGED <<shellVars, others>>

\* The check is over; what its button says is not followed further.
CheckForgotten ==
    step' = "idle" /\ dwStatus' = OKAY /\ retry' = 3 /\ text' = NoText /\ offered' = NoText

Checks ==
    /\ At("update")
    /\ IF step = "done" THEN pc' = "show" /\ CheckForgotten ELSE UpdateStep /\ UNCHANGED pc
    /\ UNCHANGED <<storeVars, shellVars, others>>

\* The answer ends, and the dialog about the proxy is closed.
AnswerEnds ==
    /\ At("update") /\ finished
    /\ UNCHANGED <<storeVars, shellVars, pc, others>>
LoginGiven ==
    /\ At("update") /\ proxyAuthenticationRequired
    /\ UNCHANGED <<storeVars, shellVars, pc, others>>

\* A setting that is not among Names may have any value.
Setting(n) == IF n \in Names THEN {settings[n]} ELSE BOOLEAN

\* Up to QApplication::exec, or to the loop of the warning before it.
ShowsFirst ==
    /\ At("show") /\ pc' = "up"
    /\ \E popup \in Setting("alwaysPopup"), wanted \in Setting("dhShowSmallKeyInformation") :
          FirstShown(popup /\ ~silent, wanted, silent)
    /\ UNCHANGED <<storeVars, updateVars, others>>

-----------------------------------------------------------------------------
\* The client that is up

\* An event is handled, also by the processEvents of closeApplication.
Events == At("up") \/ At("leaving")
Acts == Events /\ acts < MaxActs /\ acts' = acts + 1
same == UNCHANGED <<scanVars, updateVars, boot, x, opt, silent, holders, runs>>
sameProcess == same /\ UNCHANGED pc

\* The pages of the settings (not while the client leaves).
Chooses ==
    /\ Acts /\ pc = "up" /\ windowFree
    /\ \/ \E n \in Names : Set(n, ~settings[n]) /\ UNCHANGED pc
       \/ \E p \in ProxyInputs : on_cmdBack_clicked(p) /\ pc' = "saving"
       \/ Looks /\ pc' = "saving"
    /\ UNCHANGED shellVars /\ same

GoesOnSaving ==
    /\ At("saving")
    /\ \/ SetsNext /\ UNCHANGED pc
       \/ Saved /\ pc' = "up"
    /\ UNCHANGED <<updateVars, shellVars, others>>

\* Reports of the service.
Reported ==
    /\ Acts
    /\ \/ \E e \in Loaded, s \in States : Changes(e, s)
       \/ TapNeeded
       \/ TapInstalled(silent)
    /\ UNCHANGED storeVars /\ sameProcess

\* The icon, and the window it opens: a silent client has neither.
Clicked ==
    /\ Acts
    /\ \/ \E e \in Loaded : ContextRemove(e)
       \/ \E wanted \in Setting("dhShowSmallKeyInformation") : trayActivated(wanted) \/ showHideTrayMenu(wanted)
       \/ on_cmdCloseWindow_clicked
       \/ TBThread
       \/ AltF4
    /\ UNCHANGED storeVars /\ sameProcess

\* The warning is closed, perhaps for ever.  It is open only while it is wanted.
ClosesWarning ==
    /\ Acts /\ pc = "up" /\ WarningClosed
    /\ \/ UNCHANGED storeVars
       \/ \E n \in Names \cap {"dhShowSmallKeyInformation"} : settings[n] /\ Set(n, FALSE)
    /\ sameProcess

TrayTimeout ==
    /\ Events
    /\ \E wanted \in Setting("sendToTrayAfterConnect") : checkIfSendToTrayIsNeeded(wanted)
    /\ UNCHANGED <<storeVars, acts>> /\ sameProcess

\* closeApplication, from the menu of the icon or for a posted
\* CLOSE_VPN_CLIENT, whose boxes may be open at the same time.
Quits ==
    /\ \/ Acts /\ icon /\ UNCHANGED posted
       \/ Events /\ posted /\ posted' = FALSE /\ UNCHANGED acts
    /\ \E block \in Setting("blockShutdown") :
          /\ closeApplication(block, silent)
          /\ pc' = IF MustAsk(block, silent) THEN pc ELSE "leaving"
    /\ UNCHANGED storeVars /\ same

Answers ==
    /\ Events
    /\ \E yes \in BOOLEAN : Answered(yes) /\ pc' = IF yes THEN "leaving" ELSE pc
    /\ UNCHANGED <<storeVars, updateVars, others>>

ClientEnds ==
    /\ pc' = "off" /\ silent' = FALSE
    /\ holders' = holders \ {"client"}
    /\ Forget
    /\ ShellEnds
    /\ CheckForgotten
    /\ UNCHANGED <<scanVars, boot, x, opt, runs, acts>>

\* processEvents has returned, which waits for the boxes it has opened itself,
\* and QCoreApplication::exit follows.
Leaves ==
    /\ At("leaving") /\ asking = under
    /\ \/ dhWarning # "first" /\ ClientEnds
       \/ exitComesTooEarly /\ pc' = "up" /\ UNCHANGED <<storeVars, updateVars, others>>

\* PreventShutdownEventFilter: WM_QUERYENDSESSION is answered with 0 if
\* blockShutdown is on and an entry is connected.  Otherwise Windows ends the
\* client.
Prevented(block) == block /\ In("Connected") # {}

EndSession ==
    /\ Events
    /\ \E block \in Setting("blockShutdown") : ~Prevented(block)
    /\ ClientEnds

\* The process is killed, at any point.
Crash == pc # "off" /\ At(pc) /\ ClientEnds

Next ==
    \/ Start \/ Splits \/ Option \/ RefreshOfOther \/ slotRead \/ OptionsDone \/ Attach \/ Create \/ Portable
    \/ Opens \/ Creates \/ CreatesWindow \/ GoesOnMigrating
    \/ Checks \/ AnswerEnds \/ LoginGiven \/ ShowsFirst
    \/ Chooses \/ GoesOnSaving \/ Reported \/ Clicked \/ ClosesWarning \/ TrayTimeout
    \/ Quits \/ Answers \/ Leaves \/ EndSession \/ Crash

Spec == ProcessInit /\ [][Next]_allVars

\* The program goes on, requests are answered and end (WinINet has its time
\* limits), and the user closes a modal dialog.
ProcessFairness ==
    /\ WF_allVars(Splits) /\ WF_allVars(Option) /\ WF_allVars(OptionsDone)
    /\ WF_allVars(Opens) /\ WF_allVars(Creates) /\ WF_allVars(CreatesWindow)
    /\ WF_allVars(GoesOnMigrating) /\ WF_allVars(Checks)
    /\ WF_allVars(AnswerEnds) /\ WF_allVars(LoginGiven) /\ WF_allVars(ShowsFirst)

FairSpec == Spec /\ ProcessFairness

-----------------------------------------------------------------------------
\* Properties

\* What the user chose, in this run or in an earlier one, is what a client
\* that is up works with: after an exit, after a crash between two statements
\* of the first start, beside a process with -status that creates the database
\* as well, and after a proxy.ini was taken over from an old version.
ChoicesKept == pc = "up" => SettingsKept /\ ProxyKept

\* A client that starts is up in the end or is gone, however often a proxy
\* asks for a password.
StartEnds == pc \in {"database", "execute", "window", "migrate", "update", "show"} ~> pc \in {"up", "off"}
=============================================================================
