------------------------------ MODULE Startup ------------------------------
(***************************************************************************)
(* The start of the client: FrmMain::startDaemon, which runs in a thread   *)
(* of its own, finds the service, has as many TAP devices installed as     *)
(* there are connections to start, and starts them.                        *)
(*                                                                         *)
(* The worker talks to the GUI thread by window messages: PostMessage      *)
(* (queued) to connect, SendMessage (waits for the handler) for the rest.  *)
(* Only the GUI thread uses the socket until the connections are started.  *)
(* The worker learns of results through two condition variables.           *)
(* cvStartDaemon has no predicate: a notification that comes while the     *)
(* worker is not waiting is lost, and one that comes for another reason    *)
(* counts, the one of a client that is being closed included.              *)
(* cv_first_tap_count has a predicate, received_first_tap_count.           *)
(* Wake-ups without a notification are left out.                           *)
(***************************************************************************)
EXTENDS Integers, Sequences

CONSTANTS
    AutoStart,   \* autoStartCount: the number of connections to start
    Devices,     \* the TAP devices there are at first
    MaxDevices,  \* bound: TAP devices
    MaxTries,    \* 5: how many rounds may fail
    MaxClicks,   \* bound: what the user does in the settings
    MaxStops     \* bound: how often the service stops

ASSUME StartupAssumption ==
    /\ AutoStart \in Nat /\ Devices \in Nat /\ MaxDevices \in Nat
    /\ Devices <= MaxDevices
    /\ MaxTries \in Nat /\ MaxClicks \in Nat /\ MaxStops \in Nat

VARIABLES
    silent,     \* g_bSilent: no message boxes; set by main
    pc,         \* where the worker is in startDaemon
    success, tries,  \* its locals
    started,    \* connections it has started
    tapCount, received,  \* FrmMain::tapCount, received_first_tap_count
    online,     \* the client's socket is connected
    posted,     \* CONNECT_TO_SERVICE messages in the queue
    request,    \* the worker's SendMessage has not been handled yet
    box,        \* a message box is open; "count": a TAPCOUNT follows it
    toService, toClient,  \* the socket
    up,         \* the service runs
    devices,    \* TAP devices
    clicks, stops,  \* history: uses of the two bounds
    answered,   \* history: an answer to DUMMY has arrived
    failed,     \* history: an installation was reported as failed
    removed,    \* history: devices were removed
    quitting    \* closeApplication is on its way to exit()

worker == <<pc, success, tries, started>>
gui == <<tapCount, received, online, posted, request, box>>
service == <<up, devices, removed>>
vars == <<worker, gui, service, toService, toClient, clicks, stops, answered, failed, silent, quitting>>

PCs == {"check", "before1", "wait1", "dummy", "sendDummy", "before2", "wait2", "retry",
        "stable", "sendCount", "waitTap", "test", "sendAdd", "autostart", "done", "failed", "ended"}
Answers == [cmd : {"DUMMY", "INSTALLED", "NOT_INSTALLED", "REMOVED", "NOT_REMOVED"}] \cup [cmd : {"TAPCOUNT"}, n : Int]
Ans(cmd) == [cmd |-> cmd]
CountAns(n) == [cmd |-> "TAPCOUNT", n |-> n]

StartupTypeOK ==
    /\ silent \in BOOLEAN
    /\ pc \in PCs
    /\ success \in BOOLEAN /\ tries \in 0 .. MaxTries + 1
    /\ started \in 0 .. AutoStart
    /\ tapCount \in Int /\ received \in BOOLEAN
    /\ online \in BOOLEAN /\ posted \in Nat /\ request \in BOOLEAN
    /\ box \in {"none", "plain", "count"}
    /\ toService \in Seq({"DUMMY", "TAPCOUNT", "ADDTAP", "REMOVETAP", "OPEN", "CLOSE"})
    /\ toClient \in Seq(Answers)
    /\ up \in BOOLEAN /\ devices \in 0 .. MaxDevices
    /\ clicks \in 0 .. MaxClicks /\ stops \in 0 .. MaxStops
    /\ answered \in BOOLEAN /\ failed \in BOOLEAN /\ removed \in BOOLEAN
    /\ quitting \in BOOLEAN

Init ==
    /\ silent \in BOOLEAN
    /\ pc = "check" /\ success = FALSE /\ tries = 0 /\ started = 0
    /\ tapCount = 0 /\ received = FALSE
    /\ online = FALSE /\ posted = 0 /\ request = FALSE /\ box = "none"
    /\ toService = << >> /\ toClient = << >>
    /\ up \in BOOLEAN /\ devices = Devices
    /\ clicks = 0 /\ stops = 0
    /\ answered = FALSE /\ failed = FALSE /\ removed = FALSE
    /\ quitting = FALSE

\* SrvCLI::send: connects first if need be; without a service the command is lost.
send(cmd) ==
    /\ online' = (online \/ up)
    /\ toService' = IF online \/ up THEN Append(toService, cmd) ELSE toService

-----------------------------------------------------------------------------
\* The worker.

\* The head of the loop.
Check ==
    /\ pc = "check"
    /\ IF online THEN pc' = "dummy" /\ UNCHANGED posted
                 ELSE pc' = "before1" /\ posted' = posted + 1
    /\ UNCHANGED <<success, tries, started, tapCount, received, online, request, box, toService>>

\* cvStartDaemon.wait_for: it begins, and after 2000 ms it ends.
Wait ==
    /\ \/ pc = "before1" /\ pc' = "wait1"
       \/ pc = "before2" /\ pc' = "wait2"
    /\ UNCHANGED <<success, tries, started, gui, toService>>

Timeout ==
    /\ \/ pc = "wait1" /\ pc' = "dummy"
       \/ pc = "wait2" /\ pc' = "retry"
    /\ UNCHANGED <<success, tries, started, gui, toService>>

\* A SendMessage, which the worker does not leave before it is handled.
SendMessage(next) ==
    /\ pc' = next
    /\ request' = TRUE
    /\ UNCHANGED <<success, tries, started, tapCount, online, posted, box, toService>>

\* Fault: the result of the first wait is not looked at.
dummyAnyhow == pc = "dummy" /\ SendMessage("sendDummy") /\ UNCHANGED received

SendDummy ==
    /\ pc = "dummy"
    /\ \/ success /\ SendMessage("sendDummy") /\ UNCHANGED received
       \/ ~success /\ pc' = "retry" /\ UNCHANGED <<success, tries, started, gui, toService>>

\* The end of the loop.
Retry ==
    /\ pc = "retry"
    /\ tries' = tries + 1
    /\ pc' = IF tries + 1 > MaxTries THEN "failed" ELSE "check"
    /\ UNCHANGED <<success, started, gui, toService>>

SendCount == pc = "stable" /\ SendMessage("sendCount") /\ UNCHANGED received

\* Fault: the flag is reset when SendMessage has returned.
resetsLate ==
    /\ ~request
    /\ \/ pc = "sendDummy" /\ pc' = "before2" /\ UNCHANGED received
       \/ pc = "sendCount" /\ pc' = "waitTap" /\ UNCHANGED received
       \/ pc = "sendAdd" /\ pc' = "waitTap" /\ received' = FALSE
    /\ UNCHANGED <<success, tries, started, tapCount, online, posted, request, box, toService>>

\* SendMessage returns.
Returns ==
    /\ ~request
    /\ \/ pc = "sendDummy" /\ pc' = "before2"
       \/ pc \in {"sendCount", "sendAdd"} /\ pc' = "waitTap"
    /\ UNCHANGED <<success, tries, started, gui, toService>>

\* cv_first_tap_count.wait with its predicate.
WaitTap ==
    /\ pc = "waitTap"
    /\ received
    /\ pc' = "test"
    /\ UNCHANGED <<success, tries, started, gui, toService>>

\* Fault: one device too few is enough.
testsOneLess ==
    /\ pc = "test"
    /\ \/ tapCount + 1 < AutoStart /\ received' = FALSE /\ SendMessage("sendAdd")
       \/ tapCount + 1 >= AutoStart /\ pc' = "autostart"
          /\ UNCHANGED <<success, tries, started, gui, toService>>

\* while (tapCount < autoStartCount): install one more, and wait again.
Test ==
    /\ pc = "test"
    /\ \/ tapCount < AutoStart /\ received' = FALSE /\ SendMessage("sendAdd")
       \/ tapCount >= AutoStart /\ pc' = "autostart"
          /\ UNCHANGED <<success, tries, started, gui, toService>>

\* The connections are started one after the other.
StartConnections ==
    /\ pc = "autostart"
    /\ \/ started < AutoStart /\ started' = started + 1 /\ send("OPEN") /\ UNCHANGED pc
       \/ started = AutoStart /\ pc' = "done" /\ UNCHANGED <<started, online, toService>>
    /\ UNCHANGED <<success, tries, tapCount, received, posted, request, box>>

Worker ==
    /\ \/ Check \/ Wait \/ Timeout \/ SendDummy \/ Retry
       \/ SendCount \/ Returns \/ WaitTap \/ Test \/ StartConnections
    /\ UNCHANGED <<service, toClient, clicks, stops, answered, failed, silent, quitting>>

-----------------------------------------------------------------------------
\* The GUI thread.

\* cvStartDaemon.notify_all
notify_all ==
    CASE pc = "wait1" -> pc' = "dummy" /\ success' = TRUE
      [] pc = "wait2" -> pc' = "stable" /\ UNCHANGED success
      [] OTHER -> UNCHANGED <<pc, success>>

\* CONNECT_TO_SERVICE: makeFastConnection also succeeds when the socket is
\* connected already.
connectToService ==
    /\ posted > 0
    /\ posted' = posted - 1
    /\ online' = (online \/ up)
    /\ IF online \/ up THEN notify_all ELSE UNCHANGED <<pc, success>>
    /\ UNCHANGED <<tries, started, tapCount, received, request, box, toService, toClient,
                   service, clicks, stops, answered, failed, silent, quitting>>

\* ON_SEND_DUMMY, RECEIVE_TAP_COUNT and INSTALL_TAP_DEVICE.
HandleRequest ==
    /\ request
    /\ request' = FALSE
    /\ send(CASE pc = "sendDummy" -> "DUMMY" [] pc = "sendCount" -> "TAPCOUNT" [] OTHER -> "ADDTAP")
    /\ UNCHANGED <<worker, tapCount, received, posted, box, toClient,
                   service, clicks, stops, answered, failed, silent, quitting>>

SameWorker == UNCHANGED <<pc, success>>

dummyReceived ==
    /\ notify_all
    /\ answered' = TRUE
    /\ UNCHANGED <<tapCount, received, online, toService, box, failed>>

receivedTapCount(n) ==
    /\ tapCount' = n
    /\ received' = TRUE
    /\ SameWorker
    /\ UNCHANGED <<online, toService, box, answered, failed>>

\* receivedTapControl(0) and receivedRemoveTap("OK"): tell the user, then ask
\* for the number of devices.
Done ==
    /\ \/ silent /\ send("TAPCOUNT") /\ UNCHANGED box
       \/ ~silent /\ box' = "count" /\ UNCHANGED <<online, toService>>
    /\ SameWorker
    /\ UNCHANGED <<tapCount, received, answered, failed>>

\* receivedTapControl(-1) and receivedRemoveTap("ERROR"): tell the user.
NotDone(cmd) ==
    /\ box' = IF silent THEN box ELSE "plain"
    /\ failed' = (failed \/ cmd = "NOT_INSTALLED")
    /\ SameWorker
    /\ UNCHANGED <<tapCount, received, online, toService, answered>>

\* SrvCLI::slotStartRead, which does not run while a box that it opened is open.
Receive ==
    /\ toClient # << >>
    /\ box = "none"
    /\ toClient' = Tail(toClient)
    /\ LET m == Head(toClient)
       IN  \/ m.cmd = "DUMMY" /\ dummyReceived
           \/ m.cmd = "TAPCOUNT" /\ receivedTapCount(m.n)
           \/ m.cmd \in {"INSTALLED", "REMOVED"} /\ Done
           \/ m.cmd \in {"NOT_INSTALLED", "NOT_REMOVED"} /\ NotDone(m.cmd)
    /\ UNCHANGED <<tries, started, posted, request, service, clicks, stops, silent, quitting>>

\* The user closes the box.
Dismiss ==
    /\ box # "none"
    /\ box' = "none"
    /\ IF box = "count" THEN send("TAPCOUNT") ELSE UNCHANGED <<online, toService>>
    /\ UNCHANGED <<worker, tapCount, received, posted, request, toClient,
                   service, clicks, stops, answered, failed, silent, quitting>>

\* The user opens the settings (TAPCOUNT) and uses their two buttons.
Click ==
    /\ pc # "ended"
    /\ clicks < MaxClicks
    /\ clicks' = clicks + 1
    /\ box = "none"
    /\ \E cmd \in {"TAPCOUNT", "ADDTAP", "REMOVETAP"} : send(cmd)
    /\ UNCHANGED <<worker, tapCount, received, posted, request, box, toClient,
                   service, stops, answered, failed, silent, quitting>>

\* Quit in the tray menu, or CLOSE_VPN_CLIENT.  Of the connections only those
\* the worker started are here: they may be connected and are then closed,
\* once.  If the user does not agree, nothing happens.  The call goes on with
\* processEvents: every step of the GUI may still follow it.
closeApplication ==
    /\ pc # "ended"
    /\ \/ UNCHANGED <<online, toService>>
       \/ started > 0 /\ ~quitting /\ send("CLOSE")
    /\ notify_all
    /\ quitting' = TRUE
    /\ UNCHANGED <<tries, started, tapCount, received, posted, request, box, toClient,
                   service, clicks, stops, answered, failed, silent>>

\* exec() returns, and TerminateProcess takes the worker along.  What is still
\* in the socket is left out: its answers reach nobody.
Ends ==
    /\ quitting
    /\ pc # "ended"
    /\ pc' = "ended"
    /\ online' = FALSE /\ posted' = 0 /\ request' = FALSE /\ box' = "none"
    /\ toService' = << >> /\ toClient' = << >>
    /\ UNCHANGED <<success, tries, started, tapCount, received,
                   service, clicks, stops, answered, failed, silent, quitting>>

-----------------------------------------------------------------------------
\* The service.  Counting may time out, which gives -1.  An installation may
\* fail, or time out and succeed later.
deviceCount == \E n \in {devices, -1} : toClient' = Append(toClient, CountAns(n)) /\ UNCHANGED <<devices, removed>>

installTapDriver ==
    /\ \/ devices < MaxDevices /\ devices' = devices + 1
            /\ toClient' = Append(toClient, Ans("INSTALLED"))
       \/ devices' \in {devices, devices + 1} \cap (0 .. MaxDevices)
            /\ toClient' = Append(toClient, Ans("NOT_INSTALLED"))
    /\ UNCHANGED removed

removeTapDriver ==
    \/ devices' = 0 /\ removed' = TRUE /\ toClient' = Append(toClient, Ans("REMOVED"))
    \/ UNCHANGED <<devices, removed>> /\ toClient' = Append(toClient, Ans("NOT_REMOVED"))

Serve ==
    /\ toService # << >>
    /\ toService' = Tail(toService)
    /\ LET cmd == Head(toService)
       IN  \/ cmd = "DUMMY" /\ toClient' = Append(toClient, Ans("DUMMY")) /\ UNCHANGED <<devices, removed>>
           \/ cmd = "TAPCOUNT" /\ deviceCount
           \/ cmd = "ADDTAP" /\ installTapDriver
           \/ cmd = "REMOVETAP" /\ removeTapDriver
           \/ cmd \in {"OPEN", "CLOSE"} /\ UNCHANGED <<toClient, devices, removed>>
    /\ UNCHANGED <<worker, gui, up, clicks, stops, answered, failed, silent, quitting>>

Starts ==
    /\ ~up
    /\ up' = TRUE
    /\ UNCHANGED <<worker, gui, devices, removed, toService, toClient, clicks, stops, answered, failed, silent, quitting>>

Stops ==
    /\ up
    /\ stops < MaxStops
    /\ stops' = stops + 1
    /\ up' = FALSE
    /\ online' = FALSE
    /\ toService' = << >> /\ toClient' = << >>
    /\ UNCHANGED <<worker, tapCount, received, posted, request, box, devices, removed,
                   clicks, answered, failed, silent, quitting>>

GUI == connectToService \/ HandleRequest \/ Receive \/ Dismiss \/ Click \/ closeApplication \/ Ends
Next == Worker \/ GUI \/ Serve \/ Starts \/ Stops

Spec == Init /\ [][Next]_vars

\* The threads run and the service answers; users owe nobody anything.
Fairness ==
    /\ WF_vars(Worker) /\ WF_vars(connectToService) /\ WF_vars(HandleRequest)
    /\ WF_vars(Receive) /\ WF_vars(Serve) /\ WF_vars(Ends)

FairSpec == Spec /\ Fairness

-----------------------------------------------------------------------------
\* Properties.

\* Safety: no connection is started before there is a TAP device for each of
\* them, whatever counts and installations failed on the way and whoever else
\* asked for a count, unless somebody removed devices.
EnoughTaps ==
    pc \in {"autostart", "done"} /\ ~removed => devices >= AutoStart

\* Liveness: the start comes to an end, or the client does, except where the worker waits for a
\* count that will not come: an installation failed, the service stopped, or a
\* message box is open in front of it.
StartupEnds ==
    <>[](pc \in {"done", "failed", "ended"} \/ (pc = "waitTap" /\ (failed \/ stops > 0 \/ box # "none")))

\* Safety: in the first round the worker takes the connection for stable only
\* when the service has answered its DUMMY, unless the client is being closed:
\* closeApplication wakes the worker without an answer.  (In a later round a
\* message CONNECT_TO_SERVICE left from an earlier one may end the wait too, as
\* all three notify the same condition variable.)
FirstTryIsAnswered == pc = "stable" /\ tries = 0 => answered \/ quitting
=============================================================================
