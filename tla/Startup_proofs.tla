--------------------------- MODULE Startup_proofs ---------------------------
(***************************************************************************)
(* Proof that the start of the client is type correct and never starts     *)
(* connections without the TAP devices they need, for any number of        *)
(* connections, devices, clicks, rounds and stops of the service.          *)
(*                                                                         *)
(* EnoughTaps is not inductive: the worker acts on a number it was told,   *)
(* which left the service some time before.  What carries the argument is  *)
(* that, unless devices are removed, every count that is known or under    *)
(* way is at most the number of devices there are (CountsAreLow).          *)
(***************************************************************************)
EXTENDS Startup, TLAPS

\* No count, told or under way, exceeds the number of devices.
CountsAreLow ==
    ~removed =>
        /\ tapCount <= devices
        /\ \A k \in 1 .. Len(toClient) : toClient[k].cmd = "TAPCOUNT" => toClient[k].n <= devices

\* The last round has not failed before the worker gives up.
RoundsLeft == pc \notin {"failed", "ended"} => tries <= MaxTries

\* Where the worker is when it no longer waits.
Late == {"autostart", "done", "failed", "ended"}

IInv == StartupTypeOK /\ CountsAreLow /\ RoundsLeft /\ EnoughTaps

-----------------------------------------------------------------------------
\* Every answer the service appends keeps the sequence well typed, and keeps
\* the counts low if it is a low count or no count.
LEMMA AppendAnswer ==
    ASSUME NEW s \in Seq(Answers), NEW m \in Answers, NEW d \in Int,
           \A k \in 1 .. Len(s) : s[k].cmd = "TAPCOUNT" => s[k].n <= d,
           m.cmd = "TAPCOUNT" => m.n <= d
    PROVE  /\ Append(s, m) \in Seq(Answers)
           /\ \A k \in 1 .. Len(Append(s, m)) :
                 Append(s, m)[k].cmd = "TAPCOUNT" => Append(s, m)[k].n <= d
OBVIOUS

\* The same for the sequence without its first answer.
LEMMA TailAnswers ==
    ASSUME NEW s \in Seq(Answers), s # << >>, NEW d \in Int,
           \A k \in 1 .. Len(s) : s[k].cmd = "TAPCOUNT" => s[k].n <= d
    PROVE  /\ Tail(s) \in Seq(Answers)
           /\ Head(s) \in Answers
           /\ Head(s) = s[1]
           /\ Head(s).cmd = "TAPCOUNT" => Head(s).n <= d
           /\ \A k \in 1 .. Len(Tail(s)) :
                 Tail(s)[k].cmd = "TAPCOUNT" => Tail(s)[k].n <= d
OBVIOUS

\* An empty socket, as at first and when the service has stopped.
LEMMA EmptyTyped ==
    /\ << >> \in Seq({"DUMMY", "TAPCOUNT", "ADDTAP", "REMOVETAP", "OPEN", "CLOSE"})
    /\ << >> \in Seq(Answers)
<1>1. \A S : << >> \in Seq(S)
  OBVIOUS
<1> QED
  BY <1>1

\* send keeps the socket and the queue well typed.
LEMMA SendTyped ==
    ASSUME StartupTypeOK,
           NEW cmd \in {"DUMMY", "TAPCOUNT", "ADDTAP", "REMOVETAP", "OPEN", "CLOSE"}, send(cmd)
    PROVE  /\ online' \in BOOLEAN
           /\ toService' \in Seq({"DUMMY", "TAPCOUNT", "ADDTAP", "REMOVETAP", "OPEN", "CLOSE"})
BY DEF send, StartupTypeOK

\* The counts stay low as long as the devices and the counts stay.
LEMMA SameCounts ==
    ASSUME CountsAreLow, UNCHANGED <<tapCount, devices, removed, toClient>>
    PROVE  CountsAreLow'
BY DEF CountsAreLow

-----------------------------------------------------------------------------
\* The steps of the worker.
LEMMA WorkerStep ==
    ASSUME IInv, Worker
    PROVE  IInv'
<1> USE StartupAssumption DEF IInv, Late
<1>1. UNCHANGED <<up, devices, removed, toClient, clicks, stops, answered, failed, silent, quitting>>
  BY DEF Worker, service
<1>2. tapCount' = tapCount
  BY DEF Worker, Check, Wait, Timeout, SendDummy, SendMessage, Retry, SendCount, Returns,
         WaitTap, Test, StartConnections, gui
<1>3. CountsAreLow'
  BY <1>1, <1>2, SameCounts
<1>4. CASE Check
  BY <1>1, <1>3, <1>4 DEF Check, StartupTypeOK, PCs, RoundsLeft, EnoughTaps
<1>5. CASE Wait \/ Timeout
  BY <1>1, <1>3, <1>5 DEF Wait, Timeout, gui, StartupTypeOK, PCs, RoundsLeft, EnoughTaps
<1>6. CASE SendDummy \/ SendCount \/ Returns \/ WaitTap
  <2>1. UNCHANGED <<success, tries, started, tapCount, received, online, posted, box, toService>>
    BY <1>6 DEF SendDummy, SendCount, SendMessage, Returns, WaitTap, gui
  <2>2. /\ pc' \in PCs /\ request' \in BOOLEAN
        /\ pc \notin {"failed", "ended"} /\ pc' \notin Late
    BY <1>6 DEF SendDummy, SendCount, SendMessage, Returns, WaitTap, gui, StartupTypeOK, PCs
  <2> QED
    BY <1>1, <1>3, <2>1, <2>2 DEF StartupTypeOK, RoundsLeft, EnoughTaps
<1>7. CASE Retry
  <2>1. UNCHANGED <<success, started, tapCount, received, online, posted, request, box, toService>>
    BY <1>7 DEF Retry, gui
  <2>2. /\ pc' \in {"failed", "check"} /\ pc' \in PCs
        /\ tries' \in 0 .. MaxTries + 1
        /\ pc' # "failed" => tries' <= MaxTries
    BY <1>7 DEF Retry, StartupTypeOK, PCs, RoundsLeft
  <2> QED
    BY <1>1, <1>3, <2>1, <2>2 DEF StartupTypeOK, RoundsLeft, EnoughTaps
<1>8. CASE Test
  <2>1. UNCHANGED <<success, tries, started, tapCount, online, posted, box, toService>>
    BY <1>8 DEF Test, SendMessage, gui
  <2>2. pc = "test" /\ received' \in BOOLEAN /\ request' \in BOOLEAN
    BY <1>8 DEF Test, SendMessage, gui, StartupTypeOK
  <2>3. pc' = "sendAdd" \/ (pc' = "autostart" /\ tapCount >= AutoStart)
    BY <1>8 DEF Test, SendMessage
  <2>4. StartupTypeOK'
    BY <1>1, <2>1, <2>2, <2>3 DEF StartupTypeOK, PCs
  <2>5. EnoughTaps'
    BY <1>1, <2>3 DEF EnoughTaps, CountsAreLow, StartupTypeOK
  <2> QED
    BY <1>3, <2>1, <2>2, <2>4, <2>5 DEF RoundsLeft
<1>9. CASE StartConnections
  <2>1. /\ online' \in BOOLEAN
        /\ toService' \in Seq({"DUMMY", "TAPCOUNT", "ADDTAP", "REMOVETAP", "OPEN", "CLOSE"})
    BY <1>9, SendTyped DEF StartConnections, StartupTypeOK
  <2> QED
    BY <1>1, <1>3, <1>9, <2>1 DEF StartConnections, StartupTypeOK, PCs, RoundsLeft, EnoughTaps
<1> QED
  BY <1>4, <1>5, <1>6, <1>7, <1>8, <1>9 DEF Worker

\* A notification moves the worker between waits only.
LEMMA NotifyStep ==
    ASSUME StartupTypeOK, notify_all
    PROVE  /\ pc' \in PCs /\ success' \in BOOLEAN
           /\ pc' \in Late <=> pc \in Late
           /\ pc' \in Late => pc' = pc
BY DEF notify_all, StartupTypeOK, PCs, Late

\* The steps of the GUI thread.
LEMMA GUIStep ==
    ASSUME IInv, GUI
    PROVE  IInv'
<1> USE StartupAssumption DEF IInv, Late
<1>1. CASE connectToService
  <2>1. /\ pc' \in PCs /\ success' \in BOOLEAN
        /\ pc' \in Late <=> pc \in Late
        /\ pc' \in Late => pc' = pc
    BY <1>1, NotifyStep DEF connectToService, StartupTypeOK
  <2>2. CountsAreLow'
    BY <1>1, SameCounts DEF connectToService, service
  <2> QED
    BY <1>1, <2>1, <2>2 DEF connectToService, service, StartupTypeOK, RoundsLeft, EnoughTaps
<1>2. CASE HandleRequest
  <2>1. /\ online' \in BOOLEAN
        /\ toService' \in Seq({"DUMMY", "TAPCOUNT", "ADDTAP", "REMOVETAP", "OPEN", "CLOSE"})
    BY <1>2, SendTyped DEF HandleRequest
  <2>2. CountsAreLow'
    BY <1>2, SameCounts DEF HandleRequest, service
  <2>3. /\ request' = FALSE
        /\ UNCHANGED <<pc, success, tries, started, tapCount, received, posted, box, toClient, up, devices,
                       removed, clicks, stops, answered, failed, silent, quitting>>
    BY <1>2 DEF HandleRequest, service, worker
  <2>4. StartupTypeOK'
    BY <2>1, <2>3 DEF StartupTypeOK
  <2> QED
    BY <2>2, <2>3, <2>4 DEF RoundsLeft, EnoughTaps
<1>3. CASE Receive
  <2>1. UNCHANGED <<tries, started, posted, request, up, devices, removed, clicks, stops, silent, quitting>>
    BY <1>3 DEF Receive, service
  <2>2. /\ toClient' \in Seq(Answers) /\ Head(toClient) \in Answers
        /\ ~removed => /\ Head(toClient).cmd = "TAPCOUNT" => Head(toClient).n <= devices
                       /\ \A k \in 1 .. Len(toClient') :
                            toClient'[k].cmd = "TAPCOUNT" => toClient'[k].n <= devices
    <3>1. toClient \in Seq(Answers) /\ toClient # << >> /\ toClient' = Tail(toClient) /\ devices \in Int
      BY <1>3 DEF Receive, StartupTypeOK
    <3>2. toClient' \in Seq(Answers) /\ Head(toClient) \in Answers
      BY <3>1
    <3>3. CASE ~removed
      BY <3>1, <3>2, <3>3, TailAnswers DEF CountsAreLow
    <3> QED
      BY <3>2, <3>3
  <2>3. CASE dummyReceived
    <3>1. /\ pc' \in PCs /\ success' \in BOOLEAN
          /\ pc' \in Late <=> pc \in Late
          /\ pc' \in Late => pc' = pc
      BY <2>3, NotifyStep DEF dummyReceived
    <3> QED
      BY <2>1, <2>2, <2>3, <3>1 DEF dummyReceived, StartupTypeOK, CountsAreLow, RoundsLeft, EnoughTaps
  <2>4. CASE Head(toClient).cmd = "TAPCOUNT" /\ receivedTapCount(Head(toClient).n)
    <3>1. Head(toClient).n \in Int
      BY <2>2, <2>4 DEF Answers
    <3> QED
      BY <2>1, <2>2, <2>4, <3>1
      DEF receivedTapCount, SameWorker, StartupTypeOK, CountsAreLow, RoundsLeft, EnoughTaps
  <2>5. CASE Done
    <3>1. /\ online' \in BOOLEAN
          /\ toService' \in Seq({"DUMMY", "TAPCOUNT", "ADDTAP", "REMOVETAP", "OPEN", "CLOSE"})
          /\ box' \in {"none", "plain", "count"}
      BY <2>5, SendTyped DEF Done, StartupTypeOK
    <3> QED
      BY <2>1, <2>2, <2>5, <3>1 DEF Done, SameWorker, StartupTypeOK, CountsAreLow, RoundsLeft, EnoughTaps
  <2>6. CASE NotDone(Head(toClient).cmd)
    BY <2>1, <2>2, <2>6 DEF NotDone, SameWorker, StartupTypeOK, CountsAreLow, RoundsLeft, EnoughTaps
  <2> QED
    BY <1>3, <2>3, <2>4, <2>5, <2>6 DEF Receive
<1>4. CASE Dismiss
  <2>1. /\ online' \in BOOLEAN
        /\ toService' \in Seq({"DUMMY", "TAPCOUNT", "ADDTAP", "REMOVETAP", "OPEN", "CLOSE"})
    BY <1>4, SendTyped DEF Dismiss, StartupTypeOK
  <2>2. CountsAreLow'
    BY <1>4, SameCounts DEF Dismiss, service
  <2> QED
    BY <1>4, <2>1, <2>2 DEF Dismiss, service, worker, StartupTypeOK, RoundsLeft, EnoughTaps
<1>5. CASE Click
  <2>1. /\ online' \in BOOLEAN
        /\ toService' \in Seq({"DUMMY", "TAPCOUNT", "ADDTAP", "REMOVETAP", "OPEN", "CLOSE"})
    BY <1>5, SendTyped DEF Click
  <2>2. CountsAreLow'
    BY <1>5, SameCounts DEF Click, service
  <2> QED
    BY <1>5, <2>1, <2>2 DEF Click, service, worker, StartupTypeOK, RoundsLeft, EnoughTaps
<1>6. CASE closeApplication
  <2>1. /\ online' \in BOOLEAN
        /\ toService' \in Seq({"DUMMY", "TAPCOUNT", "ADDTAP", "REMOVETAP", "OPEN", "CLOSE"})
    BY <1>6, SendTyped DEF closeApplication, StartupTypeOK
  <2>2. /\ pc' \in PCs /\ success' \in BOOLEAN
        /\ pc' \in Late <=> pc \in Late
        /\ pc' \in Late => pc' = pc
    BY <1>6, NotifyStep DEF closeApplication, StartupTypeOK
  <2>3. CountsAreLow'
    BY <1>6, SameCounts DEF closeApplication, service
  <2> QED
    BY <1>6, <2>1, <2>2, <2>3 DEF closeApplication, service, StartupTypeOK, RoundsLeft, EnoughTaps
<1>7. CASE Ends
  <2>1. /\ pc' = "ended" /\ online' = FALSE /\ posted' = 0 /\ request' = FALSE /\ box' = "none"
        /\ toService' = << >> /\ toClient' = << >>
        /\ UNCHANGED <<success, tries, started, tapCount, received, up, devices, removed,
                       clicks, stops, answered, failed, silent, quitting>>
    BY <1>7 DEF Ends, service
  <2>2. StartupTypeOK'
    BY <2>1, EmptyTyped DEF StartupTypeOK, PCs
  <2> QED
    BY <2>1, <2>2 DEF CountsAreLow, RoundsLeft, EnoughTaps
<1> QED
  BY <1>1, <1>2, <1>3, <1>4, <1>5, <1>6, <1>7 DEF GUI

\* The steps of the service.  Only here does the number of devices change.
LEMMA ServeStep ==
    ASSUME IInv, Serve
    PROVE  IInv'
<1> USE StartupAssumption DEF IInv, Late
<1>1. UNCHANGED <<pc, success, tries, started, tapCount, received, online, posted, request, box,
                  up, clicks, stops, answered, failed, silent, quitting>>
  BY DEF Serve, worker, gui
<1>2. toService' \in Seq({"DUMMY", "TAPCOUNT", "ADDTAP", "REMOVETAP", "OPEN", "CLOSE"})
  BY DEF Serve, StartupTypeOK
<1>3. toClient \in Seq(Answers) /\ devices \in Nat /\ devices <= MaxDevices
  BY DEF StartupTypeOK
<1>4. PICK m \in Answers :
        /\ toClient' \in {toClient, Append(toClient, m)}
        /\ devices' \in 0 .. MaxDevices
        /\ removed' \in BOOLEAN
        /\ ~removed' => ~removed /\ devices <= devices' /\ (m.cmd = "TAPCOUNT" => m.n <= devices')
  <2>1. CASE toClient' = Append(toClient, Ans("DUMMY")) /\ UNCHANGED <<devices, removed>>
    <3>1. Ans("DUMMY") \in Answers /\ Ans("DUMMY").cmd = "DUMMY"
      BY DEF Ans, Answers
    <3> QED
      BY <2>1, <3>1, <1>3 DEF StartupTypeOK
  <2>2. CASE deviceCount
    <3>1. PICK n \in {devices, -1} : toClient' = Append(toClient, CountAns(n)) /\ UNCHANGED <<devices, removed>>
      BY <2>2 DEF deviceCount
    <3>2. CountAns(n) \in Answers /\ CountAns(n).n <= devices
      BY <1>3 DEF CountAns, Answers
    <3> QED
      BY <3>1, <3>2, <1>3 DEF StartupTypeOK
  <2>3. CASE installTapDriver
    <3>1. /\ Ans("INSTALLED") \in Answers /\ Ans("INSTALLED").cmd = "INSTALLED"
          /\ Ans("NOT_INSTALLED") \in Answers /\ Ans("NOT_INSTALLED").cmd = "NOT_INSTALLED"
      BY DEF Ans, Answers
    <3> QED
      BY <2>3, <3>1, <1>3 DEF installTapDriver, StartupTypeOK
  <2>4. CASE removeTapDriver
    <3>1. /\ Ans("REMOVED") \in Answers /\ Ans("REMOVED").cmd = "REMOVED"
          /\ Ans("NOT_REMOVED") \in Answers /\ Ans("NOT_REMOVED").cmd = "NOT_REMOVED"
      BY DEF Ans, Answers
    <3>2. CASE devices' = 0 /\ removed' = TRUE /\ toClient' = Append(toClient, Ans("REMOVED"))
      BY <3>1, <3>2, StartupAssumption
    <3>3. CASE UNCHANGED <<devices, removed>> /\ toClient' = Append(toClient, Ans("NOT_REMOVED"))
      BY <3>1, <3>3, <1>3 DEF StartupTypeOK
    <3> QED
      BY <2>4, <3>2, <3>3 DEF removeTapDriver
  <2>5. CASE UNCHANGED <<toClient, devices, removed>>
    <3>1. Ans("DUMMY") \in Answers /\ Ans("DUMMY").cmd = "DUMMY"
      BY DEF Ans, Answers
    <3> QED
      BY <2>5, <3>1, <1>3 DEF StartupTypeOK
  <2> QED
    BY <2>1, <2>2, <2>3, <2>4, <2>5 DEF Serve
<1>5. toClient' \in Seq(Answers)
  BY <1>3, <1>4
<1>6. CountsAreLow'
  <2> SUFFICES ASSUME ~removed'
               PROVE  /\ tapCount <= devices'
                      /\ \A k \in 1 .. Len(toClient') :
                            toClient'[k].cmd = "TAPCOUNT" => toClient'[k].n <= devices'
    BY <1>1 DEF CountsAreLow
  <2>1. ~removed /\ devices <= devices' /\ devices' \in Int
    BY <1>4
  <2>2. tapCount <= devices'
    BY <2>1, <1>3 DEF CountsAreLow, StartupTypeOK
  <2>3. \A k \in 1 .. Len(toClient) : toClient[k].cmd = "TAPCOUNT" => toClient[k].n <= devices'
    <3> TAKE k \in 1 .. Len(toClient)
    <3> HAVE toClient[k].cmd = "TAPCOUNT"
    <3>1. toClient[k] \in Answers
      BY <1>3
    <3>2. toClient[k].n \in Int
      BY <3>1 DEF Answers
    <3> QED
      BY <2>1, <3>2, <1>3 DEF CountsAreLow
  <2>4. CASE toClient' = toClient
    BY <2>2, <2>3, <2>4
  <2>5. CASE toClient' = Append(toClient, m)
    <3>1. m.cmd = "TAPCOUNT" => m.n <= devices'
      BY <1>4
    <3> QED
      BY <2>1, <2>2, <2>3, <2>5, <3>1, <1>3, AppendAnswer
  <2> QED
    BY <1>4, <2>4, <2>5
<1>7. StartupTypeOK'
  BY <1>1, <1>2, <1>4, <1>5 DEF StartupTypeOK
<1>8. RoundsLeft' /\ EnoughTaps'
  BY <1>1, <1>3, <1>4 DEF RoundsLeft, EnoughTaps
<1> QED
  BY <1>6, <1>7, <1>8

-----------------------------------------------------------------------------
\* The start of the client keeps its variables in their types, the counts it
\* is told low and its rounds limited (FrmMain::startDaemon).
THEOREM StartupInvariant == Spec => []IInv
<1>1. Init => IInv
  <2> SUFFICES ASSUME Init PROVE IInv
    OBVIOUS
  <2>1. StartupTypeOK
    <3>1. /\ pc \in PCs /\ tries \in 0 .. MaxTries + 1 /\ started \in 0 .. AutoStart
          /\ tapCount \in Int /\ posted \in Nat /\ box \in {"none", "plain", "count"}
          /\ devices \in 0 .. MaxDevices /\ clicks \in 0 .. MaxClicks /\ stops \in 0 .. MaxStops
      BY StartupAssumption DEF Init, PCs
    <3> QED
      BY <3>1, EmptyTyped DEF Init, StartupTypeOK
  <2>2. CountsAreLow
    BY StartupAssumption DEF Init, CountsAreLow
  <2>3. RoundsLeft /\ EnoughTaps
    BY StartupAssumption DEF Init, RoundsLeft, EnoughTaps
  <2> QED
    BY <2>1, <2>2, <2>3 DEF IInv
<1>2. IInv /\ [Next]_vars => IInv'
  <2> SUFFICES ASSUME IInv, [Next]_vars PROVE IInv'
    OBVIOUS
  <2>1. CASE Worker
    BY <2>1, WorkerStep
  <2>2. CASE GUI
    BY <2>2, GUIStep
  <2>3. CASE Serve
    BY <2>3, ServeStep
  <2>4. CASE Starts
    BY <2>4, SameCounts DEF Starts, worker, gui, IInv, StartupTypeOK, CountsAreLow, RoundsLeft, EnoughTaps
  <2>5. CASE Stops
    <3>1. /\ StartupTypeOK
          /\ UNCHANGED <<pc, success, tries, started, tapCount, received, posted, request, box,
                         devices, removed, clicks, answered, failed, silent, quitting>>
          /\ up' = FALSE /\ online' = FALSE /\ toService' = << >> /\ toClient' = << >>
          /\ stops < MaxStops /\ stops' = stops + 1
      BY <2>5 DEF Stops, worker, IInv
    <3>2. StartupTypeOK'
      <4>1. stops' \in 0 .. MaxStops
        BY <3>1, StartupAssumption DEF StartupTypeOK
      <4> QED
        BY <3>1, <4>1, EmptyTyped DEF StartupTypeOK
    <3>3. CountsAreLow' /\ RoundsLeft' /\ EnoughTaps'
      BY <3>1 DEF IInv, CountsAreLow, RoundsLeft, EnoughTaps
    <3> QED
      BY <3>2, <3>3 DEF IInv
  <2>6. CASE UNCHANGED vars
    BY <2>6 DEF vars, worker, gui, service, IInv, StartupTypeOK, CountsAreLow, RoundsLeft, EnoughTaps
  <2> QED
    BY <2>1, <2>2, <2>3, <2>4, <2>5, <2>6 DEF Next
<1> QED
  BY <1>1, <1>2, PTL DEF Spec

\* startDaemon starts connections only when there is a TAP device for each of
\* them, for every number of connections, failed counts and failed installs.
THEOREM StartupEnoughTaps == Spec => []EnoughTaps
<1>1. IInv => EnoughTaps
  BY DEF IInv
<1> QED
  BY <1>1, StartupInvariant, PTL

-----------------------------------------------------------------------------
\* The first round before the service has answered and nobody quits: one CONNECT_TO_SERVICE is
\* posted in it, and handled it is what made the first wait succeed.  So none
\* is left that could end the second wait.
FirstRound ==
    tries = 0 /\ ~answered /\ ~quitting =>
        /\ posted <= 1
        /\ success \/ pc = "check" => posted = 0
        /\ pc = "check" => ~success
        /\ pc \in {"sendDummy", "before2", "wait2"} => success
        /\ pc # "stable"

\* startDaemon takes a connection for stable in its first round only when the
\* service has answered or the client is being closed, however the messages of
\* the two threads interleave.
THEOREM StartupFirstTry == Spec => []FirstTryIsAnswered
<1>1. Init => FirstRound
  BY DEF Init, FirstRound
<1>2. StartupTypeOK /\ FirstRound /\ [Next]_vars => FirstRound'
  <2> SUFFICES ASSUME StartupTypeOK, FirstRound, [Next]_vars PROVE FirstRound'
    OBVIOUS
  <2>0. posted \in Nat /\ success \in BOOLEAN /\ tries \in Nat /\ answered \in BOOLEAN
    BY StartupAssumption DEF StartupTypeOK
  <2>1. CASE Worker
    <3>1. answered' = answered /\ quitting' = quitting
      BY <2>1 DEF Worker
    <3>2. CASE Check
      BY <2>0, <3>1, <3>2 DEF Check, FirstRound
    <3>3. CASE Wait \/ Timeout \/ WaitTap \/ Returns
      BY <3>1, <3>3 DEF Wait, Timeout, WaitTap, Returns, gui, FirstRound
    <3>4. CASE SendDummy \/ SendCount \/ Test
      BY <3>1, <3>4 DEF SendDummy, SendCount, Test, SendMessage, gui, FirstRound
    <3>5. CASE Retry
      BY <2>0, <3>5 DEF Retry, FirstRound
    <3>6. CASE StartConnections
      BY <3>1, <3>6 DEF StartConnections, FirstRound
    <3> QED
      BY <2>1, <3>2, <3>3, <3>4, <3>5, <3>6 DEF Worker
  <2>2. CASE connectToService
    BY <2>0, <2>2 DEF connectToService, notify_all, FirstRound
  <2>3. CASE Receive
    <3>1. tries' = tries /\ posted' = posted /\ quitting' = quitting
      BY <2>3 DEF Receive
    <3>2. CASE dummyReceived
      BY <3>2 DEF dummyReceived, FirstRound
    <3>3. CASE UNCHANGED <<pc, success, answered>>
      BY <3>1, <3>3 DEF FirstRound
    <3> QED
      BY <2>3, <3>2, <3>3 DEF Receive, receivedTapCount, Done, NotDone, SameWorker
  <2>4. CASE HandleRequest \/ Dismiss \/ Click \/ Serve \/ Starts \/ Stops \/ UNCHANGED vars
    <3>1. UNCHANGED <<pc, success, tries, posted, answered, quitting>>
      BY <2>4 DEF HandleRequest, Dismiss, Click, Serve, Starts, Stops, vars, worker, gui
    <3> QED
      BY <3>1 DEF FirstRound
  <2>5. CASE closeApplication \/ Ends
    BY <2>5 DEF closeApplication, Ends, FirstRound
  <2> QED
    BY <2>1, <2>2, <2>3, <2>4, <2>5 DEF Next, GUI
<1>3. FirstRound => FirstTryIsAnswered
  BY DEF FirstRound, FirstTryIsAnswered
<1>4. IInv => StartupTypeOK
  BY DEF IInv
<1> QED
  BY <1>1, <1>2, <1>3, <1>4, StartupInvariant, PTL DEF Spec
=============================================================================
