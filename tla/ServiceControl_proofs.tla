------------------------ MODULE ServiceControl_proofs ------------------------
(***************************************************************************)
(* ServiceControl implements ServiceLifecycle, and the structure the       *)
(* dispatcher uses is not deleted under it, for any number of users, runs  *)
(* and controls.                                                           *)
(*                                                                         *)
(* handler() reports three times, twice with the mutex and once without.   *)
(* That each report is a step of the life cycle depends on where ALL       *)
(* threads are: IInv says for every place of serviceMain and of the        *)
(* dispatcher what the main thread may be doing, what is in its queue and  *)
(* which state has been reported last.                                     *)
(***************************************************************************)
EXTENDS ServiceControl, TLAPS

Controls == {"STOP", "PAUSE", "CONTINUE", "INTERROGATE", "COMMAND"}
Places == {"idle", "called", "sem2", "enter", "posted", "waiting", "woken", "report", "over"}
Running == {"RUNNING", "PAUSED"}

S == at["serviceMain"]
D == at["dispatcher"]
DCode == code["dispatcher"]

ControlTypes ==
    /\ main \in {"off", "waitArgs", "create", "loop", "handled", "left", "waitHandler", "ended"}
    /\ dispatch \in {"none", "connecting", "dispatching", "failed", "returned"}
    /\ sem2 \in Nat
    /\ at \in [Threads -> Places]
    /\ code \in [Threads -> Controls \cup {"STARTUP"}]
    /\ mutex \in Threads \cup {None}
    /\ status \in States /\ scm \in States

\* The mutex is held by a thread that has posted and not gone to sleep yet.
Locked == \A t \in Threads : at[t] = "posted" <=> mutex = t

\* A control under way is one the manager accepted; the dispatcher works on it.
UnderWay ==
    /\ control # << >> => control[2] \in Controls
    /\ D # "idle" => control # << >> /\ DCode = control[2]

\* Whoever runs in the loop can receive events.
Receives == main \in {"loop", "handled"} => receiver

\* Before handler(STARTUP).  serviceMain passes its semaphore only when the
\* application is there.
Starting ==
    S \in {"idle", "called", "sem2"} =>
       /\ main \in {"off", "waitArgs", "create", "loop", "ended"}
       /\ sem2 > 0 => main = "loop"
       /\ main = "off" => dispatch = "none"
       /\ status = "STOPPED" /\ queue = << >> /\ control = << >>

\* The manager starts serviceMain once.
CalledOnce == dispatch \in {"none", "connecting"} => S = "idle"

\* In handler(STARTUP), when no control is accepted yet.
StartingUp ==
    /\ S = "enter" => main = "loop" /\ status = "STOPPED" /\ queue = << >> /\ control = << >>
    /\ S \in {"posted", "waiting"} =>
          /\ main \in {"loop", "handled"} /\ status = "START_PENDING"
          /\ queue = <<"STARTUP">> /\ control = << >>
    /\ S = "woken" => main = "loop" /\ status = "START_PENDING" /\ queue = << >> /\ control = << >>
    /\ code["serviceMain"] = "STARTUP"

\* What the last report was once the main thread has left its loop.
Stopping ==
    \/ main = "left" /\ status = "STOP_PENDING"
    \/ main \in {"waitHandler", "ended"} /\ status = "STOPPED"

\* The state that is reported while a control is handled.
During(c) == IF c \in DOMAIN Pending THEN status = Pending[c] ELSE status \in Running

\* Afterwards: the dispatcher is in handler() for one control, or between two.
Serving ==
    S \in {"report", "over"} =>
       /\ D \in {"idle", "enter", "posted", "waiting", "woken", "report", "over"}
       /\ D = "idle" =>
             /\ queue = << >>
             /\ (main = "loop" /\ status \in Running) \/ (Stopping /\ control = << >>)
       /\ D = "enter" => main = "loop" /\ status \in Running /\ queue = << >>
       /\ D \in {"posted", "waiting"} =>
             main \in {"loop", "handled"} /\ queue = <<DCode>> /\ During(DCode)
       /\ D = "woken" =>
             /\ queue = << >>
             /\ IF DCode = "STOP" THEN Stopping ELSE main = "loop" /\ During(DCode)
       /\ D \in {"report", "over"} =>
             /\ queue = << >>
             /\ IF DCode = "STOP" THEN Stopping ELSE main = "loop" /\ status \in Running

\* The manager shows what was reported last.
Shown ==
    /\ status # "STOPPED" => scm = status
    /\ status = "STOPPED" => scm \in {"STOPPED", "START_PENDING"}

\* The dispatcher has returned from its loop when the wait for it succeeds.
Returned ==
    /\ dispatch = "returned" => D = "idle" /\ main \in {"waitHandler", "ended"}
    /\ sysd = "deleted" => main = "ended" /\ (slow \/ dispatch = "returned")

IInv ==
    /\ ControlTypes /\ Locked /\ UnderWay /\ Receives
    /\ Starting /\ CalledOnce /\ StartingUp /\ Serving /\ Shown /\ Returned

-----------------------------------------------------------------------------
\* One lemma for each action or group of actions.

LEMMA InitIInv == Init => IInv
BY DEF Init, NoProcess, IInv, ControlTypes, Locked, UnderWay, Receives, Starting, CalledOnce, StartingUp,
   Serving, Shown, Returned, S, D, DCode, Threads, Places, Controls, States, None

\* As long as the main thread has not reached its loop nothing is reported.
LEMMA BeforeLoop ==
    ASSUME IInv, main \in {"off", "waitArgs", "create"}
    PROVE  /\ S \in {"idle", "called", "sem2"} /\ sem2 = 0
           /\ status = "STOPPED" /\ queue = << >> /\ control = << >>
<1>1. S \in Places /\ sem2 \in Nat
  BY DEF IInv, ControlTypes, S, Threads
<1>2. S \notin {"enter", "posted", "waiting", "woken"}
  BY DEF IInv, StartingUp
<1>3. S \notin {"report", "over"}
  BY DEF IInv, Serving, Stopping, Places
<1>4. S \in {"idle", "called", "sem2"}
  BY <1>1, <1>2, <1>3 DEF Places
<1>5. QED BY <1>1, <1>4 DEF IInv, Starting

\* Controls are only under way once serviceMain's thread has reported RUNNING.
LEMMA AfterStart ==
    ASSUME IInv, control # << >> \/ D # "idle"
    PROVE  S \in {"report", "over"}
<1>1. control # << >> /\ S \in Places
  BY DEF IInv, UnderWay, ControlTypes, S, Threads
<1>2. S \notin {"idle", "called", "sem2"}
  BY <1>1 DEF IInv, Starting
<1>3. S \notin {"enter", "posted", "waiting", "woken"}
  BY <1>1 DEF IInv, StartingUp
<1>4. QED BY <1>1, <1>2, <1>3 DEF Places

\* A new process, or the end of one.
LEMMA ExecIInv ==
    ASSUME IInv, NEW k, exec(k), UNCHANGED control,
           scm' = scm \/ (scm = "STOPPED" /\ scm' = "START_PENDING")
    PROVE  IInv'
<1>1. S = "idle" /\ status = "STOPPED" /\ sem2 = 0 /\ queue = << >> /\ control = << >>
  BY BeforeLoop DEF IInv, Starting, CalledOnce, exec
<1>2. QED
  BY <1>1 DEF exec, IInv, ControlTypes, Locked, UnderWay, Receives, Starting, CalledOnce, StartingUp,
     Serving, Shown, Returned, S, D, DCode, States

LEMMA ExitIInv == IInv /\ Exit => IInv'
BY DEF Exit, IInv, ControlTypes, Locked, UnderWay, Receives, Starting, CalledOnce, StartingUp,
   Serving, Shown, Returned, S, D, DCode, Threads, Places, Controls, States, None

LEMMA HandshakeIInv ==
    ASSUME IInv, HandlerThread_run \/ serviceMain \/ registered \/ waitArgs \/ createApplication
    PROVE  IInv'
<1> USE DEF IInv, ControlTypes, Locked, UnderWay, Receives, Starting, CalledOnce, StartingUp,
     Serving, Shown, Returned, S, D, DCode, Threads, Places, outside, None
<1>1. CASE HandlerThread_run
  BY <1>1 DEF HandlerThread_run
<1>2. CASE serviceMain
  BY <1>2 DEF serviceMain
<1>3. CASE registered
  BY <1>3 DEF registered
<1>4. CASE waitArgs
  BY <1>4, BeforeLoop DEF waitArgs
<1>5. CASE createApplication
  BY <1>5, BeforeLoop DEF createApplication
<1>6. QED BY <1>1, <1>2, <1>3, <1>4, <1>5

\* The steps of handler(): one of the two threads, its code and what it reports.
LEMMA HandlerIInv ==
    ASSUME IInv, NEW t \in Threads, handler(t)
    PROVE  IInv'
<1> USE DEF IInv, ControlTypes, Locked, UnderWay, Receives, Starting, CalledOnce, StartingUp,
     Serving, Shown, Returned, S, D, DCode, Threads, Places, outside, None
<1>1. CASE lockAndPost(t)
  <2> USE DEF lockAndPost, StatusOf, setStatus, Pending, During, Running, Controls, States
  <2>1. CASE t = "serviceMain"
    BY <1>1, <2>1
  <2>2. CASE t = "dispatcher" /\ DCode = "INTERROGATE"
    BY <1>1, <2>2
  <2>3. CASE t = "dispatcher" /\ DCode # "INTERROGATE"
    <3>1. D = "enter" /\ S \in {"report", "over"} /\ DCode \in Controls
      BY <1>1, <2>3, AfterStart
    <3>2. main = "loop" /\ receiver /\ status \in Running /\ queue = << >>
      BY <3>1
    <3>3. /\ S' = S /\ D' = "posted" /\ mutex' = "dispatcher" /\ DCode' = DCode
          /\ queue' = <<DCode>> /\ During(DCode)'
          /\ status' \in States /\ scm' = status'
          /\ status' # "STOPPED"
      BY <1>1, <2>3, <3>1, <3>2
    <3>4. Locked' /\ ControlTypes'
      BY <1>1, <2>3, <3>1, <3>3
    <3>5. QED BY <1>1, <2>3, <3>1, <3>2, <3>3, <3>4
  <2>4. QED BY <2>1, <2>2, <2>3
<1>2. CASE wait(t)
  BY <1>2 DEF wait, During, Pending, Stopping
<1>3. CASE woken(t)
  BY <1>3 DEF woken, StatusOf, setStatus, Pending, After, During, Running, Controls, States, Stopping
<1>4. CASE report(t)
  BY <1>4 DEF report, During, Pending, Stopping
<1>5. QED BY <1>1, <1>2, <1>3, <1>4 DEF handler

\* The main thread's loop and what follows it.
LEMMA LoopIInv ==
    ASSUME IInv, handleCustomEvent \/ wakeAll \/ left \/ cleanup
    PROVE  IInv'
<1> USE DEF IInv, ControlTypes, Locked, UnderWay, Receives, Starting, CalledOnce, StartingUp,
     Serving, Shown, Returned, S, D, DCode, Threads, Places, outside, None
<1>1. CASE handleCustomEvent
  BY <1>1 DEF handleCustomEvent, During, Pending, Stopping
<1>2. CASE wakeAll
  <2>1. /\ S' = IF S = "waiting" THEN "woken" ELSE S
        /\ D' = IF D = "waiting" THEN "woken" ELSE D
    BY <1>2 DEF wakeAll
  <2>2. ControlTypes' /\ Locked'
    BY <1>2 DEF wakeAll
  <2>3. CASE S = "waiting"
    <3>1. queue = <<"STARTUP">> /\ control = << >> /\ status = "START_PENDING" /\ D = "idle"
      BY <2>3
    <3>2. main' = "loop" /\ queue' = << >> /\ S' = "woken" /\ D' = "idle"
      BY <1>2, <2>1, <2>3, <3>1 DEF wakeAll
    <3>3. QED BY <1>2, <2>2, <3>1, <3>2 DEF wakeAll
  <2>4. CASE S # "waiting"
    <3>1. S \in {"report", "over"} /\ D = "waiting"
      BY <1>2, <2>4 DEF wakeAll, Stopping
    <3>2. QED BY <1>2, <2>1, <2>2, <3>1 DEF wakeAll, During, Pending, Stopping
  <2>5. QED BY <2>3, <2>4
<1>3. CASE left
  BY <1>3 DEF left, setStatus, During, Pending, Stopping, States, Running
<1>4. CASE cleanup
  BY <1>4 DEF cleanup, During, Pending, Stopping
<1>5. QED BY <1>1, <1>2, <1>3, <1>4

\* The dispatcher gets a control, answers it, or returns.
LEMMA DispatcherIInv ==
    ASSUME IInv, Deliver \/ Answer \/ Return
    PROVE  IInv'
<1> USE DEF IInv, ControlTypes, Locked, UnderWay, Receives, Starting, CalledOnce, StartingUp,
     Serving, Shown, Returned, S, D, DCode, Threads, Places, outside, None
<1>1. CASE Deliver
  BY <1>1 DEF Deliver, During, Pending, Stopping, Running
<1>2. CASE Answer
  BY <1>2 DEF Answer, During, Pending, Stopping
<1>3. CASE Return
  BY <1>3 DEF Return, During, Pending, Stopping
<1>4. QED BY <1>1, <1>2, <1>3

\* A step that only changes what the users have in their hands.
LEMMA FrameIInv ==
    ASSUME IInv, UNCHANGED <<process, scm, control>>
    PROVE  IInv'
BY DEF process, IInv, ControlTypes, Locked, UnderWay, Receives, Starting, CalledOnce, StartingUp,
     Serving, Shown, Returned, S, D, DCode, During, Stopping

\* A control is only accepted in a state in which the service can take it.
LEMMA ControlIInv ==
    ASSUME IInv, NEW u \in Users, NEW c \in Controls, ControlService(u, c)
    PROVE  IInv'
BY DEF ControlService, process, IInv, ControlTypes, Locked, UnderWay, Receives, Starting, CalledOnce,
     StartingUp, Serving, Shown, Returned, S, D, DCode, During, Stopping, States, Places, Threads

\* The users' steps.
LEMMA UserIInv ==
    ASSUME IInv, NEW u \in Users, User(u)
    PROVE  IInv'
<1>1. CASE stop(u) \/ pause(u) \/ resume(u) \/ interrogate(u)
  BY <1>1, ControlIInv DEF stop, pause, resume, interrogate, Controls
<1>2. CASE sendCommand(u)
  BY <1>2, ControlIInv, FrameIInv DEF sendCommand, Controls
<1>3. CASE poll(u) \/ isRunning(u) \/ isInstalled(u) \/ install(u) \/ uninstall(u)
  BY <1>3, FrameIInv DEF poll, isRunning, isInstalled, install, uninstall
<1>4. CASE start(u)
  BY <1>4, ExecIInv DEF start
<1>5. QED BY <1>1, <1>2, <1>3, <1>4 DEF User

LEMMA StepIInv == IInv /\ [Next]_vars => IInv'
<1> SUFFICES ASSUME IInv, [Next]_vars PROVE IInv'
  OBVIOUS
<1>1. CASE Main
  BY <1>1, HandshakeIInv, LoopIInv DEF Main
<1>2. CASE ServiceMain
  BY <1>2, HandshakeIInv, HandlerIInv DEF ServiceMain, Threads
<1>3. CASE Dispatcher
  BY <1>3, HandshakeIInv, HandlerIInv, DispatcherIInv DEF Dispatcher, Threads
<1>4. CASE Exit
  BY <1>4, ExitIInv
<1>5. CASE console
  BY <1>5, ExecIInv DEF console
<1>6. CASE \E u \in Users : User(u)
  BY <1>6, UserIInv
<1>7. CASE UNCHANGED vars
  BY <1>7, FrameIInv DEF vars, outside
<1>8. QED BY <1>1, <1>2, <1>3, <1>4, <1>5, <1>6, <1>7 DEF Next

\* The invariant of the service process.
THEOREM ControlInvariant == Spec => []IInv
BY InitIInv, StepIInv, PTL DEF Spec

-----------------------------------------------------------------------------
\* start() deletes what handler() uses only when the dispatcher's thread is
\* out of it, or when ht->wait(1000) gave up.
THEOREM ControlDeletedAfterHandler == Spec => []DeletedAfterHandler
<1>1. IInv => DeletedAfterHandler
  BY DEF IInv, Returned, D, DeletedAfterHandler
<1>2. QED BY <1>1, ControlInvariant, PTL

-----------------------------------------------------------------------------
\* The refinement.  What the steps of handler() and of the main thread report
\* are steps of the life cycle.

LEMMA HandlerRefines ==
    ASSUME IInv, NEW t \in Threads, handler(t)
    PROVE  [Lifecycle!Next]_<<status, scm>>
<1> USE DEF Lifecycle!Next, Threads
<1>1. CASE t = "serviceMain"
  <2>1. code[t] = "STARTUP" /\ (at[t] = "enter" => status = "STOPPED") /\ (at[t] = "woken" => status = "START_PENDING")
    BY <1>1 DEF IInv, StartingUp, S
  <2>2. CASE lockAndPost(t)
    BY <2>1, <2>2 DEF lockAndPost, StatusOf, setStatus, Pending, Lifecycle!Begin, Lifecycle!Report
  <2>3. CASE wait(t)
    BY <2>3 DEF wait, outside
  <2>4. CASE woken(t)
    BY <2>1, <2>4 DEF woken, StatusOf, setStatus, After, Lifecycle!Complete, Lifecycle!Completed, Lifecycle!Report
  <2>5. CASE report(t)
    BY <2>5 DEF report, IInv, Shown
  <2>6. QED BY <2>2, <2>3, <2>4, <2>5 DEF handler
<1>2. CASE t = "dispatcher"
  <2>1. at[t] # "idle" => S \in {"report", "over"} /\ DCode \in Controls
    BY <1>2, AfterStart DEF IInv, UnderWay, D
  <2>2. CASE lockAndPost(t)
    <3>1. status \in Running
      BY <1>2, <2>1, <2>2 DEF lockAndPost, IInv, Serving, D
    <3>2. QED
      BY <1>2, <2>1, <2>2, <3>1 DEF lockAndPost, StatusOf, setStatus, Pending, Running, Controls, D, DCode,
         Lifecycle!Request, Lifecycle!Report
  <2>3. CASE wait(t)
    BY <2>3 DEF wait, outside
  <2>4. CASE woken(t)
    <3>1. DCode # "STOP" => During(DCode)
      BY <1>2, <2>1, <2>4 DEF woken, IInv, Serving, D
    <3>2. QED
      BY <1>2, <2>1, <2>4, <3>1 DEF woken, StatusOf, setStatus, After, Pending, During, Controls, D, DCode,
         Lifecycle!Complete, Lifecycle!Completed, Lifecycle!Report
  <2>5. CASE report(t)
    BY <2>5 DEF report, IInv, Shown
  <2>6. QED BY <2>2, <2>3, <2>4, <2>5 DEF handler
<1>3. QED BY <1>1, <1>2

LEMMA MainRefines ==
    ASSUME IInv, Main
    PROVE  [Lifecycle!Next]_<<status, scm>>
<1>1. CASE waitArgs \/ createApplication \/ handleCustomEvent \/ wakeAll \/ cleanup
  BY <1>1 DEF waitArgs, createApplication, handleCustomEvent, wakeAll, cleanup, outside
<1>2. CASE left
  <2>1. S \in {"report", "over"}
    BY <1>2 DEF left, IInv, ControlTypes, Starting, StartingUp, S, Places, Threads
  <2>2. status = "STOP_PENDING"
    BY <1>2, <2>1 DEF left, IInv, Serving, Stopping
  <2>3. QED
    BY <1>2, <2>2 DEF left, setStatus, Lifecycle!Next, Lifecycle!Complete, Lifecycle!Completed, Lifecycle!Report
<1>3. QED BY <1>1, <1>2 DEF Main

\* The process ends only after STOPPED was reported, or before anything was.
LEMMA ExitRefines ==
    ASSUME IInv, Exit
    PROVE  [Lifecycle!Next]_<<status, scm>>
<1>1. S \notin {"enter", "posted", "waiting", "woken"}
  BY DEF Exit, IInv, StartingUp
<1>2. S \in {"idle", "called", "sem2"} \/ S \in {"report", "over"}
  BY <1>1 DEF IInv, ControlTypes, S, Places, Threads
<1>3. status = "STOPPED"
  BY <1>2 DEF Exit, IInv, Starting, Serving, Stopping
<1>4. QED BY <1>3 DEF Exit, Lifecycle!Next, Lifecycle!End, Lifecycle!Report

\* A user's StartService launches the process; nothing else they do is seen.
LEMMA UserRefines ==
    ASSUME IInv, NEW u \in Users, User(u)
    PROVE  [Lifecycle!Next]_<<status, scm>>
<1>1. CASE start(u)
  BY <1>1, BeforeLoop DEF start, exec, Lifecycle!Next, Lifecycle!Launch
<1>2. CASE ~start(u)
  BY <1>2 DEF User, stop, pause, resume, interrogate, poll, isRunning, sendCommand, isInstalled,
     install, uninstall, ControlService, process
<1>3. QED BY <1>1, <1>2

\* QtService's three threads implement the life cycle of a Windows service: in
\* every behaviour the reported states follow each other as ServiceLifecycle
\* allows, although the last report of handler() is made without the mutex.
THEOREM ControlFollowsLifecycle == Spec => FollowsLifecycle
<1>1. Init => Lifecycle!Init
  BY DEF Init, NoProcess, Lifecycle!Init
<1>2. IInv /\ [Next]_vars => [Lifecycle!Next]_<<status, scm>>
  <2> SUFFICES ASSUME IInv, [Next]_vars PROVE [Lifecycle!Next]_<<status, scm>>
    OBVIOUS
  <2>1. CASE ServiceMain
    BY <2>1, HandlerRefines DEF ServiceMain, serviceMain, registered, outside, Threads
  <2>2. CASE Dispatcher
    BY <2>2, HandlerRefines DEF Dispatcher, HandlerThread_run, Deliver, Answer, Return, outside, Threads
  <2>3. CASE console
    BY <2>3, BeforeLoop DEF console, exec
  <2>4. CASE UNCHANGED vars
    BY <2>4 DEF vars, process, outside
  <2>5. QED
    BY <2>1, <2>2, <2>3, <2>4, MainRefines, ExitRefines, UserRefines DEF Next
<1>3. QED BY <1>1, <1>2, ControlInvariant, PTL DEF Spec, FollowsLifecycle, Lifecycle!Spec
=============================================================================
