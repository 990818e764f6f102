--------------------------- MODULE ServiceControl ---------------------------
(***************************************************************************)
(* How Windows starts, controls and stops the service: QtService's four    *)
(* threads and the processes that call QtServiceController.                *)
(*                                                                         *)
(*   main         QtServiceBase::exec and start(): sysInit, the wait for   *)
(*                serviceMain, the event loop, the clean-up;               *)
(*   dispatcher   HandlerThread: StartServiceCtrlDispatcher, which calls   *)
(*                handler() for each control of the manager, one by one;   *)
(*   serviceMain  a thread of Windows that ends in handler(STARTUP);       *)
(*   users        other processes: -terminate, -pause, -resume, -command,  *)
(*                -install, -uninstall and StartService.                   *)
(*                                                                         *)
(* handler() runs outside the main thread.  It posts an event, waits on a  *)
(* condition until the main thread has handled it, then reports a state,   *)
(* and after unlocking the mutex reports the CURRENT state once more.      *)
(* That last report is made by a thread that holds no lock, while others   *)
(* go on.                                                                  *)
(*                                                                         *)
(* The service control manager itself is external.  It takes no control    *)
(* while it shows START_PENDING, STOP_PENDING or STOPPED, delivers one     *)
(* control at a time, and shows STOPPED once the process is gone.          *)
(* SetServiceStatus reads the structure it is given and changes what the   *)
(* manager shows in one step.                                              *)
(***************************************************************************)
EXTENDS Integers, Sequences

CONSTANTS Users,         \* processes that use QtServiceController
          MaxRuns,       \* bound: processes of the service
          MaxControls,   \* bound: controls sent in all
          MaxPolls       \* the 10 queries of QtServiceController::stop

ASSUME ServiceControlAssumption ==
    MaxRuns \in Nat /\ MaxControls \in Nat /\ MaxPolls \in Nat

Threads == {"serviceMain", "dispatcher"}

None == "none"

VARIABLES
    \* the process
    main,        \* where the main thread is
    dispatch,    \* HandlerThread
    kind,        \* started by the manager or from a console
    sem1, sem2,  \* startSemaphore, startSemaphore2
    mutex,       \* its owner
    at, code,    \* where each thread is in handler(), and the code it was given
    queue,       \* posted events
    status,      \* status.dwCurrentState
    sysd,        \* QtServiceSysPrivate: "none", "live", "deleted"
    receiver,    \* controllerHandler is set
    server,      \* Service::server has been created
    slow,        \* ht->wait(1000) ran into its timeout
    \* outside it
    scm,         \* the state the manager shows
    db,          \* the manager's entry of the service
    control,     \* the control under way: <<user, code>>
    user,        \* where each user is
    polls,       \* queries its stop() has made
    runs, controls

process == <<main, dispatch, kind, sem1, sem2, mutex, at, code, queue,
             status, sysd, receiver, server, slow>>
outside == <<scm, db, control, user, polls, runs, controls>>
vars == <<process, outside>>

States == {"STOPPED", "START_PENDING", "RUNNING", "PAUSE_PENDING", "PAUSED",
           "CONTINUE_PENDING", "STOP_PENDING"}

-----------------------------------------------------------------------------
\* The process begins and ends.

NoProcess ==
    /\ main = "off" /\ dispatch = "none" /\ kind = "scm"
    /\ sem1 = 0 /\ sem2 = 0 /\ mutex = None
    /\ at = [t \in Threads |-> "idle"]
    /\ code = [t \in Threads |-> "STARTUP"]
    /\ queue = << >> /\ status = "STOPPED"
    /\ sysd = "none" /\ receiver = FALSE /\ server = FALSE /\ slow = FALSE

Init ==
    /\ NoProcess
    /\ scm = "STOPPED" /\ db = "absent" /\ control = << >>
    /\ user = [u \in Users |-> "idle"]
    /\ polls = [u \in Users |-> 0]
    /\ runs = 0 /\ controls = 0

\* exec() without arguments calls start(): sysInit, and the handler thread.
exec(k) ==
    /\ main = "off" /\ runs < MaxRuns
    /\ runs' = runs + 1
    /\ main' = "waitArgs" /\ dispatch' = "connecting" /\ kind' = k
    /\ sysd' = "live" /\ status' = "STOPPED"
    /\ UNCHANGED <<sem1, sem2, mutex, at, code, queue, receiver, server, slow>>

\* main() returns: the process ends with all its threads, the manager sees it
\* and fails a ControlService under way, and a service marked for deletion goes.
Exit ==
    /\ main = "ended"
    /\ main' = "off" /\ dispatch' = "none" /\ kind' = "scm"
    /\ sem1' = 0 /\ sem2' = 0 /\ mutex' = None
    /\ at' = [t \in Threads |-> "idle"]
    /\ code' = [t \in Threads |-> "STARTUP"]
    /\ queue' = << >> /\ status' = "STOPPED"
    /\ sysd' = "none" /\ receiver' = FALSE /\ server' = FALSE /\ slow' = FALSE
    /\ scm' = "STOPPED"
    /\ db' = IF db = "marked" THEN "absent" ELSE db
    /\ control' = << >>
    /\ user' = [u \in Users |-> IF user[u] = "sent" THEN "idle" ELSE user[u]]
    /\ UNCHANGED <<polls, runs, controls>>

-----------------------------------------------------------------------------
\* The handshake of the start.

\* HandlerThread::run.  The manager calls serviceMain and the dispatcher stays
\* in its loop, or the call fails.
HandlerThread_run ==
    /\ dispatch = "connecting"
    /\ \/ /\ kind = "scm"
          /\ dispatch' = "dispatching"
          /\ at' = [at EXCEPT !["serviceMain"] = "called"]
          /\ UNCHANGED sem1
       \/ /\ dispatch' = "failed" /\ sem1' = sem1 + 1
          /\ UNCHANGED at
    /\ UNCHANGED <<main, kind, sem2, mutex, code, queue, status, sysd, receiver, server, slow, outside>>

serviceMain ==
    /\ at["serviceMain"] = "called"
    /\ sem1' = sem1 + 1
    /\ at' = [at EXCEPT !["serviceMain"] = "sem2"]
    /\ UNCHANGED <<main, dispatch, kind, sem2, mutex, code, queue, status, sysd, receiver, server, slow, outside>>

\* RegisterServiceCtrlHandler, then handler(QTSERVICE_STARTUP).
registered ==
    /\ at["serviceMain"] = "sem2" /\ sem2 > 0
    /\ sem2' = sem2 - 1
    /\ at' = [at EXCEPT !["serviceMain"] = "enter"]
    /\ code' = [code EXCEPT !["serviceMain"] = "STARTUP"]
    /\ UNCHANGED <<main, dispatch, kind, sem1, mutex, queue, status, sysd, receiver, server, slow, outside>>

\* start() goes on once the semaphore is released, or gives up after 20 s.
\* Started from a console it asks the manager to start another process (the
\* user's StartService below) and ends.
waitArgs ==
    /\ main = "waitArgs"
    /\ \/ sem1 > 0 /\ sem1' = sem1 - 1 /\ main' = IF dispatch = "failed" THEN "ended" ELSE "create"
       \/ sem1 = 0 /\ main' = "ended" /\ UNCHANGED sem1
    /\ UNCHANGED <<dispatch, kind, sem2, mutex, at, code, queue, status, sysd, receiver, server, slow, outside>>

createApplication ==
    /\ main = "create"
    /\ receiver' = TRUE
    /\ sem2' = sem2 + 1
    /\ main' = "loop"
    /\ UNCHANGED <<dispatch, kind, sem1, mutex, at, code, queue, status, sysd, server, slow, outside>>

-----------------------------------------------------------------------------
\* handler(code), in serviceMain's thread or in the dispatcher's.

Pending == [STARTUP |-> "START_PENDING", STOP |-> "STOP_PENDING",
            PAUSE |-> "PAUSE_PENDING", CONTINUE |-> "CONTINUE_PENDING"]
After == [STARTUP |-> "RUNNING", PAUSE |-> "PAUSED", CONTINUE |-> "RUNNING"]

\* setStatus: remember the state and report it.
setStatus(s) == status' = s /\ scm' = s

StatusOf(f, c) ==
    IF c \in DOMAIN f THEN setStatus(f[c]) ELSE UNCHANGED <<status, scm>>

\* Lock, report the pending state, post the event.
lockAndPost(t) ==
    /\ at[t] = "enter" /\ mutex = None
    /\ IF code[t] = "INTERROGATE"
         THEN /\ at' = [at EXCEPT ![t] = "report"]
              /\ UNCHANGED <<mutex, queue, status, scm>>
         ELSE /\ at' = [at EXCEPT ![t] = "posted"]
              /\ mutex' = t
              /\ queue' = IF receiver THEN Append(queue, code[t]) ELSE queue
              /\ StatusOf(Pending, code[t])
    /\ UNCHANGED <<main, dispatch, kind, sem1, sem2, code, sysd, receiver, server, slow,
                   db, control, user, polls, runs, controls>>

\* condition.wait(&mutex): unlock and sleep in one step.
wait(t) ==
    /\ at[t] = "posted"
    /\ at' = [at EXCEPT ![t] = "waiting"]
    /\ mutex' = None
    /\ UNCHANGED <<main, dispatch, kind, sem1, sem2, code, queue, status, sysd, receiver, server, slow, outside>>

\* Fault: a woken STOP reports RUNNING, as the other controls do.
stopReports(t) ==
    /\ at[t] = "woken" /\ mutex = None
    /\ at' = [at EXCEPT ![t] = "report"]
    /\ setStatus(IF code[t] \in DOMAIN After THEN After[code[t]] ELSE "RUNNING")
    /\ UNCHANGED <<main, dispatch, kind, sem1, sem2, mutex, code, queue, sysd, receiver, server, slow,
                   db, control, user, polls, runs, controls>>

\* The wait ends with the mutex taken again; report the state and unlock.
woken(t) ==
    /\ at[t] = "woken" /\ mutex = None
    /\ at' = [at EXCEPT ![t] = "report"]
    /\ StatusOf(After, code[t])
    /\ UNCHANGED <<main, dispatch, kind, sem1, sem2, mutex, code, queue, sysd, receiver, server, slow,
                   db, control, user, polls, runs, controls>>

\* "Report current status", unlocked: the manager is told what status holds
\* by now, unless that is STOPPED.
report(t) ==
    /\ at[t] = "report" /\ sysd = "live"
    /\ scm' = IF status # "STOPPED" THEN status ELSE scm
    /\ at' = [at EXCEPT ![t] = "over"]
    /\ UNCHANGED <<main, dispatch, kind, sem1, sem2, mutex, code, queue, status, sysd, receiver, server, slow,
                   db, control, user, polls, runs, controls>>

handler(t) == lockAndPost(t) \/ wait(t) \/ woken(t) \/ report(t)

-----------------------------------------------------------------------------
\* The main thread's event loop and what follows it.

\* handleCustomEvent: start() creates the server, stop() closes it and quits.
\* pause(), resume() and processCommand() do nothing.
handleCustomEvent ==
    /\ main = "loop" /\ queue # << >>
    /\ main' = "handled"
    /\ server' = (server \/ Head(queue) = "STARTUP")
    /\ UNCHANGED <<dispatch, kind, sem1, sem2, mutex, at, code, queue, status, sysd, receiver, slow, outside>>

\* Fault: the condition is woken without taking the mutex first.
wakesUnlocked ==
    /\ main = "handled"
    /\ at' = [t \in Threads |-> IF at[t] = "waiting" THEN "woken" ELSE at[t]]
    /\ queue' = Tail(queue)
    /\ main' = IF Head(queue) = "STOP" THEN "left" ELSE "loop"
    /\ UNCHANGED <<dispatch, kind, sem1, sem2, mutex, code, status, sysd, receiver, server, slow, outside>>

\* Lock, wakeAll, unlock.
wakeAll ==
    /\ main = "handled" /\ mutex = None
    /\ at' = [t \in Threads |-> IF at[t] = "waiting" THEN "woken" ELSE at[t]]
    /\ queue' = Tail(queue)
    /\ main' = IF Head(queue) = "STOP" THEN "left" ELSE "loop"
    /\ UNCHANGED <<dispatch, kind, sem1, sem2, mutex, code, status, sysd, receiver, server, slow, outside>>

\* executeApplication has returned: setStatus(SERVICE_STOPPED).
left ==
    /\ main = "left"
    /\ setStatus("STOPPED")
    /\ main' = "waitHandler"
    /\ UNCHANGED <<dispatch, kind, sem1, sem2, mutex, at, code, queue, sysd, receiver, server, slow,
                   db, control, user, polls, runs, controls>>

\* Fault: start() cleans up without waiting for the handler thread.
cleanupAtOnce ==
    /\ main = "waitHandler"
    /\ sysd' = "deleted" /\ receiver' = FALSE /\ main' = "ended"
    /\ UNCHANGED <<dispatch, kind, sem1, sem2, mutex, at, code, queue, status, server, slow, outside>>

\* ht->wait(1000), delete controllerHandler, sysCleanup.
cleanup ==
    /\ main = "waitHandler"
    /\ slow' = (dispatch # "returned")
    /\ sysd' = "deleted" /\ receiver' = FALSE /\ main' = "ended"
    /\ UNCHANGED <<dispatch, kind, sem1, sem2, mutex, at, code, queue, status, server, outside>>

Main == waitArgs \/ createApplication \/ handleCustomEvent \/ wakeAll \/ left \/ cleanup

-----------------------------------------------------------------------------
\* The dispatcher and the manager (external).

\* A control reaches the dispatcher's thread.
Deliver ==
    /\ control # << >> /\ dispatch = "dispatching" /\ at["dispatcher"] = "idle"
    /\ at' = [at EXCEPT !["dispatcher"] = "enter"]
    /\ code' = [code EXCEPT !["dispatcher"] = control[2]]
    /\ UNCHANGED <<main, dispatch, kind, sem1, sem2, mutex, queue, status, sysd, receiver, server, slow, outside>>

\* handler() has returned: the caller of ControlService gets its answer, and
\* stop() begins to poll.
Answer ==
    /\ at["dispatcher"] = "over"
    /\ at' = [at EXCEPT !["dispatcher"] = "idle"]
    /\ control' = << >>
    /\ user' = [user EXCEPT ![control[1]] = IF control[2] = "STOP" THEN "polling" ELSE "idle"]
    /\ UNCHANGED <<main, dispatch, kind, sem1, sem2, mutex, code, queue, status, sysd, receiver, server, slow,
                   scm, db, polls, runs, controls>>

\* StartServiceCtrlDispatcher returns when the service has stopped.
Return ==
    /\ dispatch = "dispatching" /\ main = "waitHandler" /\ at["dispatcher"] = "idle"
    /\ dispatch' = "returned"
    /\ UNCHANGED <<main, kind, sem1, sem2, mutex, at, code, queue, status, sysd, receiver, server, slow, outside>>

-----------------------------------------------------------------------------
\* QtServiceController, in the users' processes.

\* ControlService: refused unless the manager shows a state that takes controls.
ControlService(u, c) ==
    /\ controls < MaxControls
    /\ control = << >> /\ scm \notin {"STOPPED", "START_PENDING", "STOP_PENDING"}
    /\ control' = <<u, c>>
    /\ controls' = controls + 1
    /\ user' = [user EXCEPT ![u] = "sent"]
    /\ polls' = [polls EXCEPT ![u] = 0]
    /\ UNCHANGED <<process, scm, db, runs>>

stop(u) == user[u] = "idle" /\ ControlService(u, "STOP")
pause(u) == user[u] = "idle" /\ ControlService(u, "PAUSE")
resume(u) == user[u] = "idle" /\ ControlService(u, "CONTINUE")
interrogate(u) == user[u] = "idle" /\ ControlService(u, "INTERROGATE")

\* stop() asks up to ten times whether the service has stopped.
poll(u) ==
    /\ user[u] = "polling"
    /\ IF scm = "STOPPED" \/ polls[u] = MaxPolls
         THEN user' = [user EXCEPT ![u] = "idle"] /\ UNCHANGED polls
         ELSE polls' = [polls EXCEPT ![u] = @ + 1] /\ UNCHANGED user
    /\ UNCHANGED <<process, scm, db, control, runs, controls>>

\* sendCommand tests isRunning() first and sends afterwards.
isRunning(u) ==
    /\ user[u] = "idle" /\ scm # "STOPPED"
    /\ user' = [user EXCEPT ![u] = "running"]
    /\ UNCHANGED <<process, scm, db, control, polls, runs, controls>>

sendCommand(u) ==
    /\ user[u] = "running"
    /\ \/ ControlService(u, "COMMAND")
       \/ user' = [user EXCEPT ![u] = "idle"] /\ UNCHANGED <<process, scm, db, control, polls, runs, controls>>

\* -install: isInstalled(), then install(), which fails when it was created meanwhile.
isInstalled(u) ==
    /\ user[u] = "idle" /\ db = "absent"
    /\ user' = [user EXCEPT ![u] = "absent"]
    /\ UNCHANGED <<process, scm, db, control, polls, runs, controls>>

install(u) ==
    /\ user[u] = "absent"
    /\ db' = IF db = "absent" THEN "installed" ELSE db
    /\ user' = [user EXCEPT ![u] = "idle"]
    /\ UNCHANGED <<process, scm, control, polls, runs, controls>>

\* -uninstall: a running service is only marked for deletion.
uninstall(u) ==
    /\ user[u] = "idle" /\ db = "installed"
    /\ db' = IF main = "off" THEN "absent" ELSE "marked"
    /\ UNCHANGED <<process, scm, control, user, polls, runs, controls>>

\* start(): StartService launches the process.
start(u) ==
    /\ user[u] = "idle" /\ db = "installed" /\ scm = "STOPPED"
    /\ exec("scm")
    /\ scm' = "START_PENDING"
    /\ UNCHANGED <<db, control, user, polls, controls>>

\* The program is started by hand, without arguments.
console == exec("console") /\ UNCHANGED <<scm, db, control, user, polls, controls>>

User(u) ==
    \/ stop(u) \/ pause(u) \/ resume(u) \/ interrogate(u) \/ poll(u)
    \/ isRunning(u) \/ sendCommand(u)
    \/ isInstalled(u) \/ install(u) \/ uninstall(u) \/ start(u)

ServiceMain == serviceMain \/ registered \/ handler("serviceMain")
Dispatcher == HandlerThread_run \/ handler("dispatcher") \/ Deliver \/ Answer \/ Return
Next == Main \/ ServiceMain \/ Dispatcher \/ Exit \/ console \/ \E u \in Users : User(u)

Spec == Init /\ [][Next]_vars

\* The threads run, the manager answers and stop()'s loop goes on; nobody has
\* to send a control.
Fairness ==
    /\ WF_vars(Main) /\ WF_vars(ServiceMain) /\ WF_vars(Dispatcher)
    /\ WF_vars(Exit)
    /\ \A u \in Users : WF_vars(poll(u))

FairSpec == Spec /\ Fairness

-----------------------------------------------------------------------------
\* Properties.

\* Safety: unless ht->wait(1000) ran into its timeout, the dispatcher's thread
\* is out of handler() when the structure it uses is deleted.
DeletedAfterHandler ==
    sysd = "deleted" /\ ~slow => at["dispatcher"] = "idle"

\* Refinement: the state the service keeps and the state the manager
\* shows follow the life cycle Windows documents.
Lifecycle == INSTANCE ServiceLifecycle WITH state <- status, shown <- scm
FollowsLifecycle == Lifecycle!Spec

\* Liveness: a control that has entered handler() gets out of it, so that no
\* caller of ControlService hangs, and every pending state is left.
ControlsAnswered ==
    /\ \A u \in Users : user[u] = "sent" ~> user[u] # "sent"
    /\ Lifecycle!Settles
=============================================================================
