----------------------------- MODULE VpnService -----------------------------
(***************************************************************************)
(* The service's VPNs: the part of SslServerConnection                     *)
(* (service/sslserverconnection.cpp) that opens, closes and reports VPNs,  *)
(* the OpenVpn objects it owns, their openvpn.exe processes, the config    *)
(* vault and the exit events.                                              *)
(*                                                                         *)
(* All of it runs in the service's main thread: a command, a chunk of      *)
(* output, the end of a process, a 250 ms timer and the end of a           *)
(* connection are each handled to the end before the next one.  The        *)
(* processes are the other actors.  What a step sends to a client is in    *)
(* sent; what happens to it on the way is not this module's matter.        *)
(*                                                                         *)
(* A connection is one accepted socket.  A client that reconnects gets a   *)
(* new one, with an empty list of VPNs, while the old one may not have     *)
(* been destroyed yet.                                                     *)
(***************************************************************************)
EXTENDS OpenVpn, FiniteSets

CONSTANTS
    Conns,          \* connections
    Ids,            \* config ids
    MaxObjs,        \* bound: OpenVpn objects that exist at a time
    Chunks,         \* the chunks openvpn may print
    RemoteLines,    \* the numbers of "remote" lines a config may have
    AnswerTypes,    \* the types of INPUT that clients answer
    Outcomes,       \* the outcomes of connectToVpn to consider
    EventResults,   \* whether CreateEvent may succeed (TRUE) and fail (FALSE)
    Portable        \* g_bPortable

ASSUME ServiceAssumption ==
    /\ Conns # {} /\ Ids # {}
    /\ MaxObjs \in Nat \ {0}
    /\ Chunks \subseteq SUBSET Phrases
    /\ RemoteLines \subseteq Nat
    /\ AnswerTypes \subseteq {0, 1, 2, 3, 5, 6}
    /\ Outcomes \subseteq ConnectOutcomes
    /\ EventResults \subseteq BOOLEAN
    /\ Portable \in BOOLEAN

Objs == 1 .. MaxObjs

\* What owner and ident hold for an object that does not exist.
AnyConn == CHOOSE c \in Conns : TRUE
AnyId == CHOOSE i \in Ids : TRUE

VARIABLES
    conn,       \* "new", "up", "closed" (not destroyed yet) or "gone"
    vpn,        \* the OpenVpn objects
    place,      \* "free", "listed" in vpnList, or "doomed" (removed, to be deleted)
    owner,      \* the connection of an object
    ident,      \* the id of an object
    vault,      \* the objects whose config file is in the vault
    signalled,  \* ids whose exit event is set and held by a process
    sent        \* what the last step sent: to whom, about which id, what

vars == <<conn, vpn, place, owner, ident, vault, signalled, sent>>


Nothing == [msgs |-> << >>]

-----------------------------------------------------------------------------
\* foundItemInList: the objects of connection c with this id.
Items(c, i) == {o \in Objs : place[o] = "listed" /\ owner[o] = c /\ ident[o] = i}

\* Fault: the object keeps its place in the list.
forgetsToRemove(c, i) == place

\* removeItemFromList: the object leaves the list and is deleted 250 ms later.
\* The process's signals to the object stay connected.
removeItemFromList(c, i) ==
    [o \in Objs |-> IF o \in Items(c, i) THEN "doomed" ELSE place[o]]

\* SrvCLI::send.  A message to a socket that is closed is lost.
Send(c, i, msgs) ==
    sent' = IF conn[c] = "up" /\ msgs # << >>
            THEN [to |-> c, id |-> i, msgs |-> msgs] ELSE Nothing

\* The exit event of an id is one manual-reset event with that name; it is
\* set by SetEvent and lasts while a process holds it.
SetEvents(ids) ==
    signalled' = {i \in signalled \cup ids :
                     \E o \in Objs : ident'[o] = i /\ vpn'[o].proc = "running"}

Busy(o) == vpn[o].connectionStable \/ vpn[o].connecting

Init ==
    /\ conn = [c \in Conns |-> "new"]
    /\ vpn = [o \in Objs |-> NewOpenVpn]
    /\ place = [o \in Objs |-> "free"]
    /\ owner = [o \in Objs |-> AnyConn]
    /\ ident = [o \in Objs |-> AnyId]
    /\ vault = {}
    /\ signalled = {}
    /\ sent = Nothing

-----------------------------------------------------------------------------
\* OPEN, when there is an object that is connected or connecting.
OpenAgain(c, i) ==
    /\ conn[c] = "up"
    /\ \E o \in Items(c, i) : Busy(o) /\ Send(c, i, <<sendStatus(vpn[o])>>)
    /\ UNCHANGED <<conn, vpn, place, owner, ident, vault, signalled>>

\* OPEN, when the config is rejected (empty, wrong checksum, script-security)
\* or, with the vault already wiped, cannot be written.
OpenRejected(c, i) ==
    /\ conn[c] = "up"
    /\ ~Portable
    /\ ~ \E o \in Items(c, i) : Busy(o)
    /\ place' = removeItemFromList(c, i)
    /\ vault' \in {vault, {}}
    /\ Send(c, i, <<Plain("ERROR")>>)
    /\ UNCHANGED <<conn, vpn, owner, ident, signalled>>

\* OPEN of a new object.  The whole vault is wiped first, whoever's it is.
OpenNew(c, i, outcome, remoteLines) ==
    /\ conn[c] = "up"
    /\ ~ \E o \in Items(c, i) : Busy(o)
    /\ \E o \in Objs :
         /\ place[o] = "free"
         /\ \A p \in 1 .. o - 1 : place[p] # "free"
         /\ place' = [removeItemFromList(c, i) EXCEPT
                        ![o] = IF connectToVpnRemoves(outcome) THEN "doomed" ELSE "listed"]
         /\ vpn' = [vpn EXCEPT ![o] = connectToVpn(NewOpenVpn, outcome, remoteLines)]
         /\ owner' = [owner EXCEPT ![o] = c]
         /\ ident' = [ident EXCEPT ![o] = i]
         /\ vault' = IF Portable THEN vault ELSE {o}
    /\ Send(c, i, connectToVpnSends(outcome))
    /\ UNCHANGED <<conn, signalled>>

\* disconnectVpn for the objects of done, for which the event can be created,
\* and of failed, for which it cannot.
DisconnectAll(done, failed) ==
    /\ vpn' = [o \in Objs |-> IF o \in done \cup failed
                              THEN disconnectVpn(vpn[o], o \in done) ELSE vpn[o]]
    /\ vault' = IF Portable THEN vault ELSE vault \ done
    /\ UNCHANGED <<owner, ident>>
    /\ SetEvents({ident[o] : o \in done})

\* disconnectVpn of one object, asked for by a CLOSE.
Disconnect(o, eventOk) ==
    /\ DisconnectAll(IF eventOk THEN {o} ELSE {}, IF eventOk THEN {} ELSE {o})
    /\ place' = IF eventOk THEN removeItemFromList(owner[o], ident[o]) ELSE place
    /\ Send(owner[o], ident[o], When(eventOk, Plain("DISCONNECTED")))
    /\ UNCHANGED conn

\* CLOSE id: a client closes its own VPN.
CLOSE(c, i) ==
    /\ conn[c] = "up"
    /\ \E o \in Items(c, i), eventOk \in EventResults : Disconnect(o, eventOk)

\* CLOSE clientId;id: another connection (the command line) closes it.
CliCLOSE(c, d, i) ==
    /\ conn[c] = "up"
    /\ d # c
    /\ \E o \in Items(d, i), eventOk \in EventResults : Disconnect(o, eventOk)

\* STATUS.  An unknown id is answered with "not connected, not connecting".
STATUS(c, i) ==
    /\ conn[c] = "up"
    /\ IF Items(c, i) = {}
       THEN Send(c, i, <<sendStatus(NewOpenVpn)>>)
       ELSE \E o \in Items(c, i) : Send(c, i, <<sendStatus(vpn[o])>>)
    /\ UNCHANGED <<conn, vpn, place, owner, ident, vault, signalled>>

\* UNEEDED, PWDNEEDED, CKNEEDED, PKNEEDED, HTTPUSERNEEDED, HTTPPASSNEEDED
Answer(c, i, type) ==
    /\ conn[c] = "up"
    /\ \E o \in Items(c, i) : vpn' = [vpn EXCEPT ![o] = answer(@, type)]
    /\ sent' = Nothing
    /\ UNCHANGED <<conn, place, owner, ident, vault, signalled>>

-----------------------------------------------------------------------------
\* openvpn reads its config file and opens its exit event, or finds that the
\* file has gone, says so and ends.
ReadsConfig(o) ==
    /\ vpn[o].proc = "starting"
    /\ Portable \/ o \in vault
    /\ vpn' = [vpn EXCEPT ![o].proc = "running"]
    /\ sent' = Nothing
    /\ UNCHANGED <<conn, place, owner, ident, vault, signalled>>

Listens(o) == vpn[o].wired /\ ~vpn[o].onDisconnect

ConfigMissing(o) ==
    /\ vpn[o].proc = "starting"
    /\ ~Portable /\ o \notin vault
    /\ LET ended == [vpn[o] EXCEPT !.proc = "exited"]
       IN  IF Listens(o)
           THEN /\ vpn' = [vpn EXCEPT ![o] = readProcessData(ended, {"Fatal"}, TRUE)]
                /\ Send(owner[o], ident[o], readProcessDataSends(ended, {"Fatal"}, TRUE))
           ELSE vpn' = [vpn EXCEPT ![o] = ended] /\ sent' = Nothing
    /\ UNCHANGED <<conn, place, owner, ident, vault, signalled>>

\* openvpn prints something.  If the object gives up it disconnects itself;
\* its removeItemFromList signal reaches nobody once it has been removed.
Output(o, chunk, eventOk) ==
    /\ vpn[o].proc = "running"
    /\ Listens(o)
    /\ vpn' = [vpn EXCEPT ![o] = readProcessData(@, chunk, eventOk)]
    /\ LET leaves == GivesUp(vpn[o], chunk) /\ eventOk
       IN  /\ place' = IF leaves /\ place[o] = "listed"
                       THEN removeItemFromList(owner[o], ident[o]) ELSE place
           /\ vault' = IF leaves /\ ~Portable THEN vault \ {o} ELSE vault
           /\ UNCHANGED <<owner, ident>>
           /\ SetEvents(IF leaves THEN {ident[o]} ELSE {})
    /\ Send(owner[o], ident[o], readProcessDataSends(vpn[o], chunk, eventOk))
    /\ UNCHANGED conn

\* openvpn ends, because its exit event is set or for reasons of its own.
ProcExit(o, how) ==
    /\ vpn[o].proc \in Alive
    /\ how \in {"exited", "crashed"}
    /\ vpn' = [vpn EXCEPT ![o].proc = how]
    /\ UNCHANGED <<conn, place, owner, ident, vault>>
    /\ SetEvents({})
    /\ sent' = Nothing

\* Fault: the signals of a removed object stay connected, so that it removes
\* whatever is listed under its id.
finishedOfRemoved(o) ==
    /\ vpn[o].proc \in {"exited", "crashed"}
    /\ vpn[o].wired
    /\ vpn' = [vpn EXCEPT ![o] = processFinished(@)]
    /\ place' = removeItemFromList(owner[o], ident[o])
    /\ Send(owner[o], ident[o], processFinishedSends(vpn[o]))
    /\ UNCHANGED <<conn, owner, ident, vault, signalled>>

\* The process's finished signal.
Finished(o) ==
    /\ vpn[o].proc \in {"exited", "crashed"}
    /\ vpn[o].wired
    /\ vpn' = [vpn EXCEPT ![o] = processFinished(@)]
    /\ place' = IF place[o] = "listed"
                THEN removeItemFromList(owner[o], ident[o]) ELSE place
    /\ Send(owner[o], ident[o], processFinishedSends(vpn[o]))
    /\ UNCHANGED <<conn, owner, ident, vault, signalled>>

\* Fault: the process is not the object's child and outlives it.
deleteLeavesProcess(o) ==
    /\ place[o] = "doomed"
    /\ vpn[o].proc \notin Alive
    /\ place' = [place EXCEPT ![o] = "free"]
    /\ vpn' = [vpn EXCEPT ![o] = NewOpenVpn]
    /\ owner' = [owner EXCEPT ![o] = AnyConn]
    /\ ident' = [ident EXCEPT ![o] = AnyId]
    /\ UNCHANGED <<conn, vault>>
    /\ SetEvents({})
    /\ sent' = Nothing

\* deleteLater: with the object goes its QProcess, which kills what runs.
Delete(o) ==
    /\ place[o] = "doomed"
    /\ place' = [place EXCEPT ![o] = "free"]
    /\ vpn' = [vpn EXCEPT ![o] = NewOpenVpn]
    /\ owner' = [owner EXCEPT ![o] = AnyConn]
    /\ ident' = [ident EXCEPT ![o] = AnyId]
    /\ UNCHANGED <<conn, vault>>
    /\ SetEvents({})
    /\ sent' = Nothing

-----------------------------------------------------------------------------
\* A connection is accepted, closed by the client, and destroyed: the
\* destructor disconnects what is listed, silently, and deletes it.
Connected(c) ==
    /\ conn[c] = "new"
    /\ conn' = [conn EXCEPT ![c] = "up"]
    /\ sent' = Nothing
    /\ UNCHANGED <<vpn, place, owner, ident, vault, signalled>>

Closed(c) ==
    /\ conn[c] = "up"
    /\ conn' = [conn EXCEPT ![c] = "closed"]
    /\ sent' = Nothing
    /\ UNCHANGED <<vpn, place, owner, ident, vault, signalled>>

Destroy(c) ==
    /\ conn[c] = "closed"
    /\ LET list == {o \in Objs : place[o] = "listed" /\ owner[o] = c}
       IN  /\ \E done \in SUBSET list :
                /\ (list \ done # {} => FALSE \in EventResults)
                /\ (done # {} => TRUE \in EventResults)
                /\ DisconnectAll(done, list \ done)
           /\ place' = [o \in Objs |-> IF o \in list THEN "doomed" ELSE place[o]]
    /\ conn' = [conn EXCEPT ![c] = "gone"]
    /\ sent' = Nothing

Command ==
    \E c \in Conns, i \in Ids :
        \/ OpenAgain(c, i)
        \/ OpenRejected(c, i)
        \/ \E outcome \in Outcomes, n \in RemoteLines : OpenNew(c, i, outcome, n)
        \/ CLOSE(c, i)
        \/ \E d \in Conns : CliCLOSE(c, d, i)
        \/ STATUS(c, i)
        \/ \E type \in AnswerTypes : Answer(c, i, type)

Process ==
    \E o \in Objs :
        \/ ReadsConfig(o)
        \/ ConfigMissing(o)
        \/ \E chunk \in Chunks, eventOk \in EventResults : Output(o, chunk, eventOk)
        \/ \E how \in {"exited", "crashed"} : ProcExit(o, how)

Loop ==
    \/ \E o \in Objs : Finished(o) \/ Delete(o)
    \/ \E c \in Conns : Connected(c) \/ Closed(c) \/ Destroy(c)

Next == Command \/ Process \/ Loop

\* The event loop runs timers and deliveries, and a connection that is closed
\* is destroyed; clients and openvpn owe nobody anything.
Fairness ==
    /\ \A o \in Objs : WF_vars(Finished(o)) /\ WF_vars(Delete(o))
    /\ \A c \in Conns : WF_vars(Destroy(c))

Spec == Init /\ [][Next]_vars
FairSpec == Spec /\ Fairness

-----------------------------------------------------------------------------
\* Properties.

\* Safety: a connection never lists two objects under one id, whatever order
\* OPENs, failures and ends of processes come in; a CLOSE, a STATUS and an
\* answer then mean the one process there is (foundItemInList takes the
\* first match).
OneListedPerId ==
    \A o, p \in Objs :
        place[o] = "listed" /\ place[p] = "listed" /\ owner[o] = owner[p] /\ ident[o] = ident[p]
            => o = p

\* Safety: what is listed as connected or connecting has a process whose end
\* has not been handled yet.  OPEN refuses to start a VPN on the strength of
\* these two flags, so otherwise it could never be opened again.
LiveBehindStatus ==
    \A o \in Objs : place[o] = "listed" /\ Busy(o) => vpn[o].proc # "none"

\* Action property: an object that is connecting or connected leaves the list
\* only when its own process is gone.  In particular the late end of an object
\* that was replaced does not take its successor, which has the same id, off
\* the list (removeItemFromList disconnects the removed object for that).
NoStrayRemoval ==
    [][\A o \in Objs :
          place[o] = "listed" /\ place'[o] = "doomed" /\ Busy(o) /\ conn[owner[o]] = "up"
              => vpn'[o].proc = "none"]_vars

\* Liveness: the processes of a client that has gone away are all stopped, the
\* ones of replaced objects and the ones whose exit event failed included.
ProcessesEnd ==
    \A c \in Conns :
        conn[c] = "closed"
            ~> (\A o \in Objs : place[o] # "free" /\ owner[o] = c => vpn[o].proc \notin Alive)

\* Liveness, for an openvpn that can only fail to reach its hosts: the object
\* gives up once the hosts of its config are used up.  retryMultiHostCount is
\* what stops openvpn's endless retries.
FailingHostsGiveUp ==
    \A o \in Objs : place[o] = "listed" ~> place[o] # "listed"

\* What a comment says of the code and it does not do.

\* "After this pass the new file to openvpn": a process that has not read its
\* config yet finds it in the vault.
StartingHasConfig ==
    \A o \in Objs : ~Portable /\ vpn[o].proc = "starting" => o \in vault
=============================================================================
