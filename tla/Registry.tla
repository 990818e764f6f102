------------------------------ MODULE Registry ------------------------------
(***************************************************************************)
(* The service's list of client connections: SslServer (accept, quit,      *)
(* finished), SslConnections (the list itself) and the commands of         *)
(* SslServerConnection that use the list to reach ANOTHER connection:      *)
(* GETLOG / GETLOG_RESP and the command-line form of CLOSE.                *)
(*                                                                         *)
(* Before a connection gets an object the program at its other end is      *)
(* looked up and its signature is compared with the service's own.  What   *)
(* Windows says when it is asked (Checks) is external.                     *)
(*                                                                         *)
(* Connections are named by their threadId, which is what remove() goes    *)
(* by.  The id a client is shown (DUMMY, GET_CLIENTS) is something else:   *)
(* its index in the list at the moment it was accepted.  GETLOG resolves   *)
(* the id it is given by list position, CLOSE by comparing the ids.        *)
(*                                                                         *)
(* All handlers run in the service's main thread, so each is one action.   *)
(* A connection's own thread only runs an event loop; its end is reported  *)
(* to the main thread by a queued signal, hence the separate phase         *)
(* "finished".                                                             *)
(***************************************************************************)
EXTENDS Integers, Sequences, FiniteSets

CONSTANTS MaxConnections,   \* bound: connections accepted in one service run
          MaxRequests,      \* bound: commands sent through the list
          Checks,           \* what Windows may say of a connecting program
          Portable          \* g_bPortable: service.exe was started with -e

\* The programs at the two ends of a connection, and their certificates.
Programs == {"service", "client"}
Certificates == {"own", "foreign"}
None == "none"

\* The rows of the TCP ownership table about this connection, each from its
\* owner's point of view, who is the one it names (none if the table cannot
\* be read, or has grown since its size was asked for); the programs
\* whose path can be read, those with a valid signature, and the certificate
\* found in each file.
Row == [established : BOOLEAN, local : Programs, remote : Programs, pid : Programs]
Check == [table : SUBSET Row, readable : SUBSET Programs, trusted : SUBSET Programs,
          signer : [Programs -> Certificates \cup {None}]]

ASSUME RegistryAssumption ==
    /\ MaxConnections \in Nat
    /\ MaxRequests \in Nat
    /\ Portable \in BOOLEAN

ASSUME ChecksAssumption ==
    /\ Checks \subseteq Check
    /\ \A check \in Checks : \A r \in check.table : r.pid = r.local

Conn == 0 .. MaxConnections - 1
Phases == {"unborn", "open", "finished", "gone"}

VARIABLES
    connectionList,  \* SslConnections::connectionList, by threadId
    internalId,      \* SslServerConnection::internalId, the next threadId
    id,              \* SslServerConnection::id, assigned once by setId
    phase,           \* where a connection is in its life
    checked,         \* history: what was true of the programs it was accepted with
    stopTimers,      \* armed single-shot timers that call OnStopService
    running,         \* the service's event loop has not been left
    requests,        \* GETLOG messages on their way to a client, or with it
    routed           \* the last command that crossed connections

vars == <<connectionList, internalId, id, phase, checked, stopTimers, running,
          requests, routed>>

\* A GETLOG as the asked client receives it.  reqId is what the service
\* wrote into the message; by and asked are kept for the properties only.
Request == [to : Conn, reqId : Nat, by : Conn, asked : Nat]

\* What the last cross-connection command did: which connection it came
\* from, which id it named and which connection it reached.
Route == [kind : {"GETLOG", "VPN_LOG", "CLOSE"}, by : Conn, asked : Nat, to : Conn]
NoRoute == [kind |-> "none"]

TypeOK ==
    /\ connectionList \in Seq(Conn)
    /\ internalId \in 0 .. MaxConnections
    /\ id \in [Conn -> Conn]
    /\ phase \in [Conn -> Phases]
    /\ checked \in [Conn -> Checks \cup {None}]
    /\ stopTimers \in Nat
    /\ running \in BOOLEAN
    /\ requests \in SUBSET Request
    /\ routed \in Route \cup {NoRoute}

Init ==
    /\ connectionList = << >>
    /\ internalId = 0
    /\ id = [c \in Conn |-> 0]
    /\ phase = [c \in Conn |-> "unborn"]
    /\ checked = [c \in Conn |-> None]
    /\ stopTimers = 0
    /\ running = TRUE
    /\ requests = {}
    /\ routed = NoRoute

-----------------------------------------------------------------------------
\* SslConnections

count == Len(connectionList)

\* element(index): by position, or no connection at all.
HasElement(index) == index < count
element(index) == connectionList[index + 1]

\* The list without its i-th entry.
Without(s, i) == [j \in 1 .. Len(s) - 1 |-> IF j < i THEN s[j] ELSE s[j + 1]]

\* Fault: a new connection is put at the front of the list.
prepend(c) == connectionList' = <<c>> \o connectionList

\* add() appends.
add(c) == connectionList' = Append(connectionList, c)

\* Fault: remove() taken by position instead of by threadId.
removeByIndex(c) ==
    connectionList' = IF c < count THEN Without(connectionList, c + 1) ELSE connectionList

\* remove(threadId): drops the first entry with that threadId.
remove(c) ==
    IF \E i \in 1 .. count : connectionList[i] = c
    THEN \E i \in 1 .. count :
            /\ connectionList[i] = c
            /\ \A j \in 1 .. i - 1 : connectionList[j] # c
            /\ connectionList' = Without(connectionList, i)
    ELSE UNCHANGED connectionList

-----------------------------------------------------------------------------
\* SslServer

\* Fault: the service's own end of the connection is looked for.
findsOwnEnd(check) ==
    {r.pid : r \in {q \in check.table : q.established /\ q.local = "service" /\ q.remote = "client"}}

\* The owner of the end that is local to the client and remote to the service;
\* there is at most one.
findClientProcessId(check) ==
    {r.pid : r \in {q \in check.table : q.established /\ q.local = "client" /\ q.remote = "service"}}

processImagePath(check, pid) == pid \in check.readable
verifyAuthenticodeSignature(check, file) == file \in check.trusted
signerCertificateDer(check, file) == check.signer[file]

\* Any step that fails is a no.
clientUsesSameCodeSigningCertificate(check) ==
    \E pid \in findClientProcessId(check) :
       /\ processImagePath(check, pid)
       /\ verifyAuthenticodeSignature(check, "service")
       /\ verifyAuthenticodeSignature(check, pid)
       /\ signerCertificateDer(check, "service") # None
       /\ signerCertificateDer(check, pid) # None
       /\ signerCertificateDer(check, "service") = signerCertificateDer(check, pid)

\* incomingConnection: a connection that passed the signature check gets the
\* next threadId, is appended, and is given its index as its id.
incomingConnection(check) ==
    /\ running
    /\ internalId < MaxConnections
    /\ clientUsesSameCodeSigningCertificate(check)
    /\ add(internalId)
    /\ id' = [id EXCEPT ![internalId] = count]
    /\ phase' = [phase EXCEPT ![internalId] = "open"]
    /\ checked' = [checked EXCEPT ![internalId] = check]
    /\ internalId' = internalId + 1
    /\ UNCHANGED <<stopTimers, running, requests, routed>>

\* logRejectedClient: the socket is closed, no object is made.
logRejectedClient(check) ==
    /\ running
    /\ internalId < MaxConnections
    /\ ~clientUsesSameCodeSigningCertificate(check)
    /\ UNCHANGED vars

\* slotConnectionClosed and slotQuitThread: the socket went down, the
\* connection's event loop is left and waited for.  finished() is queued.
slotQuitThread(c) ==
    /\ running
    /\ phase[c] = "open"
    /\ phase' = [phase EXCEPT ![c] = "finished"]
    /\ UNCHANGED <<connectionList, internalId, id, checked, stopTimers, running, requests, routed>>

\* Fault: the emptiness test is made before the connection is removed.
countBeforeRemove(c) ==
    /\ running
    /\ phase[c] = "finished"
    /\ remove(c)
    /\ phase' = [phase EXCEPT ![c] = "gone"]
    /\ stopTimers' = IF Portable /\ count = 0 THEN stopTimers + 1 ELSE stopTimers
    /\ requests' = {r \in requests : r.to # c}
    /\ UNCHANGED <<internalId, id, checked, running, routed>>

\* slotThreadFinished: the queued finished() arrives.  The last client of a
\* portable service arms a timer that nothing ever stops.
slotThreadFinished(c) ==
    /\ running
    /\ phase[c] = "finished"
    /\ remove(c)
    /\ phase' = [phase EXCEPT ![c] = "gone"]
    /\ stopTimers' = IF Portable /\ Len(connectionList') = 0
                     THEN stopTimers + 1 ELSE stopTimers
    /\ requests' = {r \in requests : r.to # c}
    /\ UNCHANGED <<internalId, id, checked, running, routed>>

\* OnStopService: 300 ms later.
OnStopService ==
    /\ running
    /\ stopTimers > 0
    /\ stopTimers' = stopTimers - 1
    /\ running' = FALSE
    /\ UNCHANGED <<connectionList, internalId, id, phase, checked, requests, routed>>

-----------------------------------------------------------------------------
\* Commands of one connection that reach another.  A connection is a member
\* of the list until slotThreadFinished, also when its socket is down.

Sender(c) == running /\ phase[c] = "open"

\* Fault: the answer is addressed to the client that was asked for.
asksForItself(c, clientId) ==
    /\ Sender(c)
    /\ Cardinality(requests) < MaxRequests
    /\ HasElement(clientId)
    /\ requests' = requests \cup
          {[to |-> element(clientId), reqId |-> clientId, by |-> c, asked |-> clientId]}
    /\ routed' = [kind |-> "GETLOG", by |-> c, asked |-> clientId, to |-> element(clientId)]
    /\ UNCHANGED <<connectionList, internalId, id, phase, checked, stopTimers, running>>

\* GETLOG "clientId;configId" is forwarded to the client at that POSITION,
\* with the asking connection's own id for the answer.  An index beyond the
\* list answers ERROR to the sender, which changes nothing here.
GETLOG(c, clientId) ==
    /\ Sender(c)
    /\ Cardinality(requests) < MaxRequests
    /\ HasElement(clientId)
    /\ requests' = requests \cup
          {[to |-> element(clientId), reqId |-> id[c], by |-> c, asked |-> clientId]}
    /\ routed' = [kind |-> "GETLOG", by |-> c, asked |-> clientId, to |-> element(clientId)]
    /\ UNCHANGED <<connectionList, internalId, id, phase, checked, stopTimers, running>>

\* GETLOG_RESP: the asked client returns the reqId it was given, and the
\* answer goes to the client at that position.
GETLOG_RESP(r) ==
    /\ Sender(r.to)
    /\ requests' = requests \ {r}
    /\ routed' = IF HasElement(r.reqId)
                 THEN [kind |-> "VPN_LOG", by |-> r.by, asked |-> r.reqId, to |-> element(r.reqId)]
                 ELSE routed
    /\ UNCHANGED <<connectionList, internalId, id, phase, checked, stopTimers, running>>

\* GET_ERROR and GET_ERROR_RESP find their connections in the same way.
GET_ERROR(c, clientId) == GETLOG(c, clientId)
GET_ERROR_RESP(r) == GETLOG_RESP(r)

\* CLOSE "clientId;connectionId": the first OTHER connection whose id is
\* clientId.
CLOSE(c, clientId) ==
    /\ Sender(c)
    /\ \E i \in 1 .. count :
          LET con == connectionList[i] IN
          /\ con # c
          /\ id[con] = clientId
          /\ \A j \in 1 .. i - 1 : connectionList[j] = c \/ id[connectionList[j]] # clientId
          /\ routed' = [kind |-> "CLOSE", by |-> c, asked |-> clientId, to |-> con]
    /\ UNCHANGED <<connectionList, internalId, id, phase, checked, stopTimers, running, requests>>

Next ==
    \/ \E check \in Checks : incomingConnection(check) \/ logRejectedClient(check)
    \/ \E c \in Conn :
          \/ slotQuitThread(c)
          \/ slotThreadFinished(c)
          \/ \E clientId \in 0 .. MaxConnections - 1 :
                GETLOG(c, clientId) \/ GET_ERROR(c, clientId) \/ CLOSE(c, clientId)
    \/ \E r \in requests : GETLOG_RESP(r) \/ GET_ERROR_RESP(r)
    \/ OnStopService

\* Queued signals and expired timers are delivered by the event loop.
Fairness ==
    /\ \A c \in Conn : WF_vars(slotThreadFinished(c))
    /\ WF_vars(OnStopService)

Spec == Init /\ [][Next]_vars /\ Fairness

-----------------------------------------------------------------------------
\* Properties

\* The list holds exactly the connections that were accepted and have not
\* been cleaned up, in the order they were accepted: remove() by threadId can
\* only ever hit the connection whose thread ended.
ListedIsLive ==
    /\ \A i, j \in 1 .. count : i < j => connectionList[i] < connectionList[j]
    /\ \A c \in Conn :
          phase[c] \in {"open", "finished"} <=> \E i \in 1 .. count : connectionList[i] = c

\* Ids are indices at accept time and are never renewed, but they go wrong in
\* one direction only: resolving a connection's id by position finds that
\* connection or one accepted after it, never an older client.
DriftsForward ==
    \A i \in 1 .. count :
       LET c == connectionList[i] IN
       HasElement(id[c]) => element(id[c]) >= c

\* As long as every connection that ended was younger than c, c's id is its
\* position, so GETLOG finds it.
ExactWhileOldersStay ==
    \A c \in Conn :
       /\ phase[c] \in {"open", "finished"}
       /\ \A d \in Conn : d < c => phase[d] \in {"open", "finished"}
       => HasElement(id[c]) /\ element(id[c]) = c

\* So an id that is looked up by position is right until an older client
\* leaves, and from then on points to younger clients only.
IdsHold == DriftsForward /\ ExactWhileOldersStay

\* Every client that was ever accepted runs a program with a valid signature
\* by the certificate of the service, although both ends of a connection are
\* in the table and both programs are looked at.
AcceptedIsSigned ==
    \A c \in Conn :
       phase[c] # "unborn" =>
          /\ "client" \in checked[c].trusted
          /\ checked[c].signer["client"] = checked[c].signer["service"]

\* A portable service does not outlive its clients: when all of them are
\* gone it leaves its event loop.
PortableStops ==
    (Portable /\ \A c \in Conn : phase[c] = "gone") ~> ~running

\* An answer to GETLOG goes to the position that its asker once had.  Clients
\* leave and come while the question and the answer are on their way, so that
\* it may reach another client, but never one accepted before the asker.
AnswersDriftForward == routed.kind = "VPN_LOG" => routed.to >= routed.by
=============================================================================
