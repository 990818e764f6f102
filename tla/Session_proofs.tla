--------------------------- MODULE Session_proofs ---------------------------
(***************************************************************************)
(* The service's VPNs, and the client's entry on top of them, for every    *)
(* set of chunks, every outcome, every number of connections, ids and      *)
(* objects, and queues of every length.  The first half is about           *)
(* VpnService alone; the second half, GreenIsConnected, uses it as it is.  *)
(***************************************************************************)
EXTENDS Session, TLAPS

-----------------------------------------------------------------------------
\* The methods of one object.

\* What a listed object satisfies on its own: LiveBehindStatus, for one record.
Good(r) == r.connectionStable \/ r.connecting => r.proc # "none"

\* The test of an if / else-if chain yields one of its phrases.
LEMMA FirstOfPrompts ==
    ASSUME NEW chunk
    PROVE  FirstOf(PromptOrder, chunk) \in DOMAIN PromptType \cup {"none"}
  <1> DEFINE hits == {i \in DOMAIN PromptOrder : PromptOrder[i] \in chunk}
  <1>1. DOMAIN PromptOrder = 1 .. 8
    BY DEF PromptOrder
  <1>2. ASSUME hits # {}
        PROVE  \E i \in hits : \A j \in hits : i <= j
    <2> DEFINE First(k) == k \in hits /\ \A j \in hits : k <= j
    <2>1. \A j \in hits : j \in 1 .. 8
      BY <1>1
    <2> HIDE DEF hits
    <2>2. 1 \in hits \/ 2 \in hits \/ 3 \in hits \/ 4 \in hits
            \/ 5 \in hits \/ 6 \in hits \/ 7 \in hits \/ 8 \in hits
      BY <1>2, <2>1
    <2>3. First(1) \/ First(2) \/ First(3) \/ First(4)
            \/ First(5) \/ First(6) \/ First(7) \/ First(8)
      BY <2>1, <2>2
    <2> QED
      BY <2>3
  <1>3. \A i \in 1 .. 8 : PromptOrder[i] \in DOMAIN PromptType
    BY DEF PromptOrder, PromptType
  <1> DEFINE first == CHOOSE i \in hits : \A j \in hits : i <= j
  <1>4. hits # {} => first \in hits
    BY <1>2
  <1>5. hits # {} => first \in 1 .. 8
    BY <1>1, <1>4
  <1>6. FirstOf(PromptOrder, chunk) = IF hits = {} THEN "none" ELSE PromptOrder[first]
    BY DEF FirstOf
  <1> HIDE DEF hits, first
  <1> QED
    BY <1>3, <1>5, <1>6

\* The last action is -1 or the type of a prompt.
LEMMA LastActionType ==
    ASSUME NEW o \in OpenVpnObject, NEW chunk
    PROVE  LastActionAfter(o, chunk) \in Actions
  <1>1. \A p \in DOMAIN PromptType : PromptType[p] \in Actions
    BY DEF PromptType, Actions
  <1>2. o.lastAction \in Actions /\ -1 \in Actions
    BY DEF OpenVpnObject, Actions
  <1>3. FirstOf(PromptOrder, chunk) \in DOMAIN PromptType \cup {"none"}
    BY FirstOfPrompts
  <1> QED
    BY <1>1, <1>2, <1>3 DEF LastActionAfter

\* The constructor and connectToVpn.
LEMMA ConnectGood ==
    ASSUME NEW outcome \in ConnectOutcomes, NEW n \in Nat
    PROVE  /\ NewOpenVpn \in OpenVpnObject
           /\ connectToVpn(NewOpenVpn, outcome, n) \in OpenVpnObject
           /\ ~connectToVpnRemoves(outcome) => Good(connectToVpn(NewOpenVpn, outcome, n))
  <1>1. -1 \in Actions
    BY DEF Actions
  <1>2. NewOpenVpn \in OpenVpnObject
    BY <1>1 DEF NewOpenVpn, OpenVpnObject, Procs
  <1> DEFINE hosts == NewOpenVpn.retryMultiHostCount + n
  <1>h. hosts \in Nat
    BY DEF NewOpenVpn
  <1>3. CASE outcome = "noConfig"
    <2>1. connectToVpn(NewOpenVpn, outcome, n) =
            [NewOpenVpn EXCEPT !.lastAction = -1, !.connecting = FALSE, !.connectionStable = FALSE]
      BY <1>3 DEF connectToVpn
    <2> QED
      BY <1>1, <1>2, <2>1 DEF NewOpenVpn, OpenVpnObject, Procs, Good
  <1>4. CASE outcome = "noExe"
    <2>1. connectToVpn(NewOpenVpn, outcome, n) =
            [NewOpenVpn EXCEPT !.connecting = TRUE, !.lastAction = -1,
                               !.retryMultiHostCount = hosts, !.wired = TRUE]
      BY <1>4 DEF connectToVpn
    <2> HIDE DEF hosts
    <2> QED
      BY <1>1, <1>2, <1>4, <1>h, <2>1 DEF OpenVpnObject, connectToVpnRemoves
  <1>5. CASE outcome = "failed"
    <2>1. connectToVpn(NewOpenVpn, outcome, n) =
            [NewOpenVpn EXCEPT !.connecting = TRUE, !.lastAction = -1, !.connectionStable = FALSE,
                               !.retryMultiHostCount = hosts, !.wired = TRUE]
      BY <1>5 DEF connectToVpn
    <2> HIDE DEF hosts
    <2> QED
      BY <1>1, <1>2, <1>5, <1>h, <2>1 DEF OpenVpnObject, connectToVpnRemoves
  <1>6. CASE outcome = "started"
    <2>1. connectToVpn(NewOpenVpn, outcome, n) =
            [NewOpenVpn EXCEPT !.connecting = TRUE, !.lastAction = -1,
                               !.retryMultiHostCount = hosts, !.wired = TRUE, !.proc = "starting"]
      BY <1>6 DEF connectToVpn
    <2> HIDE DEF hosts
    <2>2. connectToVpn(NewOpenVpn, outcome, n) \in OpenVpnObject
      BY <1>1, <1>2, <1>h, <2>1 DEF OpenVpnObject, Procs
    <2>3. Good(connectToVpn(NewOpenVpn, outcome, n))
      BY <1>2, <2>1 DEF OpenVpnObject, Good
    <2> QED
      BY <1>2, <2>2, <2>3
  <1> HIDE DEF hosts
  <1> QED
    BY <1>2, <1>3, <1>4, <1>5, <1>6 DEF ConnectOutcomes

\* disconnectVpn.
LEMMA DisconnectGood ==
    ASSUME NEW r \in OpenVpnObject, NEW ok \in BOOLEAN
    PROVE  /\ disconnectVpn(r, ok) \in OpenVpnObject
           /\ Good(disconnectVpn(r, ok))
           /\ ok => disconnectVpn(r, ok).proc = "none"
  BY DEF disconnectVpn, OpenVpnObject, Procs, Good

\* processFinished.
LEMMA FinishedGood ==
    ASSUME NEW r \in OpenVpnObject
    PROVE  /\ processFinished(r) \in OpenVpnObject
           /\ processFinished(r).proc = "none"
  <1>1. -1 \in Actions
    BY DEF Actions
  <1> QED
    BY <1>1 DEF processFinished, OpenVpnObject, Procs

\* The answers.
LEMMA AnswerGood ==
    ASSUME NEW r \in OpenVpnObject, NEW type
    PROVE  /\ answer(r, type) \in OpenVpnObject
           /\ Good(r) => Good(answer(r, type))
  <1>1. -1 \in Actions
    BY DEF Actions
  <1>2. (r.challangeUserName \/ type \in {0, 5}) \in BOOLEAN
    OBVIOUS
  <1>3. CASE Writable(r)
    BY <1>1, <1>2, <1>3 DEF answer, OpenVpnObject, Good
  <1>4. CASE ~Writable(r)
    BY <1>4 DEF answer
  <1> QED
    BY <1>3, <1>4

\* readProcessData of an object that listens to a process it has.
LEMMA ReadGood ==
    ASSUME NEW r \in OpenVpnObject, NEW chunk, NEW ok \in BOOLEAN,
           r.proc # "none", r.wired
    PROVE  /\ readProcessData(r, chunk, ok) \in OpenVpnObject
           /\ ~(GivesUp(r, chunk) /\ ok) => Good(readProcessData(r, chunk, ok))
           /\ GivesUp(r, chunk) /\ ok => readProcessData(r, chunk, ok).proc = "none"
  <1> DEFINE read == [r EXCEPT
          !.lastAction = LastActionAfter(r, chunk),
          !.retryMultiHostCount = IF UsesHost(r, chunk) THEN @ - 1 ELSE @,
          !.connectionIsAOtpConnection = @ \/ OtpPhrase(chunk),
          !.connectionStable = IF ErrorOccurred(chunk) \/ Kills(r, chunk) THEN FALSE
                               ELSE @ \/ "TapNotified" \in chunk,
          !.onDisconnect = @ \/ Kills(r, chunk),
          !.proc = IF Kills(r, chunk) THEN "crashed" ELSE @]
        left == IF GivesUp(r, chunk) THEN disconnectVpn(read, ok) ELSE read
  <1>1. LastActionAfter(r, chunk) \in Actions
    BY LastActionType
  <1>2. (IF UsesHost(r, chunk) THEN r.retryMultiHostCount - 1 ELSE r.retryMultiHostCount) \in Nat
    BY DEF UsesHost, OpenVpnObject
  <1>3. read \in OpenVpnObject
    BY <1>1, <1>2 DEF OpenVpnObject, Procs
  <1>4. read.proc # "none" /\ read.wired
    BY DEF OpenVpnObject
  <1> HIDE DEF read
  <1>5. left \in OpenVpnObject
    BY <1>3, DisconnectGood
  <1>6. GivesUp(r, chunk) /\ ok => left.proc = "none"
    BY <1>3, DisconnectGood
  <1>7. ~(GivesUp(r, chunk) /\ ok) => left.proc # "none" /\ (left.wired \/ left.onDisconnect)
    <2>1. CASE GivesUp(r, chunk) /\ ~ok
      BY <1>3, <1>4, <2>1 DEF disconnectVpn, OpenVpnObject
    <2>2. CASE ~GivesUp(r, chunk)
      BY <1>4, <2>2
    <2> QED
      BY <2>1, <2>2
  <1>8. readProcessData(r, chunk, ok) =
          IF "InitCompleted" \in chunk
          THEN [left EXCEPT !.connectionStable = TRUE, !.connecting = FALSE] ELSE left
    BY DEF readProcessData, read
  <1> HIDE DEF left
  <1>9. readProcessData(r, chunk, ok) \in OpenVpnObject
    BY <1>5, <1>8 DEF OpenVpnObject
  <1>10. /\ readProcessData(r, chunk, ok).proc = left.proc
         /\ readProcessData(r, chunk, ok).wired = left.wired
         /\ readProcessData(r, chunk, ok).onDisconnect = left.onDisconnect
    BY <1>5, <1>8 DEF OpenVpnObject
  <1> QED
    BY <1>6, <1>7, <1>9, <1>10 DEF Good

\* The message of an openvpn that does not find its config is an error that
\* does not make the object give up.
LEMMA FatalIsNotGivingUp ==
    ASSUME NEW r
    PROVE  ~GivesUp(r, {"Fatal"})
  <1> DEFINE hits == {i \in DOMAIN ErrorOrder : ErrorOrder[i] \in {"Fatal"}}
  <1>1. hits = {6}
    BY DEF ErrorOrder
  <1>2. (CHOOSE i \in hits : \A j \in hits : i <= j) = 6
    BY <1>1
  <1>3. ErrorKind({"Fatal"}) = ErrorOrder[6]
    BY <1>1, <1>2 DEF ErrorKind, FirstOf
  <1>4. ErrorOrder[6] = "Fatal"
    BY DEF ErrorOrder
  <1> QED
    BY <1>3, <1>4 DEF GivesUp

-----------------------------------------------------------------------------
\* The inductive invariant.  OneListedPerId is needed for NoStrayRemoval, as
\* removeItemFromList goes by id; Good needs the object of every method call
\* to be a record of the right shape.

Shape ==
    /\ conn \in [Conns -> {"new", "up", "closed", "gone"}]
    /\ vpn \in [Objs -> OpenVpnObject]
    /\ place \in [Objs -> {"free", "listed", "doomed"}]
    /\ owner \in [Objs -> Conns]
    /\ ident \in [Objs -> Ids]

ListedGood == \A o \in Objs : place[o] = "listed" => Good(vpn[o])

IInv == Shape /\ OneListedPerId /\ ListedGood

\* What NoStrayRemoval says of one step.
StrayFree ==
    \A o \in Objs :
        place[o] = "listed" /\ place'[o] = "doomed" /\ Busy(o) /\ conn[owner[o]] = "up"
            => vpn'[o].proc = "none"

LEMMA AnyMembers == AnyConn \in Conns /\ AnyId \in Ids
  BY ServiceAssumption DEF AnyConn, AnyId

LEMMA InitIInv == Init => IInv
  <1> SUFFICES ASSUME Init PROVE IInv
    OBVIOUS
  <1>1. NewOpenVpn \in OpenVpnObject
    <2>1. "started" \in ConnectOutcomes /\ 0 \in Nat
      BY DEF ConnectOutcomes
    <2> QED
      BY <2>1, ConnectGood
  <1>2. Shape
    BY <1>1, AnyMembers DEF Init, Shape
  <1>3. \A o \in Objs : place[o] # "listed"
    BY DEF Init
  <1> QED
    BY <1>2, <1>3 DEF IInv, OneListedPerId, ListedGood

\* A step that lists nothing new keeps the invariant if what stays listed
\* stays itself and stays good.
LEMMA Shrink ==
    ASSUME IInv, Shape',
           \A o \in Objs : place'[o] = "listed"
                => /\ place[o] = "listed" /\ owner'[o] = owner[o] /\ ident'[o] = ident[o]
                   /\ Good(vpn'[o])
    PROVE  IInv'
  <1>1. OneListedPerId'
    BY DEF IInv, OneListedPerId
  <1>2. ListedGood'
    BY DEF ListedGood
  <1> QED
    BY <1>1, <1>2 DEF IInv

\* removeItemFromList.
LEMMA RemoveEffect ==
    ASSUME IInv, NEW c, NEW i
    PROVE  /\ removeItemFromList(c, i) \in [Objs -> {"free", "listed", "doomed"}]
           /\ \A o \in Objs : removeItemFromList(c, i)[o] = "listed" => place[o] = "listed"
           /\ \A o \in Objs : place[o] = "listed" /\ removeItemFromList(c, i)[o] = "doomed"
                                => o \in Items(c, i)
           /\ \A o \in Items(c, i) : removeItemFromList(c, i)[o] = "doomed"
           /\ \A o \in Objs : place[o] # "listed" => removeItemFromList(c, i)[o] = place[o]
  BY DEF IInv, Shape, removeItemFromList, Items

\* With one object per id, it takes away the object whose id it is given.
LEMMA RemovesItself ==
    ASSUME IInv, NEW o \in Objs, NEW p \in Objs, place[o] = "listed",
           p \in Items(owner[o], ident[o])
    PROVE  p = o
  BY DEF IInv, OneListedPerId, Items

LEMMA OpenAgainStep ==
    ASSUME IInv, NEW c \in Conns, NEW i \in Ids, OpenAgain(c, i)
    PROVE  IInv' /\ StrayFree
  <1>1. UNCHANGED <<conn, vpn, place, owner, ident>>
    BY DEF OpenAgain
  <1> QED
    BY <1>1 DEF IInv, Shape, OneListedPerId, ListedGood, StrayFree

LEMMA StatusStep ==
    ASSUME IInv, NEW c \in Conns, NEW i \in Ids, STATUS(c, i)
    PROVE  IInv' /\ StrayFree
  <1>1. UNCHANGED <<conn, vpn, place, owner, ident>>
    BY DEF STATUS
  <1> QED
    BY <1>1 DEF IInv, Shape, OneListedPerId, ListedGood, StrayFree

LEMMA OpenRejectedStep ==
    ASSUME IInv, NEW c \in Conns, NEW i \in Ids, OpenRejected(c, i)
    PROVE  IInv' /\ StrayFree
  <1>1. place' = removeItemFromList(c, i) /\ UNCHANGED <<conn, vpn, owner, ident>>
    BY DEF OpenRejected
  <1>2. Shape'
    BY <1>1, RemoveEffect DEF IInv, Shape
  <1>3. IInv'
    BY <1>1, <1>2, RemoveEffect, Shrink DEF IInv, ListedGood
  <1>4. StrayFree
    BY <1>1, RemoveEffect DEF StrayFree, OpenRejected
  <1> QED
    BY <1>3, <1>4

LEMMA AnswerStep ==
    ASSUME IInv, NEW c \in Conns, NEW i \in Ids, NEW type, Answer(c, i, type)
    PROVE  IInv' /\ StrayFree
  <1>1. PICK o \in Items(c, i) : vpn' = [vpn EXCEPT ![o] = answer(@, type)]
    BY DEF Answer
  <1>2. o \in Objs /\ place[o] = "listed"
    BY DEF Items
  <1>3. UNCHANGED <<conn, place, owner, ident>>
    BY DEF Answer
  <1>4. vpn[o] \in OpenVpnObject /\ Good(vpn[o])
    BY <1>2 DEF IInv, Shape, ListedGood
  <1>5. answer(vpn[o], type) \in OpenVpnObject /\ Good(answer(vpn[o], type))
    BY <1>4, AnswerGood
  <1>6. Shape'
    BY <1>1, <1>2, <1>3, <1>5 DEF IInv, Shape
  <1>7. \A p \in Objs : place[p] = "listed" => Good(vpn'[p])
    BY <1>1, <1>2, <1>5 DEF IInv, Shape, ListedGood
  <1>8. IInv'
    BY <1>3, <1>6, <1>7, Shrink
  <1> QED
    BY <1>3, <1>8 DEF StrayFree, IInv, Shape

LEMMA OpenNewStep ==
    ASSUME IInv, NEW c \in Conns, NEW i \in Ids, NEW outcome \in ConnectOutcomes, NEW n \in Nat,
           OpenNew(c, i, outcome, n)
    PROVE  IInv' /\ StrayFree
  <1> DEFINE new == connectToVpn(NewOpenVpn, outcome, n)
             where == IF connectToVpnRemoves(outcome) THEN "doomed" ELSE "listed"
  <1>1. PICK o \in Objs :
          /\ place[o] = "free"
          /\ place' = [removeItemFromList(c, i) EXCEPT ![o] = where]
          /\ vpn' = [vpn EXCEPT ![o] = new]
          /\ owner' = [owner EXCEPT ![o] = c]
          /\ ident' = [ident EXCEPT ![o] = i]
    BY DEF OpenNew
  <1>2. conn' = conn
    BY DEF OpenNew
  <1>3. new \in OpenVpnObject /\ (where = "listed" => Good(new))
    BY ConnectGood
  <1>4. where \in {"doomed", "listed"}
    OBVIOUS
  <1> HIDE DEF new, where
  <1>5. Shape'
    BY <1>1, <1>2, <1>3, <1>4, RemoveEffect DEF IInv, Shape
  <1>6. \A p \in Objs : p # o => /\ vpn'[p] = vpn[p] /\ owner'[p] = owner[p] /\ ident'[p] = ident[p]
                                 /\ place'[p] = removeItemFromList(c, i)[p]
    BY <1>1, RemoveEffect DEF IInv, Shape
  <1>7. vpn'[o] = new /\ owner'[o] = c /\ ident'[o] = i /\ place'[o] = where
    BY <1>1, RemoveEffect DEF IInv, Shape
  <1>8. \A p \in Objs : p # o /\ place'[p] = "listed"
                          => place[p] = "listed" /\ ~(owner[p] = c /\ ident[p] = i)
    <2> TAKE p \in Objs
    <2> HAVE p # o /\ place'[p] = "listed"
    <2>1. place[p] = "listed"
      BY <1>6, RemoveEffect
    <2>2. p \notin Items(c, i)
      BY <1>6, RemoveEffect
    <2> QED
      BY <2>1, <2>2 DEF Items
  <1>9. OneListedPerId'
    BY <1>6, <1>7, <1>8 DEF IInv, OneListedPerId
  <1>10. ListedGood'
    BY <1>3, <1>6, <1>7, <1>8 DEF IInv, ListedGood
  <1>11. StrayFree
    BY <1>1, <1>6, RemoveEffect DEF StrayFree, OpenNew
  <1> QED
    BY <1>5, <1>9, <1>10, <1>11 DEF IInv

\* disconnectVpn of any listed objects: nothing else changes.
LEMMA DisconnectAllEffect ==
    ASSUME IInv, NEW done \in SUBSET Objs, NEW failed \in SUBSET Objs,
           DisconnectAll(done, failed)
    PROVE  /\ vpn' \in [Objs -> OpenVpnObject]
           /\ UNCHANGED <<owner, ident>>
           /\ \A o \in Objs : Good(vpn[o]) => Good(vpn'[o])
           /\ \A o \in done : vpn'[o].proc = "none"
  <1>1. vpn' = [o \in Objs |-> IF o \in done \cup failed
                              THEN disconnectVpn(vpn[o], o \in done) ELSE vpn[o]]
    BY DEF DisconnectAll
  <1>2. \A o \in Objs : vpn[o] \in OpenVpnObject /\ (o \in done) \in BOOLEAN
    BY DEF IInv, Shape
  <1>3. \A o \in Objs : /\ disconnectVpn(vpn[o], o \in done) \in OpenVpnObject
                        /\ Good(disconnectVpn(vpn[o], o \in done))
                        /\ o \in done => disconnectVpn(vpn[o], o \in done).proc = "none"
    BY <1>2, DisconnectGood
  <1>4. vpn' \in [Objs -> OpenVpnObject]
    BY <1>1, <1>2, <1>3
  <1>5. UNCHANGED <<owner, ident>>
    BY DEF DisconnectAll
  <1>6. \A o \in Objs : Good(vpn[o]) => Good(vpn'[o])
    BY <1>1, <1>3
  <1>7. \A o \in done : vpn'[o].proc = "none"
    BY <1>1, <1>3
  <1> QED
    BY <1>4, <1>5, <1>6, <1>7

LEMMA DisconnectStep ==
    ASSUME IInv, NEW o \in Objs, place[o] = "listed", NEW ok \in BOOLEAN, Disconnect(o, ok)
    PROVE  IInv' /\ StrayFree
  <1> DEFINE done == IF ok THEN {o} ELSE {}
             failed == IF ok THEN {} ELSE {o}
  <1>1. done \in SUBSET Objs /\ failed \in SUBSET Objs
    OBVIOUS
  <1>2. DisconnectAll(done, failed)
    BY DEF Disconnect
  <1>3. place' = IF ok THEN removeItemFromList(owner[o], ident[o]) ELSE place
    BY DEF Disconnect
  <1>4. conn' = conn
    BY DEF Disconnect
  <1>5. ok => o \in done
    OBVIOUS
  <1> HIDE DEF done, failed
  <1>6. /\ vpn' \in [Objs -> OpenVpnObject]
        /\ UNCHANGED <<owner, ident>>
        /\ \A p \in Objs : Good(vpn[p]) => Good(vpn'[p])
        /\ ok => vpn'[o].proc = "none"
    BY <1>1, <1>2, <1>5, DisconnectAllEffect
  <1>7. place' \in [Objs -> {"free", "listed", "doomed"}]
    BY <1>3, RemoveEffect DEF IInv, Shape
  <1>8. \A p \in Objs : place'[p] = "listed" => place[p] = "listed"
    BY <1>3, RemoveEffect
  <1>9. Shape'
    BY <1>4, <1>6, <1>7 DEF IInv, Shape
  <1>10. IInv'
    BY <1>6, <1>8, <1>9, Shrink DEF IInv, ListedGood
  <1>11. ASSUME NEW p \in Objs, place[p] = "listed", place'[p] = "doomed"
         PROVE  vpn'[p].proc = "none"
    <2>1. ok
      BY <1>3, <1>11
    <2>2. p = o
      BY <1>3, <1>11, <2>1, RemoveEffect, RemovesItself
    <2> QED
      BY <1>6, <2>1, <2>2
  <1> QED
    BY <1>10, <1>11 DEF StrayFree

LEMMA CloseStep ==
    ASSUME IInv, NEW c \in Conns, NEW d \in Conns, NEW i \in Ids,
           CLOSE(c, i) \/ CliCLOSE(c, d, i)
    PROVE  IInv' /\ StrayFree
  <1>1. PICK o \in Objs, ok \in EventResults : place[o] = "listed" /\ Disconnect(o, ok)
    BY DEF CLOSE, CliCLOSE, Items
  <1>2. ok \in BOOLEAN
    BY ServiceAssumption
  <1> QED
    BY <1>1, <1>2, DisconnectStep

\* A step that changes the record of one object and takes nothing off the list.
LEMMA OneObjectStep ==
    ASSUME IInv, NEW o \in Objs, NEW r \in OpenVpnObject, vpn' = [vpn EXCEPT ![o] = r],
           UNCHANGED <<conn, place, owner, ident>>, place[o] = "listed" => Good(r)
    PROVE  IInv' /\ StrayFree
  <1>1. Shape'
    BY DEF IInv, Shape
  <1>2. \A p \in Objs : place[p] = "listed" => Good(vpn'[p])
    BY DEF IInv, Shape, ListedGood
  <1>3. IInv'
    BY <1>1, <1>2, Shrink
  <1> QED
    BY <1>3 DEF StrayFree, IInv, Shape

LEMMA ReadsConfigStep ==
    ASSUME IInv, NEW o \in Objs, ReadsConfig(o)
    PROVE  IInv' /\ StrayFree
  <1> DEFINE r == [vpn[o] EXCEPT !.proc = "running"]
  <1>1. vpn[o] \in OpenVpnObject /\ vpn[o].proc = "starting"
    BY DEF IInv, Shape, ReadsConfig
  <1>2. r \in OpenVpnObject /\ (Good(vpn[o]) => Good(r))
    BY <1>1 DEF OpenVpnObject, Procs, Good
  <1>3. vpn' = [vpn EXCEPT ![o] = r] /\ UNCHANGED <<conn, place, owner, ident>>
    BY DEF ReadsConfig
  <1>4. place[o] = "listed" => Good(r)
    BY <1>2 DEF IInv, ListedGood
  <1> HIDE DEF r
  <1> QED
    BY <1>2, <1>3, <1>4, OneObjectStep

LEMMA ProcExitStep ==
    ASSUME IInv, NEW o \in Objs, NEW how, ProcExit(o, how)
    PROVE  IInv' /\ StrayFree
  <1> DEFINE r == [vpn[o] EXCEPT !.proc = how]
  <1>1. vpn[o] \in OpenVpnObject /\ vpn[o].proc # "none"
    BY DEF IInv, Shape, ProcExit, Alive
  <1>2. how \in {"exited", "crashed"}
    BY DEF ProcExit
  <1>3. r \in OpenVpnObject /\ (Good(vpn[o]) => Good(r))
    BY <1>1, <1>2 DEF OpenVpnObject, Procs, Good
  <1>4. vpn' = [vpn EXCEPT ![o] = r] /\ UNCHANGED <<conn, place, owner, ident>>
    BY DEF ProcExit
  <1>5. place[o] = "listed" => Good(r)
    BY <1>3 DEF IInv, ListedGood
  <1> HIDE DEF r
  <1> QED
    BY <1>3, <1>4, <1>5, OneObjectStep

LEMMA ConfigMissingStep ==
    ASSUME IInv, NEW o \in Objs, ConfigMissing(o)
    PROVE  IInv' /\ StrayFree
  <1> DEFINE ended == [vpn[o] EXCEPT !.proc = "exited"]
             read == readProcessData(ended, {"Fatal"}, TRUE)
  <1>1. vpn[o] \in OpenVpnObject /\ vpn[o].proc = "starting"
    BY DEF IInv, Shape, ConfigMissing
  <1>2. /\ ended \in OpenVpnObject /\ ended.proc # "none" /\ ended.wired = vpn[o].wired
        /\ Good(vpn[o]) => Good(ended)
    BY <1>1 DEF OpenVpnObject, Procs, Good
  <1>3. UNCHANGED <<conn, place, owner, ident>>
    BY DEF ConfigMissing
  <1>4. \/ Listens(o) /\ vpn' = [vpn EXCEPT ![o] = read]
        \/ vpn' = [vpn EXCEPT ![o] = ended]
    BY DEF ConfigMissing
  <1>5. place[o] = "listed" => Good(ended)
    BY <1>2 DEF IInv, ListedGood
  <1> HIDE DEF ended
  <1>6. ~GivesUp(ended, {"Fatal"})
    BY FatalIsNotGivingUp
  <1>7. Listens(o) => read \in OpenVpnObject /\ Good(read)
    BY <1>2, <1>6, ReadGood DEF Listens
  <1> HIDE DEF read
  <1> QED
    BY <1>2, <1>3, <1>4, <1>5, <1>7, OneObjectStep

\* A step that changes one object, and removes it from the list if it is there
\* and leaves: the two ways in which an object takes itself off the list.
LEMMA LeavingStep ==
    ASSUME IInv, NEW o \in Objs, NEW r \in OpenVpnObject, vpn' = [vpn EXCEPT ![o] = r],
           NEW leaves \in BOOLEAN,
           place' = IF leaves /\ place[o] = "listed"
                    THEN removeItemFromList(owner[o], ident[o]) ELSE place,
           UNCHANGED <<conn, owner, ident>>,
           leaves => r.proc = "none", ~leaves => Good(r)
    PROVE  IInv' /\ StrayFree
  <1>1. place' \in [Objs -> {"free", "listed", "doomed"}]
    BY RemoveEffect DEF IInv, Shape
  <1>2. Shape'
    BY <1>1 DEF IInv, Shape
  <1>3. \A p \in Objs : place'[p] = "listed" => place[p] = "listed"
    BY RemoveEffect
  <1>4. ASSUME leaves, place[o] = "listed"
        PROVE  place'[o] = "doomed"
    <2>1. o \in Items(owner[o], ident[o])
      BY <1>4 DEF Items
    <2> QED
      BY <1>4, <2>1, RemoveEffect
  <1>5. vpn'[o] = r /\ \A p \in Objs : p # o => vpn'[p] = vpn[p]
    BY DEF IInv, Shape
  <1>6. \A p \in Objs : place'[p] = "listed" => Good(vpn'[p])
    <2> TAKE p \in Objs
    <2> HAVE place'[p] = "listed"
    <2>1. place[p] = "listed"
      BY <1>3
    <2>2. CASE p = o
      <3>1. ~leaves
        BY <1>4, <2>1, <2>2
      <3> QED
        BY <1>5, <2>2, <3>1
    <2>3. CASE p # o
      BY <1>5, <2>1, <2>3 DEF IInv, ListedGood
    <2> QED
      BY <2>2, <2>3
  <1>7. IInv'
    BY <1>2, <1>3, <1>6, Shrink
  <1>8. ASSUME NEW p \in Objs, place[p] = "listed", place'[p] = "doomed"
        PROVE  vpn'[p].proc = "none"
    <2>1. leaves /\ place[o] = "listed"
      BY <1>8
    <2>2. p = o
      BY <1>8, <2>1, RemoveEffect, RemovesItself
    <2> QED
      BY <1>5, <2>1, <2>2
  <1> QED
    BY <1>7, <1>8 DEF StrayFree

LEMMA OutputStep ==
    ASSUME IInv, NEW o \in Objs, NEW chunk, NEW ok \in BOOLEAN, Output(o, chunk, ok)
    PROVE  IInv' /\ StrayFree
  <1> DEFINE r == readProcessData(vpn[o], chunk, ok)
             leaves == GivesUp(vpn[o], chunk) /\ ok
  <1>1. vpn[o] \in OpenVpnObject /\ vpn[o].proc # "none" /\ vpn[o].wired
    BY DEF IInv, Shape, Output, Listens
  <1>2. /\ r \in OpenVpnObject
        /\ ~leaves => Good(r)
        /\ leaves => r.proc = "none"
    BY <1>1, ReadGood
  <1>3. vpn' = [vpn EXCEPT ![o] = r]
    BY DEF Output
  <1>4. /\ place' = IF leaves /\ place[o] = "listed"
                    THEN removeItemFromList(owner[o], ident[o]) ELSE place
        /\ UNCHANGED <<conn, owner, ident>>
    BY DEF Output
  <1>5. leaves \in BOOLEAN
    BY DEF GivesUp
  <1> HIDE DEF r, leaves
  <1> QED
    BY <1>2, <1>3, <1>4, <1>5, LeavingStep

LEMMA FinishedStep ==
    ASSUME IInv, NEW o \in Objs, Finished(o)
    PROVE  IInv' /\ StrayFree
  <1> DEFINE r == processFinished(vpn[o])
  <1>1. r \in OpenVpnObject /\ r.proc = "none"
    BY FinishedGood DEF IInv, Shape
  <1>2. vpn' = [vpn EXCEPT ![o] = r] /\ UNCHANGED <<conn, owner, ident>>
    BY DEF Finished
  <1>3. place' = IF TRUE /\ place[o] = "listed"
                 THEN removeItemFromList(owner[o], ident[o]) ELSE place
    BY DEF Finished
  <1> HIDE DEF r
  <1> QED
    BY <1>1, <1>2, <1>3, LeavingStep

LEMMA DeleteStep ==
    ASSUME IInv, NEW o \in Objs, Delete(o)
    PROVE  IInv' /\ StrayFree
  <1>1. NewOpenVpn \in OpenVpnObject
    <2>1. "started" \in ConnectOutcomes /\ 0 \in Nat
      BY DEF ConnectOutcomes
    <2> QED
      BY <2>1, ConnectGood
  <1>2. /\ place' = [place EXCEPT ![o] = "free"]
        /\ vpn' = [vpn EXCEPT ![o] = NewOpenVpn]
        /\ owner' = [owner EXCEPT ![o] = AnyConn]
        /\ ident' = [ident EXCEPT ![o] = AnyId]
        /\ conn' = conn
    BY DEF Delete
  <1>3. Shape'
    BY <1>1, <1>2, AnyMembers DEF IInv, Shape
  <1>4. \A p \in Objs : place'[p] = "listed"
          => /\ p # o /\ place[p] = "listed" /\ owner'[p] = owner[p] /\ ident'[p] = ident[p]
             /\ vpn'[p] = vpn[p]
    BY <1>2 DEF IInv, Shape
  <1>5. IInv'
    BY <1>3, <1>4, Shrink DEF IInv, ListedGood
  <1> QED
    BY <1>2, <1>5 DEF StrayFree, IInv, Shape

LEMMA ConnStep ==
    ASSUME IInv, NEW c \in Conns, Connected(c) \/ Closed(c)
    PROVE  IInv' /\ StrayFree
  <1>1. UNCHANGED <<vpn, place, owner, ident>>
    BY DEF Connected, Closed
  <1>2. conn' \in [Conns -> {"new", "up", "closed", "gone"}]
    BY DEF Connected, Closed, IInv, Shape
  <1>3. Shape'
    BY <1>1, <1>2 DEF IInv, Shape
  <1>4. IInv'
    BY <1>1, <1>3, Shrink DEF IInv, ListedGood
  <1> QED
    BY <1>1, <1>4 DEF StrayFree

LEMMA DestroyStep ==
    ASSUME IInv, NEW c \in Conns, Destroy(c)
    PROVE  IInv' /\ StrayFree
  <1> DEFINE list == {o \in Objs : place[o] = "listed" /\ owner[o] = c}
  <1>1. PICK done \in SUBSET list : DisconnectAll(done, list \ done)
    BY DEF Destroy
  <1>2. place' = [o \in Objs |-> IF o \in list THEN "doomed" ELSE place[o]]
    BY DEF Destroy
  <1>3. conn' = [conn EXCEPT ![c] = "gone"] /\ conn[c] = "closed"
    BY DEF Destroy
  <1>4. done \in SUBSET Objs /\ list \ done \in SUBSET Objs
    OBVIOUS
  <1>5. /\ vpn' \in [Objs -> OpenVpnObject]
        /\ UNCHANGED <<owner, ident>>
        /\ \A p \in Objs : Good(vpn[p]) => Good(vpn'[p])
    BY <1>1, <1>4, DisconnectAllEffect
  <1>6. Shape'
    BY <1>2, <1>3, <1>5 DEF IInv, Shape
  <1>7. \A p \in Objs : place'[p] = "listed" => place[p] = "listed"
    BY <1>2
  <1>8. IInv'
    BY <1>5, <1>6, <1>7, Shrink DEF IInv, ListedGood
  <1>9. \A p \in Objs : place[p] = "listed" /\ place'[p] = "doomed" => owner[p] = c
    BY <1>2
  <1> QED
    BY <1>3, <1>8, <1>9 DEF StrayFree

\* Every step keeps the invariant and removes no object that is still needed.
LEMMA NextIInv ==
    ASSUME IInv, [Next]_vars
    PROVE  IInv' /\ StrayFree
  <1>1. CASE Command
    <2>1. PICK c \in Conns, i \in Ids :
            \/ OpenAgain(c, i)
            \/ OpenRejected(c, i)
            \/ \E outcome \in Outcomes, n \in RemoteLines : OpenNew(c, i, outcome, n)
            \/ CLOSE(c, i)
            \/ \E d \in Conns : CliCLOSE(c, d, i)
            \/ STATUS(c, i)
            \/ \E type \in AnswerTypes : Answer(c, i, type)
      BY <1>1 DEF Command
    <2>2. Outcomes \subseteq ConnectOutcomes /\ RemoteLines \subseteq Nat
      BY ServiceAssumption
    <2> QED
      BY <2>1, <2>2, OpenAgainStep, OpenRejectedStep, OpenNewStep, CloseStep, StatusStep, AnswerStep
  <1>2. CASE Process
    <2>1. EventResults \subseteq BOOLEAN
      BY ServiceAssumption
    <2> QED
      BY <1>2, <2>1, ReadsConfigStep, ConfigMissingStep, OutputStep, ProcExitStep DEF Process
  <1>3. CASE Loop
    BY <1>3, FinishedStep, DeleteStep, ConnStep, DestroyStep DEF Loop
  <1>4. CASE UNCHANGED vars
    <2>1. UNCHANGED <<conn, vpn, place, owner, ident>>
      BY <1>4 DEF vars
    <2> QED
      BY <2>1 DEF IInv, Shape, OneListedPerId, ListedGood, StrayFree
  <1> QED
    BY <1>1, <1>2, <1>3, <1>4 DEF Next

-----------------------------------------------------------------------------
\* The invariant holds throughout.
THEOREM ServiceInvariant == Spec => []IInv
  <1>1. IInv /\ [Next]_vars => IInv'
    BY NextIInv
  <1> QED
    BY InitIInv, <1>1, PTL DEF Spec

\* One object per id (foundItemInList, OPEN).
THEOREM ServiceOneListedPerId == Spec => []OneListedPerId
  <1>1. IInv => OneListedPerId
    BY DEF IInv
  <1> QED
    BY <1>1, ServiceInvariant, PTL

\* The flags that OPEN trusts have a process behind them.
THEOREM ServiceLiveBehindStatus == Spec => []LiveBehindStatus
  <1>1. IInv => LiveBehindStatus
    BY DEF IInv, ListedGood, Good, LiveBehindStatus, Busy
  <1> QED
    BY <1>1, ServiceInvariant, PTL

\* No object in use is taken off the list by another one's end.
THEOREM ServiceNoStrayRemoval == Spec => NoStrayRemoval
  <1>1. IInv /\ [Next]_vars => StrayFree
    BY NextIInv
  <1>2. IInv /\ [Next]_vars
          => [\A o \in Objs :
                place[o] = "listed" /\ place'[o] = "doomed" /\ Busy(o) /\ conn[owner[o]] = "up"
                    => vpn'[o].proc = "none"]_vars
    BY <1>1 DEF StrayFree
  <1> QED
    BY <1>2, ServiceInvariant, PTL DEF Spec, NoStrayRemoval

-----------------------------------------------------------------------------
\* What the queue makes of the entry's state.

\* A message that sets the state of the entry, and one that makes it Connected.
Sets(m) == m.cmd \in {"DISCONNECTED", "ERROR", "RECEIVEDIP", "RESTART", "STATUS"}
Greens(m) == m.cmd = "RECEIVEDIP" \/ (m.cmd = "STATUS" /\ m.connected /\ ~m.connecting)

\* An entry in state st is Connected once the messages of q have been read.
WillShow(st, q) ==
    \/ st = "Connected" /\ \A k \in 1 .. Len(q) : ~Sets(q[k])
    \/ \E k \in 1 .. Len(q) : Greens(q[k]) /\ \A l \in 1 .. Len(q) : l > k => ~Sets(q[l])

Quiet(ms) == \A k \in 1 .. Len(ms) : ~Sets(ms[k])
Loud(ms) == (\E k \in 1 .. Len(ms) : Sets(ms[k])) /\ \A k \in 1 .. Len(ms) : ~Greens(ms[k])

LEMMA GreensSets == ASSUME NEW m, Greens(m) PROVE Sets(m)
BY DEF Greens, Sets

LEMMA AppendIndex ==
    ASSUME NEW S, NEW q \in Seq(S), NEW ms \in Seq(S)
    PROVE  /\ q \o ms \in Seq(S) /\ Len(q \o ms) = Len(q) + Len(ms)
           /\ Len(q) \in Nat /\ Len(ms) \in Nat
           /\ \A k \in 1 .. Len(q) : (q \o ms)[k] = q[k]
           /\ \A k \in 1 .. Len(ms) : (q \o ms)[Len(q) + k] = ms[k]
OBVIOUS

\* Messages that set no state change nothing; after ones that set it, but
\* never to Connected, it is not Connected.
LEMMA AppendQuiet ==
    ASSUME NEW S, NEW q \in Seq(S), NEW ms \in Seq(S), NEW st, Quiet(ms), WillShow(st, q \o ms)
    PROVE  WillShow(st, q)
<1> DEFINE all == q \o ms
           n == Len(q)
           l == Len(ms)
<1>1. /\ n \in Nat /\ l \in Nat /\ Len(all) = n + l
      /\ \A k \in 1 .. n : all[k] = q[k]
      /\ \A k \in 1 .. l : all[n + k] = ms[k]
  BY AppendIndex
<1>2. \A k \in 1 .. n + l : k > n => ~Sets(all[k])
  <2> SUFFICES ASSUME NEW k \in 1 .. n + l, k > n PROVE ~Sets(all[k])
    OBVIOUS
  <2>1. k - n \in 1 .. l /\ k = n + (k - n)
    BY <1>1
  <2>2. all[k] = ms[k - n]
    BY <1>1, <2>1
  <2>3. QED BY <2>1, <2>2 DEF Quiet
<1>3. WillShow(st, all)
  OBVIOUS
<1> HIDE DEF all, n, l
<1>4. CASE st = "Connected" /\ \A k \in 1 .. Len(all) : ~Sets(all[k])
  <2>1. \A k \in 1 .. n : k \in 1 .. n + l
    BY <1>1
  <2>2. \A k \in 1 .. n : ~Sets(q[k])
    BY <1>1, <1>4, <2>1
  <2>3. QED BY <1>4, <2>2 DEF WillShow, n
<1>5. ASSUME NEW k \in 1 .. n + l, Greens(all[k]), \A m \in 1 .. n + l : m > k => ~Sets(all[m])
      PROVE  WillShow(st, q)
  <2>1. k \in 1 .. n
    BY <1>1, <1>2, <1>5, GreensSets
  <2>2. Greens(q[k])
    BY <1>1, <1>5, <2>1
  <2>3. \A m \in 1 .. n : m \in 1 .. n + l /\ all[m] = q[m]
    BY <1>1
  <2>4. \A m \in 1 .. n : m > k => ~Sets(q[m])
    BY <1>5, <2>3
  <2>5. QED BY <2>1, <2>2, <2>4 DEF WillShow, n
<1>6. QED BY <1>1, <1>3, <1>4, <1>5 DEF WillShow

LEMMA AppendLoud ==
    ASSUME NEW S, NEW q \in Seq(S), NEW ms \in Seq(S), NEW st, Loud(ms)
    PROVE  ~WillShow(st, q \o ms)
<1> DEFINE all == q \o ms
           n == Len(q)
           l == Len(ms)
<1>1. /\ n \in Nat /\ l \in Nat /\ Len(all) = n + l
      /\ \A k \in 1 .. l : all[n + k] = ms[k]
  BY AppendIndex
<1> HIDE DEF all
<1>2. PICK k \in 1 .. l : Sets(ms[k])
  BY DEF Loud
<1>3. \A m \in 1 .. l : ~Greens(ms[m])
  BY DEF Loud
<1> HIDE DEF n, l
<1>4. n + k \in 1 .. n + l /\ Sets(all[n + k])
  BY <1>1, <1>2
<1>5. ~(st = "Connected" /\ \A m \in 1 .. n + l : ~Sets(all[m]))
  BY <1>4
<1>6. ASSUME NEW m \in 1 .. n + l, Greens(all[m]), \A p \in 1 .. n + l : p > m => ~Sets(all[p])
      PROVE  FALSE
  <2>1. ~(n + k > m)
    BY <1>4, <1>6
  <2>2. m - n \in 1 .. l /\ m = n + (m - n)
    BY <1>1, <1>2, <2>1
  <2>3. all[m] = ms[m - n]
    BY <1>1, <2>2
  <2>4. QED BY <1>3, <1>6, <2>2, <2>3
<1>7. ~WillShow(st, all)
  BY <1>1, <1>5, <1>6 DEF WillShow
<1>8. QED BY <1>7 DEF all

\* Reading the first message.
LEMMA ReadFirst ==
    ASSUME NEW S, NEW q \in Seq(S), q # << >>, NEW old, NEW new, WillShow(new, Tail(q)),
           IF Sets(Head(q)) THEN new = "Connected" => Greens(Head(q)) ELSE new = old
    PROVE  WillShow(old, q)
<1> DEFINE n == Len(q)
           t == Tail(q)
<1>1. /\ n \in Nat /\ n > 0 /\ Len(t) = n - 1 /\ Head(q) = q[1]
      /\ \A k \in 1 .. n - 1 : t[k] = q[k + 1]
  OBVIOUS
<1>2. WillShow(new, t)
  OBVIOUS
<1> HIDE DEF n, t
<1>3. \A k \in 1 .. n : k > 1 => k - 1 \in 1 .. n - 1 /\ q[k] = t[k - 1]
  <2> SUFFICES ASSUME NEW k \in 1 .. n, k > 1 PROVE k - 1 \in 1 .. n - 1 /\ q[k] = t[k - 1]
    OBVIOUS
  <2>1. k - 1 \in 1 .. n - 1 /\ k = (k - 1) + 1
    BY <1>1
  <2>2. QED BY <1>1, <2>1
<1>4. CASE new = "Connected" /\ \A k \in 1 .. n - 1 : ~Sets(t[k])
  <2>1. \A k \in 1 .. n : k > 1 => ~Sets(q[k])
    BY <1>3, <1>4
  <2>2. 1 \in 1 .. n
    BY <1>1
  <2>3. CASE Sets(Head(q))
    BY <1>1, <1>4, <2>1, <2>2, <2>3 DEF WillShow, n
  <2>4. CASE ~Sets(Head(q))
    <3>1. \A k \in 1 .. n : k > 1 \/ k = 1
      BY <1>1
    <3>2. \A k \in 1 .. n : ~Sets(q[k])
      BY <1>1, <2>1, <2>4, <3>1
    <3>3. old = "Connected"
      BY <1>4, <2>4
    <3>4. QED BY <3>2, <3>3 DEF WillShow, n
  <2>5. QED BY <2>3, <2>4
<1>5. ASSUME NEW k \in 1 .. n - 1, Greens(t[k]), \A m \in 1 .. n - 1 : m > k => ~Sets(t[m])
      PROVE  WillShow(old, q)
  <2>1. k + 1 \in 1 .. n /\ Greens(q[k + 1])
    BY <1>1, <1>5
  <2>2. ASSUME NEW m \in 1 .. n, m > k + 1
        PROVE  ~Sets(q[m])
    <3>1. m > 1 /\ m - 1 > k /\ m - 1 \in 1 .. n - 1
      BY <1>1, <2>2
    <3>2. QED BY <1>3, <1>5, <3>1
  <2>3. QED BY <2>1, <2>2 DEF WillShow, n
<1>6. QED BY <1>1, <1>2, <1>4, <1>5 DEF WillShow

-----------------------------------------------------------------------------
\* What the object sends and what becomes of it.

LEMMA RangeAppend ==
    ASSUME NEW S, NEW s \in Seq(S), NEW t \in Seq(S)
    PROVE  s \o t \in Seq(S) /\ Range(s \o t) = Range(s) \cup Range(t)
<1>1. /\ DOMAIN s = 1 .. Len(s) /\ DOMAIN t = 1 .. Len(t) /\ DOMAIN (s \o t) = 1 .. Len(s) + Len(t)
      /\ Len(s) \in Nat /\ Len(t) \in Nat /\ s \o t \in Seq(S)
  OBVIOUS
<1>2. \A k \in 1 .. Len(s) : k \in 1 .. Len(s) + Len(t) /\ (s \o t)[k] = s[k]
  BY <1>1
<1>3. \A k \in 1 .. Len(t) : Len(s) + k \in 1 .. Len(s) + Len(t) /\ (s \o t)[Len(s) + k] = t[k]
  BY <1>1
<1>4. ASSUME NEW k \in 1 .. Len(s) + Len(t), k \notin 1 .. Len(s)
      PROVE  k - Len(s) \in 1 .. Len(t) /\ (s \o t)[k] = t[k - Len(s)]
  <2>1. k - Len(s) \in 1 .. Len(t) /\ Len(s) + (k - Len(s)) = k
    BY <1>1, <1>4
  <2>2. QED BY <1>3, <2>1
<1>5. Range(s) \cup Range(t) \subseteq Range(s \o t)
  BY <1>1, <1>2, <1>3 DEF Range
<1>6. Range(s \o t) \subseteq Range(s) \cup Range(t)
  <2> SUFFICES ASSUME NEW k \in 1 .. Len(s) + Len(t)
               PROVE  (s \o t)[k] \in Range(s) \cup Range(t)
    BY <1>1 DEF Range
  <2>1. CASE k \in 1 .. Len(s)
    BY <1>1, <1>2, <2>1 DEF Range
  <2>2. CASE k \notin 1 .. Len(s)
    BY <1>1, <1>4, <2>2 DEF Range
  <2>3. QED BY <2>1, <2>2
<1>7. QED BY <1>1, <1>5, <1>6

LEMMA RangeAppend3 ==
    ASSUME NEW S, NEW s \in Seq(S), NEW t \in Seq(S), NEW u \in Seq(S), NEW v \in Seq(S)
    PROVE  /\ s \o t \o u \o v \in Seq(S)
           /\ Range(s \o t \o u \o v) = Range(s) \cup Range(t) \cup Range(u) \cup Range(v)
<1>1. PICK e : e = s \o t
  OBVIOUS
<1>2. e \in Seq(S) /\ Range(e) = Range(s) \cup Range(t)
  BY <1>1, RangeAppend
<1>3. PICK f : f = e \o u
  OBVIOUS
<1>4. f \in Seq(S) /\ Range(f) = Range(e) \cup Range(u)
  BY <1>2, <1>3, RangeAppend
<1>5. f \o v \in Seq(S) /\ Range(f \o v) = Range(f) \cup Range(v)
  BY <1>4, RangeAppend
<1>6. s \o t \o u \o v = f \o v
  BY <1>1, <1>3
<1>7. QED BY <1>2, <1>4, <1>5, <1>6

LEMMA WhenRange ==
    ASSUME NEW cond \in BOOLEAN, NEW S, NEW m \in S
    PROVE  When(cond, m) \in Seq(S) /\ Range(When(cond, m)) = IF cond THEN {m} ELSE {}
<1>1. CASE cond
  BY <1>1 DEF When, Range
<1>2. CASE ~cond
  BY <1>2 DEF When, Range
<1>3. QED BY <1>1, <1>2

\* A sequence is quiet or loud by the messages in it.
LEMMA RangeOf ==
    ASSUME NEW S, NEW ms \in Seq(S)
    PROVE  /\ Quiet(ms) <=> \A m \in Range(ms) : ~Sets(m)
           /\ Loud(ms) <=> (\E m \in Range(ms) : Sets(m)) /\ \A m \in Range(ms) : ~Greens(m)
<1>1. DOMAIN ms = 1 .. Len(ms)
  OBVIOUS
<1>2. QED BY <1>1 DEF Quiet, Loud, Range

\* The messages of readProcessData: an error is told, and so is that the
\* object has left; only InitCompleted makes the entry Connected.
LEMMA ReadSends ==
    ASSUME NEW r, NEW chunk, NEW ok \in BOOLEAN
    PROVE  /\ \E S : readProcessDataSends(r, chunk, ok) \in Seq(S)
           /\ "InitCompleted" \notin chunk =>
                 \/ Loud(readProcessDataSends(r, chunk, ok))
                 \/ /\ Quiet(readProcessDataSends(r, chunk, ok))
                    /\ ~ErrorOccurred(chunk) /\ ErrorKind(chunk) # "NoRoute"
                    /\ ~(GivesUp(r, chunk) /\ ok)
<1> DEFINE prompt == FirstOf(PromptOrder, chunk)
           m1 == Input(PromptType[prompt])
           S == {m1, Plain("TAPINSTALL"), Plain("ERROR"), Plain("REMOVE_USER_DATA"),
                 Plain("DISCONNECTED"), Plain("RESTART"), Plain("RECEIVEDIP")}
           c1 == prompt # "none" /\ ~SelfAnswered(r, chunk)
           c2 == ErrorKind(chunk) = "TapNeeded"
           c3 == ErrorKind(chunk) = "NoRoute"
           c4 == ErrorOccurred(chunk)
           c5 == "AuthFailed" \in chunk /\ ~(r.connectionIsAOtpConnection \/ OtpPhrase(chunk))
           c6 == GivesUp(r, chunk) /\ ok
           c7 == "RestartPause" \in chunk /\ ~GivesUp(r, chunk)
           c8 == "InitCompleted" \in chunk
           ms == readProcessDataSends(r, chunk, ok)
<1>1. c1 \in BOOLEAN /\ c2 \in BOOLEAN /\ c3 \in BOOLEAN /\ c5 \in BOOLEAN /\ c7 \in BOOLEAN /\ c8 \in BOOLEAN
  OBVIOUS
<1>2. c4 \in BOOLEAN /\ c6 \in BOOLEAN
  BY DEF ErrorOccurred, GivesUp
<1>3. ms = When(c1, m1) \o When(c2, Plain("TAPINSTALL")) \o When(c3, Plain("ERROR"))
             \o When(c4, Plain("ERROR")) \o When(c5, Plain("REMOVE_USER_DATA"))
             \o When(c6, Plain("DISCONNECTED")) \o When(c7, Plain("RESTART"))
             \o When(c8, Plain("RECEIVEDIP"))
  BY DEF readProcessDataSends
<1>4. /\ ~Sets(m1) /\ ~Greens(m1)
      /\ ~Sets(Plain("TAPINSTALL")) /\ ~Greens(Plain("TAPINSTALL"))
      /\ ~Sets(Plain("REMOVE_USER_DATA")) /\ ~Greens(Plain("REMOVE_USER_DATA"))
      /\ Sets(Plain("ERROR")) /\ ~Greens(Plain("ERROR"))
      /\ Sets(Plain("DISCONNECTED")) /\ ~Greens(Plain("DISCONNECTED"))
      /\ Sets(Plain("RESTART")) /\ ~Greens(Plain("RESTART"))
  BY DEF Sets, Greens, Plain, Input
<1>5. /\ m1 \in S /\ Plain("TAPINSTALL") \in S /\ Plain("ERROR") \in S /\ Plain("REMOVE_USER_DATA") \in S
      /\ Plain("DISCONNECTED") \in S /\ Plain("RESTART") \in S /\ Plain("RECEIVEDIP") \in S
  OBVIOUS
<1> HIDE DEF prompt, m1, S, c1, c2, c3, c4, c5, c6, c7, c8, ms
<1> DEFINE w1 == When(c1, m1)
           w2 == When(c2, Plain("TAPINSTALL"))
           w3 == When(c3, Plain("ERROR"))
           w4 == When(c4, Plain("ERROR"))
           w5 == When(c5, Plain("REMOVE_USER_DATA"))
           w6 == When(c6, Plain("DISCONNECTED"))
           w7 == When(c7, Plain("RESTART"))
           w8 == When(c8, Plain("RECEIVEDIP"))
<1>6. /\ w1 \in Seq(S) /\ Range(w1) = IF c1 THEN {m1} ELSE {}
      /\ w2 \in Seq(S) /\ Range(w2) = IF c2 THEN {Plain("TAPINSTALL")} ELSE {}
      /\ w3 \in Seq(S) /\ Range(w3) = IF c3 THEN {Plain("ERROR")} ELSE {}
      /\ w4 \in Seq(S) /\ Range(w4) = IF c4 THEN {Plain("ERROR")} ELSE {}
  BY <1>1, <1>2, <1>5, WhenRange
<1>7. /\ w5 \in Seq(S) /\ Range(w5) = IF c5 THEN {Plain("REMOVE_USER_DATA")} ELSE {}
      /\ w6 \in Seq(S) /\ Range(w6) = IF c6 THEN {Plain("DISCONNECTED")} ELSE {}
      /\ w7 \in Seq(S) /\ Range(w7) = IF c7 THEN {Plain("RESTART")} ELSE {}
      /\ w8 \in Seq(S) /\ Range(w8) = IF c8 THEN {Plain("RECEIVEDIP")} ELSE {}
  BY <1>1, <1>2, <1>5, WhenRange
<1>8. ms = w1 \o w2 \o w3 \o w4 \o w5 \o w6 \o w7 \o w8
  BY <1>3
<1> HIDE DEF w1, w2, w3, w4, w5, w6, w7, w8
<1>9. /\ w1 \o w2 \o w3 \o w4 \in Seq(S)
      /\ Range(w1 \o w2 \o w3 \o w4) = Range(w1) \cup Range(w2) \cup Range(w3) \cup Range(w4)
  BY <1>6, RangeAppend3
<1> DEFINE h == w1 \o w2 \o w3 \o w4
<1>10. h \in Seq(S) /\ Range(h) = Range(w1) \cup Range(w2) \cup Range(w3) \cup Range(w4)
  BY <1>9
<1>11. ms = h \o w5 \o w6 \o w7 \o w8
  BY <1>8
<1> HIDE DEF h
<1>12. /\ ms \in Seq(S)
       /\ Range(ms) = Range(h) \cup Range(w5) \cup Range(w6) \cup Range(w7) \cup Range(w8)
  <2>1. h \o w5 \in Seq(S) /\ Range(h \o w5) = Range(h) \cup Range(w5)
    BY <1>7, <1>10, RangeAppend
  <2>2. PICK e : e = h \o w5
    OBVIOUS
  <2>3. ms = e \o w6 \o w7 \o w8
    BY <1>11, <2>2
  <2>4. e \in Seq(S) /\ Range(e) = Range(h) \cup Range(w5)
    BY <2>1, <2>2
  <2>5. /\ e \o w6 \o w7 \o w8 \in Seq(S)
        /\ Range(e \o w6 \o w7 \o w8) = Range(e) \cup Range(w6) \cup Range(w7) \cup Range(w8)
    <3>1. e \in Seq(S) /\ w6 \in Seq(S) /\ w7 \in Seq(S) /\ w8 \in Seq(S)
      BY <1>7, <2>4
    <3>2. QED BY <3>1, RangeAppend3
  <2>6. QED BY <2>3, <2>4, <2>5
<1>13. ASSUME ~c8
       PROVE  \/ Loud(ms)
              \/ Quiet(ms) /\ ~c4 /\ ~c3 /\ ~c6
  <2>1. \A m \in Range(ms) :
           m \in {m1, Plain("TAPINSTALL"), Plain("ERROR"), Plain("REMOVE_USER_DATA"),
                  Plain("DISCONNECTED"), Plain("RESTART")}
    BY <1>6, <1>7, <1>10, <1>12, <1>13
  <2>2. \A m \in Range(ms) : ~Greens(m)
    BY <1>4, <2>1
  <2>3. CASE \E m \in Range(ms) : Sets(m)
    BY <1>12, <2>2, <2>3, RangeOf
  <2>4. CASE \A m \in Range(ms) : ~Sets(m)
    <3>1. c3 \/ c4 => Plain("ERROR") \in Range(ms)
      BY <1>6, <1>10, <1>12
    <3>2. c6 => Plain("DISCONNECTED") \in Range(ms)
      BY <1>7, <1>12
    <3>3. QED BY <1>4, <1>12, <2>4, <3>1, <3>2, RangeOf
  <2>5. QED BY <2>3, <2>4
<1>14. QED BY <1>12, <1>13 DEF ms, c8, c4, c3, c6

\* connectionStable after a chunk.
LEMMA ReadStable ==
    ASSUME NEW r \in OpenVpnObject, NEW chunk, NEW ok \in BOOLEAN
    PROVE  /\ "InitCompleted" \in chunk => readProcessData(r, chunk, ok).connectionStable
           /\ /\ r.connectionStable /\ ~ErrorOccurred(chunk) /\ ErrorKind(chunk) # "NoRoute"
              /\ ~GivesUp(r, chunk)
              => readProcessData(r, chunk, ok).connectionStable
<1> DEFINE read == [r EXCEPT
          !.lastAction = LastActionAfter(r, chunk),
          !.retryMultiHostCount = IF UsesHost(r, chunk) THEN @ - 1 ELSE @,
          !.connectionIsAOtpConnection = @ \/ OtpPhrase(chunk),
          !.connectionStable = IF ErrorOccurred(chunk) \/ Kills(r, chunk) THEN FALSE
                               ELSE @ \/ "TapNotified" \in chunk,
          !.onDisconnect = @ \/ Kills(r, chunk),
          !.proc = IF Kills(r, chunk) THEN "crashed" ELSE @]
        left == IF GivesUp(r, chunk) THEN disconnectVpn(read, ok) ELSE read
<1>1. readProcessData(r, chunk, ok) =
        IF "InitCompleted" \in chunk
        THEN [left EXCEPT !.connectionStable = TRUE, !.connecting = FALSE] ELSE left
  BY DEF readProcessData
<1>2. "connectionStable" \in DOMAIN read
  BY DEF OpenVpnObject
<1>3. r.connectionStable /\ ~ErrorOccurred(chunk) /\ ErrorKind(chunk) # "NoRoute" => read.connectionStable
  BY DEF OpenVpnObject, Kills
<1> HIDE DEF read
<1>4. "connectionStable" \in DOMAIN left
  BY <1>2 DEF disconnectVpn
<1>5. ~GivesUp(r, chunk) => left = read
  OBVIOUS
<1> HIDE DEF left
<1>6. QED BY <1>1, <1>3, <1>4, <1>5

-----------------------------------------------------------------------------
\* The inductive invariant.

Stable == \E o \in Items(Me, Id) : vpn[o].connectionStable

\* Every object there is belongs to the entry, and a place without an object
\* has no process.
Mine ==
    \A o \in Objs : IF place[o] = "free" THEN vpn[o].proc = "none"
                    ELSE owner[o] = Me /\ ident[o] = Id /\ conn[Me] = "up"

\* If the entry is Connected once everything under way has been read, the
\* connection is stable now: GreenIsConnected for a queue that is not empty.
Queue ==
    /\ \E S : toClient \in Seq(S)
    /\ WillShow(state, toClient) /\ ~unheard => Stable

SessionInv == IInv /\ Mine /\ Queue

Delivered(ms) ==
    toClient' = IF ms = << >> THEN toClient ELSE toClient \o [k \in DOMAIN ms |-> Marked(ms[k], refused)]

LEMMA MarkedSets ==
    ASSUME NEW m, NEW bad
    PROVE  /\ Sets(Marked(m, bad)) <=> Sets(m)
           /\ Greens(Marked(m, bad)) <=> Greens(m)
           /\ Marked(m, bad).cmd = m.cmd
           /\ m.cmd \in {"INPUT", "STATUS"} => Marked(m, bad).bad = bad
<1>1. CASE m.cmd = "INPUT"
  <2>1. Marked(m, bad) = [cmd |-> "INPUT", type |-> m.type, bad |-> bad]
    BY <1>1 DEF Marked
  <2> QED BY <1>1, <2>1 DEF Sets, Greens
<1>2. CASE m.cmd = "STATUS"
  <2>1. Marked(m, bad) = [cmd |-> "STATUS", connected |-> m.connected, connecting |-> m.connecting,
                          lastAction |-> m.lastAction, bad |-> bad]
    BY <1>2 DEF Marked
  <2> QED BY <1>2, <2>1 DEF Sets, Greens
<1>3. CASE m.cmd \notin {"INPUT", "STATUS"}
  <2>1. Marked(m, bad) = m
    BY <1>3 DEF Marked
  <2> QED BY <1>3, <2>1
<1> QED BY <1>1, <1>2, <1>3

\* The marks do not matter to what the entry will show.
LEMMA SameShown ==
    ASSUME NEW q, NEW r, NEW st, Len(r) = Len(q),
           \A k \in 1 .. Len(q) : (Sets(r[k]) <=> Sets(q[k])) /\ (Greens(r[k]) <=> Greens(q[k])),
           WillShow(st, r)
    PROVE  WillShow(st, q)
BY DEF WillShow

\* A step of the service: the client is told of what it loses.
LEMMA ServiceQueue ==
    ASSUME Queue, NEW S, NEW ms \in Seq(S), Delivered(ms), state' = state, unheard => unheard',
           unheard' \/ Stable' \/ Loud(ms) \/ (Quiet(ms) /\ (Stable => Stable'))
    PROVE  Queue'
<1>1. PICK T : toClient \in Seq(T)
  BY DEF Queue
<1>2. CASE ms = << >>
  <2>1. toClient' = toClient
    BY <1>2 DEF Delivered
  <2>2. ~Loud(ms)
    BY <1>2 DEF Loud
  <2>3. QED BY <1>1, <2>1, <2>2 DEF Queue
<1>3. CASE ms # << >>
  <2> DEFINE mark == [k \in DOMAIN ms |-> Marked(ms[k], refused)]
             M == T \cup {Marked(m, refused) : m \in S}
  <2>1. toClient' = toClient \o mark
    BY <1>3 DEF Delivered
  <2>2. Len(ms) \in Nat /\ DOMAIN ms = 1 .. Len(ms) /\ \A k \in 1 .. Len(ms) : ms[k] \in S
    OBVIOUS
  <2>3. \A k \in 1 .. Len(ms) : Marked(ms[k], refused) \in M
    BY <2>2
  <2>4. toClient \in Seq(M)
    BY <1>1
  <2>5. mark = [k \in 1 .. Len(ms) |-> Marked(ms[k], refused)]
    BY <2>2
  <2> HIDE DEF M
  <2>6. mark \in Seq(M) /\ Len(mark) = Len(ms)
    BY <2>2, <2>3, <2>5
  <2>7. \A k \in 1 .. Len(ms) : mark[k] = Marked(ms[k], refused)
    BY <2>5
  <2> HIDE DEF mark
  <2>8. /\ Quiet(ms) => Quiet(mark)
        /\ Loud(ms) => Loud(mark)
    BY <2>6, <2>7, MarkedSets DEF Quiet, Loud
  <2>9. toClient' \in Seq(M)
    BY <2>1, <2>4, <2>6
  <2>10. CASE Loud(ms)
    <3>1. ~WillShow(state, toClient')
      BY <2>1, <2>4, <2>6, <2>8, <2>10, AppendLoud
    <3>2. QED BY <2>9, <3>1 DEF Queue
  <2>11. CASE Quiet(ms) /\ (Stable => Stable')
    <3>1. WillShow(state, toClient') => WillShow(state, toClient)
      BY <2>1, <2>4, <2>6, <2>8, <2>11, AppendQuiet
    <3>2. QED BY <2>9, <2>11, <3>1 DEF Queue
  <2>12. CASE unheard' \/ Stable'
    BY <2>9, <2>12 DEF Queue
  <2>13. QED BY <2>10, <2>11, <2>12
<1>4. QED BY <1>2, <1>3

\* What the service sends to this client arrives.
LEMMA SendDelivers ==
    ASSUME conn[Me] = "up", NEW i, NEW ms, Send(Me, i, ms), Deliver
    PROVE  Delivered(ms)
<1>1. CASE ms = << >>
  <2>1. sent'.msgs = << >>
    BY <1>1 DEF Send, Nothing
  <2>2. QED BY <1>1, <2>1 DEF Deliver, Delivered
<1>2. CASE ms # << >>
  <2>1. sent' = [to |-> Me, id |-> i, msgs |-> ms]
    BY <1>2 DEF Send
  <2>2. sent'.msgs = ms /\ sent'.to = Me
    BY <2>1
  <2>3. QED BY <1>2, <2>2 DEF Deliver, Delivered
<1>3. QED BY <1>1, <1>2

LEMMA NothingDelivers ==
    ASSUME sent' = Nothing, Deliver
    PROVE  Delivered(<< >>)
<1>1. sent'.msgs = << >>
  BY DEF Nothing
<1>2. QED BY <1>1 DEF Deliver, Delivered

LEMMA EmptyIsQuiet == << >> \in Seq({}) /\ Quiet(<< >>)
BY DEF Quiet

\* Steps that neither make nor delete an object.
LEMMA MineFrame ==
    ASSUME Mine, UNCHANGED <<owner, ident>>, conn[Me] = "up" => conn'[Me] = "up",
           \A o \in Objs : (place'[o] = "free" <=> place[o] = "free")
                           /\ (place[o] = "free" => vpn'[o].proc = "none")
    PROVE  Mine'
BY DEF Mine

\* What keeps the objects keeps Stable.
LEMMA StableFrame ==
    ASSUME UNCHANGED <<place, owner, ident>>,
           \A o \in Items(Me, Id) : vpn[o].connectionStable => vpn'[o].connectionStable
    PROVE  Items(Me, Id)' = Items(Me, Id) /\ (Stable => Stable')
BY DEF Stable, Items

-----------------------------------------------------------------------------
\* The commands of the client and of the command line.

LEMMA PlainIsLoud ==
    ASSUME NEW cmd \in {"ERROR", "DISCONNECTED"}
    PROVE  <<Plain(cmd)>> \in Seq({Plain(cmd)}) /\ Loud(<<Plain(cmd)>>)
<1>1. Sets(Plain(cmd)) /\ ~Greens(Plain(cmd))
  BY DEF Plain, Sets, Greens
<1>2. QED BY <1>1 DEF Loud

LEMMA StatusIsTrue ==
    ASSUME NEW r \in OpenVpnObject
    PROVE  /\ <<sendStatus(r)>> \in Seq({sendStatus(r)})
           /\ ~r.connectionStable => Loud(<<sendStatus(r)>>)
<1>1. ~r.connectionStable => Sets(sendStatus(r)) /\ ~Greens(sendStatus(r))
  BY DEF sendStatus, Sets, Greens
<1>2. QED BY <1>1 DEF Loud

\* The answer to STATUS and to a second OPEN.
LEMMA StatusGreen ==
    ASSUME SessionInv, conn[Me] = "up", NEW r \in OpenVpnObject, r.connectionStable => Stable,
           Send(Me, Id, <<sendStatus(r)>>), Deliver, UNCHANGED <<conn, vpn, place, owner, ident>>,
           UNCHANGED <<state, unheard>>
    PROVE  Mine' /\ Queue'
<1>1. Mine'
  BY MineFrame DEF SessionInv, Mine
<1>2. Stable => Stable'
  BY StableFrame
<1>3. Delivered(<<sendStatus(r)>>)
  BY SendDelivers
<1>4. Stable' \/ Loud(<<sendStatus(r)>>)
  BY <1>2, StatusIsTrue
<1>5. <<sendStatus(r)>> \in Seq({sendStatus(r)})
  BY StatusIsTrue
<1>6. Queue'
  BY <1>3, <1>4, <1>5, ServiceQueue DEF SessionInv
<1>7. QED BY <1>1, <1>6

LEMMA NewIsObject == NewOpenVpn \in OpenVpnObject /\ ~NewOpenVpn.connectionStable /\ NewOpenVpn.proc = "none"
<1>1. "started" \in ConnectOutcomes /\ 0 \in Nat
  BY DEF ConnectOutcomes
<1>2. NewOpenVpn \in OpenVpnObject
  BY <1>1, ConnectGood
<1>3. QED BY <1>2 DEF NewOpenVpn

LEMMA AskGreen ==
    ASSUME SessionInv, OpenAgain(Me, Id) \/ STATUS(Me, Id), Deliver, UNCHANGED <<state, unheard>>
    PROVE  SessionInv'
<1>1. conn[Me] = "up" /\ UNCHANGED <<conn, vpn, place, owner, ident>>
  BY DEF OpenAgain, STATUS
<1>2. IInv'
  BY SessionAssumption, OpenAgainStep, StatusStep DEF SessionInv
<1>3. PICK r : /\ Send(Me, Id, <<sendStatus(r)>>)
               /\ r = NewOpenVpn \/ \E o \in Items(Me, Id) : r = vpn[o]
  BY DEF OpenAgain, STATUS
<1>4. r \in OpenVpnObject /\ (r.connectionStable => Stable)
  BY <1>3, NewIsObject DEF Stable, Items, SessionInv, IInv, Shape
<1>5. QED BY <1>1, <1>2, <1>3, <1>4, StatusGreen DEF SessionInv

LEMMA RemoveFree ==
    ASSUME IInv
    PROVE  \A o \in Objs : removeItemFromList(Me, Id)[o] = "free" <=> place[o] = "free"
BY DEF removeItemFromList, Items, IInv, Shape

LEMMA RejectedGreen ==
    ASSUME SessionInv, OpenRejected(Me, Id), Deliver, UNCHANGED <<state, unheard>>
    PROVE  SessionInv'
<1>1. /\ conn[Me] = "up" /\ UNCHANGED <<conn, vpn, owner, ident>>
      /\ place' = removeItemFromList(Me, Id) /\ Send(Me, Id, <<Plain("ERROR")>>)
  BY DEF OpenRejected
<1>2. IInv'
  BY SessionAssumption, OpenRejectedStep DEF SessionInv
<1>3. \A o \in Objs : place'[o] = "free" <=> place[o] = "free"
  BY <1>1, RemoveFree DEF SessionInv
<1>4. Mine'
  BY <1>1, <1>3, MineFrame DEF SessionInv, Mine
<1>5. Queue'
  BY <1>1, SendDelivers, PlainIsLoud, ServiceQueue DEF SessionInv
<1>6. QED BY <1>2, <1>4, <1>5 DEF SessionInv

\* A new object replaces only what is not connected.
LEMMA OpenNewGreen ==
    ASSUME SessionInv, NEW outcome \in Outcomes, NEW n \in RemoteLines,
           OpenNew(Me, Id, outcome, n), Deliver, UNCHANGED <<state, unheard>>
    PROVE  SessionInv'
<1> DEFINE r == connectToVpn(NewOpenVpn, outcome, n)
           where == IF connectToVpnRemoves(outcome) THEN "doomed" ELSE "listed"
<1>1. outcome \in ConnectOutcomes /\ n \in Nat
  BY ServiceAssumption
<1>2. IInv'
  BY <1>1, SessionAssumption, OpenNewStep DEF SessionInv
<1>3. /\ conn[Me] = "up" /\ conn' = conn /\ Send(Me, Id, connectToVpnSends(outcome))
      /\ ~Stable
  BY DEF OpenNew, Stable, Busy
<1>4. PICK o \in Objs :
        /\ place[o] = "free"
        /\ place' = [removeItemFromList(Me, Id) EXCEPT ![o] = where]
        /\ vpn' = [vpn EXCEPT ![o] = r]
        /\ owner' = [owner EXCEPT ![o] = Me]
        /\ ident' = [ident EXCEPT ![o] = Id]
  BY DEF OpenNew
<1>4a. where # "free"
  OBVIOUS
<1> HIDE DEF r, where
<1>5. /\ place'[o] = where /\ owner'[o] = Me /\ ident'[o] = Id
      /\ \A p \in Objs : p # o => /\ place'[p] = removeItemFromList(Me, Id)[p]
                                  /\ vpn'[p] = vpn[p] /\ owner'[p] = owner[p] /\ ident'[p] = ident[p]
  BY <1>4, RemoveEffect DEF SessionInv, IInv, Shape
<1>6. \A p \in Objs : removeItemFromList(Me, Id)[p] = "free" <=> place[p] = "free"
  BY RemoveFree DEF SessionInv
<1>7. Mine'
  BY <1>3, <1>4a, <1>5, <1>6 DEF SessionInv, Mine
<1>8. connectToVpnSends(outcome) \in {<< >>, <<Plain("ERROR")>>}
  BY DEF connectToVpnSends, When
<1>9. Delivered(connectToVpnSends(outcome))
  BY <1>3, SendDelivers
<1>10. Queue'
  <2>1. CASE connectToVpnSends(outcome) = << >>
    BY <1>3, <1>9, <2>1, EmptyIsQuiet, ServiceQueue DEF SessionInv
  <2>2. CASE connectToVpnSends(outcome) = <<Plain("ERROR")>>
    BY <1>9, <2>2, PlainIsLoud, ServiceQueue DEF SessionInv
  <2>3. QED BY <1>8, <2>1, <2>2
<1>11. QED BY <1>2, <1>7, <1>10 DEF SessionInv

\* A CLOSE is answered, or its exit event failed.
LEMMA CloseGreen ==
    ASSUME SessionInv, NEW c \in Conns, CLOSE(Me, Id) \/ CliCLOSE(c, Me, Id), Deliver, HeardOf,
           state' = state
    PROVE  SessionInv'
<1>1. IInv'
  BY SessionAssumption, CloseStep DEF SessionInv
<1>2. PICK o \in Items(Me, Id), ok \in EventResults : Disconnect(o, ok)
  BY DEF CLOSE, CliCLOSE
<1>3. o \in Objs /\ place[o] = "listed" /\ owner[o] = Me /\ ident[o] = Id /\ conn[Me] = "up"
  BY DEF Items, SessionInv, Mine
<1>4. ok \in BOOLEAN
  BY ServiceAssumption
<1>5. /\ UNCHANGED <<conn, owner, ident>>
      /\ place' = IF ok THEN removeItemFromList(Me, Id) ELSE place
      /\ Send(Me, Id, When(ok, Plain("DISCONNECTED")))
  BY <1>2, <1>3 DEF Disconnect, DisconnectAll
<1>6. \A p \in Objs : p # o => vpn'[p] = vpn[p]
  BY <1>2 DEF Disconnect, DisconnectAll
<1>7. \A p \in Objs : place'[p] = "free" <=> place[p] = "free"
  BY <1>5, RemoveFree DEF SessionInv
<1>8. Mine'
  BY <1>3, <1>5, <1>6, <1>7, MineFrame DEF SessionInv, Mine
<1>9. unheard => unheard'
  BY DEF HeardOf
<1>10. CASE ok
  <2>1. Delivered(<<Plain("DISCONNECTED")>>)
    BY <1>3, <1>5, <1>10, SendDelivers DEF When
  <2>2. Queue'
    BY <1>9, <2>1, PlainIsLoud, ServiceQueue DEF SessionInv
  <2>3. QED BY <1>1, <1>8, <2>2 DEF SessionInv
<1>11. CASE ~ok
  <2>1. Delivered(<< >>)
    BY <1>3, <1>5, <1>11, SendDelivers DEF When
  <2>2. unheard'
    BY <1>5, <1>11 DEF HeardOf
  <2>3. Queue'
    BY <1>9, <2>1, <2>2, EmptyIsQuiet, ServiceQueue DEF SessionInv
  <2>4. QED BY <1>1, <1>8, <2>3 DEF SessionInv
<1>12. QED BY <1>4, <1>10, <1>11

LEMMA AnswerGreen ==
    ASSUME SessionInv, NEW type, Answer(Me, Id, type), Deliver, UNCHANGED <<state, unheard>>
    PROVE  SessionInv'
<1>1. IInv'
  BY SessionAssumption, AnswerStep DEF SessionInv
<1>2. PICK o \in Items(Me, Id) : vpn' = [vpn EXCEPT ![o] = answer(vpn[o], type)]
  BY DEF Answer
<1>3. sent' = Nothing /\ UNCHANGED <<conn, place, owner, ident>>
  BY DEF Answer
<1>4. o \in Objs /\ place[o] = "listed" /\ vpn[o] \in OpenVpnObject
  BY DEF Items, SessionInv, IInv, Shape
<1>5. answer(vpn[o], type).connectionStable = vpn[o].connectionStable
  BY <1>4 DEF answer, OpenVpnObject
<1>6. \A p \in Objs : /\ p # o => vpn'[p] = vpn[p]
                      /\ vpn'[p].connectionStable = vpn[p].connectionStable
  BY <1>2, <1>4, <1>5 DEF SessionInv, IInv, Shape
<1>7. Mine'
  BY <1>3, <1>4, <1>6, MineFrame DEF SessionInv, Mine
<1>8. Stable => Stable'
  BY <1>3, <1>6, StableFrame DEF Items
<1>9. Queue'
  BY <1>3, <1>8, NothingDelivers, EmptyIsQuiet, ServiceQueue DEF SessionInv
<1>10. QED BY <1>1, <1>7, <1>9 DEF SessionInv

-----------------------------------------------------------------------------
\* openvpn and the event loop.

\* An object with a process belongs to the entry.
LEMMA LiveIsMine ==
    ASSUME SessionInv, NEW o \in Objs, vpn[o].proc # "none"
    PROVE  /\ place[o] # "free" /\ owner[o] = Me /\ ident[o] = Id /\ conn[Me] = "up"
           /\ vpn[o] \in OpenVpnObject /\ place[o] \in {"listed", "doomed"}
BY DEF SessionInv, Mine, IInv, Shape

LEMMA SpeaksGreen ==
    ASSUME SessionInv, NEW o \in Objs, Speaks(o), Deliver, state' = state
    PROVE  SessionInv'
<1>1. PICK chunk \in Chunks, ok \in EventResults :
        /\ Output(o, chunk, ok)
        /\ unheard' = \/ unheard
                      \/ place[o] = "doomed"
                      \/ GivesUp(vpn[o], chunk) /\ (ok => "InitCompleted" \in chunk)
  BY DEF Speaks
<1>2. ok \in BOOLEAN
  BY ServiceAssumption
<1>3. IInv'
  BY <1>1, <1>2, OutputStep DEF SessionInv
<1> DEFINE r == readProcessData(vpn[o], chunk, ok)
           ms == readProcessDataSends(vpn[o], chunk, ok)
<1>4. /\ vpn[o].proc = "running" /\ vpn' = [vpn EXCEPT ![o] = r]
      /\ place' = IF (GivesUp(vpn[o], chunk) /\ ok) /\ place[o] = "listed"
                  THEN removeItemFromList(owner[o], ident[o]) ELSE place
      /\ UNCHANGED <<conn, owner, ident>> /\ Send(owner[o], ident[o], ms)
  BY <1>1 DEF Output
<1>5. /\ place[o] # "free" /\ owner[o] = Me /\ ident[o] = Id /\ conn[Me] = "up"
      /\ vpn[o] \in OpenVpnObject /\ place[o] \in {"listed", "doomed"}
  BY <1>4, LiveIsMine
<1>6. PICK S : ms \in Seq(S)
  BY <1>2, ReadSends
<1>7. "InitCompleted" \notin chunk =>
          \/ Loud(ms)
          \/ /\ Quiet(ms)
             /\ ~ErrorOccurred(chunk) /\ ErrorKind(chunk) # "NoRoute"
             /\ ~(GivesUp(vpn[o], chunk) /\ ok)
  BY <1>2, ReadSends
<1>8. /\ "InitCompleted" \in chunk => r.connectionStable
      /\ /\ vpn[o].connectionStable /\ ~ErrorOccurred(chunk) /\ ErrorKind(chunk) # "NoRoute"
         /\ ~GivesUp(vpn[o], chunk)
         => r.connectionStable
  BY <1>2, <1>5, ReadStable
<1>9. Delivered(ms)
  BY <1>4, <1>5, SendDelivers
<1> HIDE DEF r, ms
<1>10. /\ vpn'[o] = r
       /\ \A p \in Objs : p # o => vpn'[p] = vpn[p]
  BY <1>4 DEF SessionInv, IInv, Shape
<1>11. \A p \in Objs : place'[p] = "free" <=> place[p] = "free"
  BY <1>4, <1>5, RemoveFree DEF SessionInv
<1>12. Mine'
  BY <1>4, <1>5, <1>10, <1>11, MineFrame DEF SessionInv, Mine
<1>13. unheard => unheard'
  BY <1>1
<1>14. CASE unheard'
  BY <1>3, <1>6, <1>9, <1>12, <1>13, <1>14, ServiceQueue DEF SessionInv
<1>15. CASE ~unheard'
  <2>1. place[o] = "listed" /\ (GivesUp(vpn[o], chunk) => ok /\ "InitCompleted" \notin chunk)
    BY <1>1, <1>5, <1>15
  <2>2. CASE "InitCompleted" \in chunk
    <3>1. place' = place
      BY <1>4, <2>1, <2>2
    <3>2. o \in Items(Me, Id)'
      BY <1>4, <1>5, <2>1, <3>1 DEF Items
    <3>3. Stable'
      BY <1>8, <1>10, <2>2, <3>2 DEF Stable
    <3>4. Queue'
      BY <1>6, <1>9, <1>13, <3>3, ServiceQueue DEF SessionInv
    <3>5. QED BY <1>3, <1>12, <3>4 DEF SessionInv
  <2>3. CASE Loud(ms)
    BY <1>3, <1>6, <1>9, <1>12, <1>13, <2>3, ServiceQueue DEF SessionInv
  <2>4. CASE /\ Quiet(ms)
             /\ ~ErrorOccurred(chunk) /\ ErrorKind(chunk) # "NoRoute"
             /\ ~(GivesUp(vpn[o], chunk) /\ ok)
    <3>1. ~GivesUp(vpn[o], chunk) /\ place' = place
      BY <1>4, <2>1, <2>4
    <3>2. \A p \in Objs : vpn[p].connectionStable => vpn'[p].connectionStable
      BY <1>8, <1>10, <2>4, <3>1
    <3>3. Stable => Stable'
      BY <1>4, <3>1, <3>2, StableFrame DEF Items
    <3>4. Queue'
      BY <1>6, <1>9, <1>13, <2>4, <3>3, ServiceQueue DEF SessionInv
    <3>5. QED BY <1>3, <1>12, <3>4 DEF SessionInv
  <2>5. QED BY <1>7, <2>2, <2>3, <2>4
<1>16. QED BY <1>14, <1>15

\* The end of a process.
LEMMA EndsGreen ==
    ASSUME SessionInv, NEW o \in Objs, Ends(o), Deliver, state' = state
    PROVE  SessionInv'
<1>1. Finished(o) /\ unheard' = (unheard \/ (place[o] = "listed" /\ processFinishedSends(vpn[o]) = << >>))
  BY DEF Ends
<1>2. IInv'
  BY <1>1, FinishedStep DEF SessionInv
<1> DEFINE r == processFinished(vpn[o])
           ms == processFinishedSends(vpn[o])
<1>3. /\ vpn[o].proc # "none" /\ vpn' = [vpn EXCEPT ![o] = r]
      /\ place' = IF place[o] = "listed" THEN removeItemFromList(owner[o], ident[o]) ELSE place
      /\ UNCHANGED <<conn, owner, ident>> /\ Send(owner[o], ident[o], ms)
  BY <1>1 DEF Finished
<1>4. /\ place[o] # "free" /\ owner[o] = Me /\ ident[o] = Id /\ conn[Me] = "up"
      /\ place[o] \in {"listed", "doomed"}
  BY <1>3, LiveIsMine
<1>5. ms \in {<< >>, <<Plain("ERROR")>>}
  BY DEF processFinishedSends, When
<1>6. Delivered(ms)
  BY <1>3, <1>4, SendDelivers
<1>7. unheard' = (unheard \/ (place[o] = "listed" /\ ms = << >>))
  BY <1>1
<1> HIDE DEF r, ms
<1>8. \A p \in Objs : p # o => vpn'[p] = vpn[p]
  BY <1>3 DEF SessionInv, IInv, Shape
<1>9. \A p \in Objs : place'[p] = "free" <=> place[p] = "free"
  BY <1>3, <1>4, RemoveFree DEF SessionInv
<1>10. Mine'
  BY <1>3, <1>4, <1>8, <1>9, MineFrame DEF SessionInv, Mine
<1>11. unheard => unheard'
  BY <1>7
<1>12. CASE ms = <<Plain("ERROR")>>
  <2>1. Queue'
    BY <1>6, <1>11, <1>12, PlainIsLoud, ServiceQueue DEF SessionInv
  <2>2. QED BY <1>2, <1>10, <2>1 DEF SessionInv
<1>13. CASE ms = << >>
  <2>1. CASE place[o] = "listed"
    <3>1. unheard'
      BY <1>7, <1>13, <2>1
    <3>2. Queue'
      BY <1>6, <1>11, <1>13, <3>1, EmptyIsQuiet, ServiceQueue DEF SessionInv
    <3>3. QED BY <1>2, <1>10, <3>2 DEF SessionInv
  <2>2. CASE place[o] = "doomed"
    <3>1. place' = place /\ o \notin Items(Me, Id)
      BY <1>3, <2>2 DEF Items
    <3>2. Stable => Stable'
      BY <1>3, <1>8, <3>1, StableFrame DEF Items
    <3>3. Queue'
      BY <1>6, <1>11, <1>13, <3>2, EmptyIsQuiet, ServiceQueue DEF SessionInv
    <3>4. QED BY <1>2, <1>10, <3>3 DEF SessionInv
  <2>3. QED BY <1>4, <2>1, <2>2
<1>14. QED BY <1>5, <1>12, <1>13

\* A step of one object that keeps its place and its connectionStable and
\* sends nothing.
LEMMA SilentGreen ==
    ASSUME SessionInv, IInv', sent' = Nothing, Deliver, UNCHANGED <<conn, place, owner, ident>>,
           NEW o \in Objs, vpn[o].proc # "none",
           vpn'[o].connectionStable = vpn[o].connectionStable,
           \A p \in Objs : p # o => vpn'[p] = vpn[p],
           UNCHANGED <<state, unheard>>
    PROVE  SessionInv'
<1>1. place[o] # "free"
  BY LiveIsMine
<1>2. Mine'
  BY <1>1, MineFrame DEF SessionInv, Mine
<1>3. Stable => Stable'
  BY StableFrame DEF Items
<1>4. Queue'
  BY <1>3, NothingDelivers, EmptyIsQuiet, ServiceQueue DEF SessionInv
<1>5. QED BY <1>2, <1>4 DEF SessionInv

LEMMA ProcGreen ==
    ASSUME SessionInv, NEW o \in Objs, NEW how, ReadsConfig(o) \/ ProcExit(o, how), Deliver,
           UNCHANGED <<state, unheard>>
    PROVE  SessionInv'
<1>1. IInv'
  BY ReadsConfigStep, ProcExitStep DEF SessionInv
<1>2. PICK proc : vpn' = [vpn EXCEPT ![o].proc = proc]
  BY DEF ReadsConfig, ProcExit
<1>3. vpn[o].proc # "none" /\ sent' = Nothing /\ UNCHANGED <<conn, place, owner, ident>>
  BY DEF ReadsConfig, ProcExit, Alive
<1>4. /\ vpn'[o].connectionStable = vpn[o].connectionStable
      /\ \A p \in Objs : p # o => vpn'[p] = vpn[p]
  BY <1>2 DEF SessionInv, IInv, Shape, OpenVpnObject
<1>5. QED BY <1>1, <1>3, <1>4, SilentGreen

\* The message openvpn ends with when its config has gone is an error.
LEMMA FatalIsLoud ==
    ASSUME NEW r
    PROVE  /\ \E S : readProcessDataSends(r, {"Fatal"}, TRUE) \in Seq(S)
           /\ Loud(readProcessDataSends(r, {"Fatal"}, TRUE))
<1>1. ErrorKind({"Fatal"}) = "Fatal"
  <2> DEFINE hits == {i \in DOMAIN ErrorOrder : ErrorOrder[i] \in {"Fatal"}}
  <2>1. hits = {6}
    BY DEF ErrorOrder
  <2>2. (CHOOSE i \in hits : \A j \in hits : i <= j) = 6
    BY <2>1
  <2>3. QED BY <2>1, <2>2 DEF ErrorKind, FirstOf, ErrorOrder
<1>2. ErrorOccurred({"Fatal"})
  BY <1>1 DEF ErrorOccurred, OtpPhrase
<1>3. "InitCompleted" \notin {"Fatal"} /\ TRUE \in BOOLEAN
  OBVIOUS
<1>4. QED BY <1>2, <1>3, ReadSends

LEMMA ConfigMissingGreen ==
    ASSUME SessionInv, NEW o \in Objs, ConfigMissing(o), Deliver, UNCHANGED <<state, unheard>>
    PROVE  SessionInv'
<1> DEFINE ended == [vpn[o] EXCEPT !.proc = "exited"]
           ms == readProcessDataSends(ended, {"Fatal"}, TRUE)
<1>1. IInv'
  BY ConfigMissingStep DEF SessionInv
<1>2. vpn[o].proc # "none" /\ UNCHANGED <<conn, place, owner, ident>>
  BY DEF ConfigMissing
<1>3. place[o] # "free" /\ owner[o] = Me /\ ident[o] = Id /\ conn[Me] = "up"
  BY <1>2, LiveIsMine
<1>4. CASE Listens(o)
  <2>1. /\ Send(owner[o], ident[o], ms)
        /\ vpn' = [vpn EXCEPT ![o] = readProcessData(ended, {"Fatal"}, TRUE)]
    BY <1>4 DEF ConfigMissing
  <2>2. PICK S : ms \in Seq(S)
    BY FatalIsLoud
  <2>3. Loud(ms)
    BY FatalIsLoud
  <2>4. Delivered(ms)
    BY <1>3, <2>1, SendDelivers
  <2> HIDE DEF ms, ended
  <2>5. \A p \in Objs : p # o => vpn'[p] = vpn[p]
    BY <2>1 DEF SessionInv, IInv, Shape
  <2>6. Mine'
    BY <1>2, <1>3, <2>5, MineFrame DEF SessionInv, Mine
  <2>7. Queue'
    BY <2>2, <2>3, <2>4, ServiceQueue DEF SessionInv
  <2>8. QED BY <1>1, <2>6, <2>7 DEF SessionInv
<1>5. CASE ~Listens(o)
  <2>1. vpn' = [vpn EXCEPT ![o] = ended] /\ sent' = Nothing
    BY <1>5 DEF ConfigMissing
  <2>2. /\ vpn'[o].connectionStable = vpn[o].connectionStable
        /\ \A p \in Objs : p # o => vpn'[p] = vpn[p]
    BY <2>1 DEF SessionInv, IInv, Shape, OpenVpnObject
  <2>3. QED BY <1>1, <1>2, <2>1, <2>2, SilentGreen
<1>6. QED BY <1>4, <1>5

LEMMA DeleteGreen ==
    ASSUME SessionInv, NEW o \in Objs, Delete(o), Deliver, UNCHANGED <<state, unheard>>
    PROVE  SessionInv'
<1>1. IInv'
  BY DeleteStep DEF SessionInv
<1>2. /\ place[o] = "doomed" /\ place' = [place EXCEPT ![o] = "free"]
      /\ vpn' = [vpn EXCEPT ![o] = NewOpenVpn] /\ sent' = Nothing /\ conn' = conn
      /\ owner' = [owner EXCEPT ![o] = AnyConn] /\ ident' = [ident EXCEPT ![o] = AnyId]
  BY DEF Delete
<1>3. place'[o] = "free" /\ vpn'[o] = NewOpenVpn
  BY <1>2 DEF SessionInv, IInv, Shape
<1>4. \A p \in Objs : p # o => /\ place'[p] = place[p] /\ vpn'[p] = vpn[p]
                               /\ owner'[p] = owner[p] /\ ident'[p] = ident[p]
  BY <1>2 DEF SessionInv, IInv, Shape
<1>5. Mine'
  BY <1>2, <1>3, <1>4, NewIsObject DEF SessionInv, Mine
<1>6. Stable => Stable'
  BY <1>2, <1>4 DEF Stable, Items
<1>7. Queue'
  BY <1>2, <1>6, NothingDelivers, EmptyIsQuiet, ServiceQueue DEF SessionInv
<1>8. QED BY <1>1, <1>5, <1>7 DEF SessionInv

LEMMA ConnectedGreen ==
    ASSUME SessionInv, NEW c \in Conns, Connected(c), Deliver, UNCHANGED <<state, unheard>>
    PROVE  SessionInv'
<1>1. IInv'
  BY ConnStep DEF SessionInv
<1>2. /\ conn[c] = "new" /\ conn' = [conn EXCEPT ![c] = "up"] /\ sent' = Nothing
      /\ UNCHANGED <<vpn, place, owner, ident>>
  BY DEF Connected
<1>3. conn[Me] = "up" => conn'[Me] = "up"
  BY <1>2, SessionAssumption DEF SessionInv, IInv, Shape
<1>4. Mine'
  BY <1>2, <1>3, MineFrame DEF SessionInv, Mine
<1>5. Stable => Stable'
  BY <1>2, StableFrame
<1>6. Queue'
  BY <1>2, <1>5, NothingDelivers, EmptyIsQuiet, ServiceQueue DEF SessionInv
<1>7. QED BY <1>1, <1>4, <1>6 DEF SessionInv

\* A step in which the service rests and nothing is received.
LEMMA RestGreen ==
    ASSUME SessionInv, ServiceRests, Queue'
    PROVE  SessionInv'
<1>1. UNCHANGED <<conn, vpn, place, owner, ident>>
  BY DEF ServiceRests
<1>2. IInv'
  BY <1>1 DEF SessionInv, IInv, Shape, OneListedPerId, ListedGood
<1>3. Mine'
  BY <1>1, MineFrame DEF SessionInv, Mine
<1>4. QED BY <1>2, <1>3 DEF SessionInv

LEMMA ServiceGreen ==
    ASSUME SessionInv, Service
    PROVE  SessionInv'
<1>1. CASE Serve
  <2>1. PICK m : m = Head(toService)
    OBVIOUS
  <2>2. state' = state
    BY <1>1 DEF Serve, client
  <2>3. CASE OpenAgain(Me, Id) /\ Deliver /\ UNCHANGED unheard
    BY <2>2, <2>3, AskGreen
  <2>4. CASE OpenRejected(Me, Id) /\ Deliver /\ UNCHANGED unheard
    BY <2>2, <2>4, RejectedGreen
  <2>5. CASE (\E outcome \in Outcomes, n \in RemoteLines : OpenNew(Me, Id, outcome, n))
               /\ Deliver /\ UNCHANGED unheard
    BY <2>2, <2>5, OpenNewGreen
  <2>6. CASE CLOSE(Me, Id) /\ Deliver /\ HeardOf
    BY <2>2, <2>6, SessionAssumption, CloseGreen
  <2>7. CASE STATUS(Me, Id) /\ Deliver /\ UNCHANGED unheard
    BY <2>2, <2>7, AskGreen
  <2>8. CASE Answer(Me, Id, m.type) /\ Deliver /\ UNCHANGED unheard
    BY <2>2, <2>8, AnswerGreen
  <2>9. CASE Ignore /\ UNCHANGED unheard
    <3>1. ServiceRests /\ UNCHANGED <<toClient, state, unheard>>
      BY <2>2, <2>9 DEF Ignore
    <3>2. Stable => Stable'
      BY <3>1, StableFrame DEF ServiceRests
    <3>3. Queue'
      BY <3>1, <3>2 DEF SessionInv, Queue
    <3>4. QED BY <3>1, <3>3, RestGreen
  <2>10. QED
    BY <1>1, <2>1, <2>3, <2>4, <2>5, <2>6, <2>7, <2>8, <2>9 DEF Serve
<1>2. CASE /\ (\E o \in Objs : Speaks(o) \/ Ends(o) \/ Runs(o)) \/ Others
           /\ Deliver
           /\ UNCHANGED <<client, toService, autoSent>>
  <2>1. state' = state /\ Deliver
    BY <1>2 DEF client
  <2>2. ASSUME NEW o \in Objs, Speaks(o) PROVE SessionInv'
    BY <2>1, <2>2, SpeaksGreen
  <2>3. ASSUME NEW o \in Objs, Ends(o) PROVE SessionInv'
    BY <2>1, <2>3, EndsGreen
  <2>4. ASSUME NEW o \in Objs, Runs(o) PROVE SessionInv'
    <3>1. UNCHANGED unheard
      BY <2>4 DEF Runs
    <3>2. CASE ReadsConfig(o) \/ \E how \in {"exited", "crashed"} : ProcExit(o, how)
      BY <2>1, <3>1, <3>2, ProcGreen
    <3>3. CASE ConfigMissing(o)
      BY <2>1, <3>1, <3>3, ConfigMissingGreen
    <3>4. CASE Delete(o)
      BY <2>1, <3>1, <3>4, DeleteGreen
    <3>5. QED BY <2>4, <3>2, <3>3, <3>4 DEF Runs
  <2>5. ASSUME Others PROVE SessionInv'
    <3>1. CASE (\E c \in Conns : Connected(c)) /\ UNCHANGED unheard
      BY <2>1, <3>1, ConnectedGreen
    <3>2. CASE (\E c \in Conns : CliCLOSE(c, Me, Id)) /\ HeardOf
      BY <2>1, <3>2, CloseGreen
    <3>3. QED BY <2>5, <3>1, <3>2 DEF Others
  <2>6. QED BY <1>2, <2>2, <2>3, <2>4, <2>5
<1>3. QED BY <1>1, <1>2 DEF Service

-----------------------------------------------------------------------------
\* The client.

\* A new value is saved: the marks of its type go.
Remarked(kept) ==
    toClient' = [k \in DOMAIN toClient |-> Marked(toClient[k], toClient[k].bad \ kept)]

LEMMA RemarkedQueue ==
    ASSUME Queue, NEW kept, Remarked(kept)
    PROVE  /\ \E S : toClient' \in Seq(S)
           /\ Len(toClient') = Len(toClient)
           /\ \A k \in 1 .. Len(toClient) :
                 /\ toClient'[k] = Marked(toClient[k], toClient[k].bad \ kept)
                 /\ (Sets(toClient'[k]) <=> Sets(toClient[k]))
                 /\ (Greens(toClient'[k]) <=> Greens(toClient[k]))
<1>1. PICK T : toClient \in Seq(T)
  BY DEF Queue
<1>2. Len(toClient) \in Nat /\ DOMAIN toClient = 1 .. Len(toClient)
  BY <1>1
<1> DEFINE new == [k \in 1 .. Len(toClient) |-> Marked(toClient[k], toClient[k].bad \ kept)]
           M == {new[k] : k \in 1 .. Len(toClient)}
<1>3. toClient' = new
  BY <1>2 DEF Remarked
<1>4. \A k \in 1 .. Len(toClient) : new[k] = Marked(toClient[k], toClient[k].bad \ kept) /\ new[k] \in M
  OBVIOUS
<1>5. new = [k \in 1 .. Len(toClient) |-> Marked(toClient[k], toClient[k].bad \ kept)]
  OBVIOUS
<1>6. \A k \in 1 .. Len(toClient) : Marked(toClient[k], toClient[k].bad \ kept) \in M
  BY <1>4
<1> HIDE DEF new, M
<1>7. new \in Seq(M) /\ Len(new) = Len(toClient)
  BY <1>2, <1>5, <1>6
<1>8. \A k \in 1 .. Len(toClient) : (Sets(new[k]) <=> Sets(toClient[k])) /\ (Greens(new[k]) <=> Greens(toClient[k]))
  <2> TAKE k \in 1 .. Len(toClient)
  <2>1. PICK m, bad : m = toClient[k] /\ bad = toClient[k].bad \ kept
    OBVIOUS
  <2>2. new[k] = Marked(m, bad)
    BY <1>4, <2>1
  <2>3. (Sets(Marked(m, bad)) <=> Sets(m)) /\ (Greens(Marked(m, bad)) <=> Greens(m))
    BY MarkedSets
  <2> QED BY <2>1, <2>2, <2>3
<1> QED BY <1>3, <1>4, <1>7, <1>8

\* What the user does makes no entry Connected.
LEMMA UserGreen ==
    ASSUME SessionInv, ServiceRests,
           \/ connectionButtonClicked \/ scriptStarted \/ Suspend \/ ContextRemoveOther
           \/ \E save \in BOOLEAN : on_cmdOK_clicked(save)
           \/ closeEvent \/ on_cmdRemoveCreds_clicked
    PROVE  SessionInv'
<1>1. unheard' = unheard
  BY DEF connectionButtonClicked, scriptStarted, Suspend, ContextRemoveOther, on_cmdOK_clicked,
         closeEvent, on_cmdRemoveCreds_clicked
<1>2. state' \in {state, "Connecting", "Disconnecting"}
  <2>1. CASE connectionButtonClicked
    BY <2>1 DEF connectionButtonClicked, ConnectEntry, DisconnectEntry, SetState
  <2>2. CASE scriptStarted
    BY <2>2 DEF scriptStarted, SetState
  <2>3. CASE Suspend \/ ContextRemoveOther
    BY <2>3 DEF Suspend, ContextRemoveOther, SameEntry
  <2>4. CASE (\E save \in BOOLEAN : on_cmdOK_clicked(save)) \/ closeEvent \/ on_cmdRemoveCreds_clicked
    BY <2>4 DEF on_cmdOK_clicked, closeEvent, on_cmdRemoveCreds_clicked
  <2>5. QED BY <2>1, <2>2, <2>3, <2>4
<1>3. WillShow(state', toClient) => WillShow(state, toClient)
  BY <1>2 DEF WillShow
<1>4. Stable => Stable'
  BY StableFrame DEF ServiceRests
<1>5. (\E S : toClient' \in Seq(S)) /\ (WillShow(state', toClient') => WillShow(state', toClient))
  <2>1. CASE toClient' = toClient
    BY <2>1 DEF SessionInv, Queue
  <2>2. ASSUME NEW save \in BOOLEAN, on_cmdOK_clicked(save)
        PROVE  (\E S : toClient' \in Seq(S)) /\ (WillShow(state', toClient') => WillShow(state', toClient))
    <3>1. PICK kept : Remarked(kept)
      BY <2>2 DEF on_cmdOK_clicked, Remarked
    <3>2. /\ \E S : toClient' \in Seq(S)
          /\ Len(toClient') = Len(toClient)
          /\ \A k \in 1 .. Len(toClient) :
                (Sets(toClient'[k]) <=> Sets(toClient[k])) /\ (Greens(toClient'[k]) <=> Greens(toClient[k]))
      BY <3>1, RemarkedQueue DEF SessionInv
    <3> QED BY <3>2, SameShown
  <2>3. toClient' = toClient \/ \E save \in BOOLEAN : on_cmdOK_clicked(save)
    BY DEF connectionButtonClicked, scriptStarted, Suspend, ContextRemoveOther, closeEvent,
           on_cmdRemoveCreds_clicked
  <2> QED BY <2>1, <2>2, <2>3
<1>6. Queue'
  BY <1>1, <1>3, <1>4, <1>5 DEF SessionInv, Queue
<1> QED BY <1>6, RestGreen

\* Only the messages that Greens names make it Connected.
LEMMA ReceiveGreen ==
    ASSUME SessionInv, ServiceRests, Receive
    PROVE  SessionInv'
<1>1. PICK m : m = Head(toClient)
  OBVIOUS
<1>2. toClient # << >> /\ toClient' = Tail(toClient) /\ unheard' = unheard
  BY DEF Receive
<1>3. PICK S : toClient \in Seq(S)
  BY DEF SessionInv, Queue
<1>4. IF Sets(m) THEN state' = "Connected" => Greens(m) ELSE state' = state
  <2>1. CASE m.cmd = "DISCONNECTED" /\ setDisconnected
    BY <2>1 DEF setDisconnected, SameState, SetState, Sets
  <2>2. CASE m.cmd = "ERROR" /\ setError
    BY <2>2 DEF setError, SetState, Sets
  <2>3. CASE m.cmd = "RECEIVEDIP"
    BY <2>3 DEF Sets, Greens
  <2>4. CASE m.cmd = "RESTART" /\ receivedReconnect
    BY <2>4 DEF receivedReconnect, SetState, Sets
  <2>5. CASE m.cmd = "STATUS" /\ receivedStatus(m)
    <3>1. state' = IF m.connecting THEN "Connecting"
                   ELSE IF m.connected THEN "Connected" ELSE "Disconnected"
      BY <2>5 DEF receivedStatus, SetState
    <3>2. QED BY <2>5, <3>1 DEF Sets, Greens
  <2>6. CASE m.cmd = "INPUT" /\ SameState
    BY <2>6 DEF SameState, Sets
  <2>7. CASE m.cmd = "REMOVE_USER_DATA" /\ SameState
    BY <2>7 DEF SameState, Sets
  <2>8. CASE m.cmd = "TAPINSTALL" /\ receivedTapControl
    BY <2>8 DEF receivedTapControl, SameState, Sets
  <2>9. QED
    BY <1>1, <2>1, <2>2, <2>3, <2>4, <2>5, <2>6, <2>7, <2>8 DEF Receive
<1>5. WillShow(state', toClient') => WillShow(state, toClient)
  BY <1>1, <1>2, <1>3, <1>4, ReadFirst
<1>6. toClient' \in Seq(S)
  BY <1>2, <1>3
<1>7. Stable => Stable'
  BY StableFrame DEF ServiceRests
<1>8. Queue'
  BY <1>2, <1>5, <1>6, <1>7 DEF SessionInv, Queue
<1>9. QED BY <1>8, RestGreen

LEMMA InitSessionInv == SessionInit => SessionInv
<1> SUFFICES ASSUME SessionInit PROVE SessionInv
  OBVIOUS
<1>1. Init /\ state = "Disconnected" /\ toClient = << >>
  BY DEF SessionInit
<1>2. IInv
  BY <1>1, InitIInv
<1>3. Mine
  BY <1>1, NewIsObject DEF Init, Mine
<1>4. ~WillShow(state, toClient) /\ toClient \in Seq({})
  BY <1>1 DEF WillShow
<1>5. QED BY <1>2, <1>3, <1>4 DEF SessionInv, Queue

LEMMA NextSessionInv == SessionInv /\ [SessionNext]_allVars => SessionInv'
<1> SUFFICES ASSUME SessionInv, [SessionNext]_allVars PROVE SessionInv'
  OBVIOUS
<1>1. CASE Client
  BY <1>1, UserGreen, ReceiveGreen DEF Client
<1>2. CASE Service
  BY <1>2, ServiceGreen
<1>3. CASE UNCHANGED allVars
  <2>1. UNCHANGED <<conn, vpn, place, owner, ident, toClient, state, unheard>>
    BY <1>3 DEF allVars, vars, client
  <2>2. IInv'
    BY <2>1 DEF SessionInv, IInv, Shape, OneListedPerId, ListedGood
  <2>3. Mine'
    BY <2>1, MineFrame DEF SessionInv, Mine
  <2>4. Stable => Stable'
    BY <2>1, StableFrame
  <2>5. Queue'
    BY <2>1, <2>4 DEF SessionInv, Queue
  <2>6. QED BY <2>2, <2>3, <2>5 DEF SessionInv
<1>4. QED BY <1>1, <1>2, <1>3 DEF SessionNext

-----------------------------------------------------------------------------
\* Refused credentials.

Prompts(m) == m.cmd \in {"INPUT", "STATUS"}
Clears(m) == m.cmd = "REMOVE_USER_DATA"
ClearedBefore(q, k) == \E j \in 1 .. Len(q) : j < k /\ Clears(q[j])

\* A value that was refused and is still saved will be removed by a message
\* that is under way, in front of every prompt that came after the refusal.
Guarded(q, ref, sv) ==
    /\ ref \cap sv # {} => ClearedBefore(q, Len(q) + 1)
    /\ \A k \in 1 .. Len(q) : Prompts(q[k]) /\ q[k].bad \cap sv # {} => ClearedBefore(q, k)

RefusedInv ==
    /\ saved \subseteq Savable
    /\ \E S : toService \in Seq(S)
    /\ Guarded(toClient, refused, saved)

LEMMA GuardedAppend ==
    ASSUME NEW T, NEW q \in Seq(T), NEW ms \in Seq(T), NEW ref, NEW sv, Guarded(q, ref, sv),
           \A k \in 1 .. Len(ms) : Prompts(ms[k]) => ms[k].bad = ref,
           NEW after, after = ref \/ \E k \in 1 .. Len(ms) : Clears(ms[k])
    PROVE  Guarded(q \o ms, after, sv)
<1> DEFINE all == q \o ms
<1>1. /\ Len(q) \in Nat /\ Len(ms) \in Nat /\ Len(all) = Len(q) + Len(ms)
      /\ \A k \in 1 .. Len(q) : all[k] = q[k]
      /\ \A k \in 1 .. Len(ms) : all[Len(q) + k] = ms[k]
  OBVIOUS
<1> HIDE DEF all
<1>2. \A k \in Nat : ClearedBefore(q, k) => ClearedBefore(all, k)
  BY <1>1 DEF ClearedBefore
<1>3. ref \cap sv # {} => \A k \in 1 .. Len(ms) + 1 : ClearedBefore(all, Len(q) + k)
  <2> SUFFICES ASSUME ref \cap sv # {}, NEW k \in 1 .. Len(ms) + 1
               PROVE  ClearedBefore(all, Len(q) + k)
    OBVIOUS
  <2>1. PICK j \in 1 .. Len(q) : Clears(q[j])
    BY DEF Guarded, ClearedBefore
  <2>2. j \in 1 .. Len(all) /\ j < Len(q) + k /\ Clears(all[j])
    BY <1>1, <2>1
  <2> QED BY <2>2 DEF ClearedBefore
<1>4. after \cap sv # {} => ClearedBefore(all, Len(all) + 1)
  <2>1. CASE after = ref
    <3>1. Len(ms) + 1 \in 1 .. Len(ms) + 1 /\ Len(q) + (Len(ms) + 1) = Len(all) + 1
      BY <1>1
    <3> QED BY <1>3, <2>1, <3>1
  <2>2. ASSUME NEW k \in 1 .. Len(ms), Clears(ms[k]) PROVE ClearedBefore(all, Len(all) + 1)
    <3>1. Len(q) + k \in 1 .. Len(all) /\ Len(q) + k < Len(all) + 1 /\ Clears(all[Len(q) + k])
      BY <1>1, <2>2
    <3> QED BY <3>1 DEF ClearedBefore
  <2> QED BY <2>1, <2>2
<1>5. ASSUME NEW k \in 1 .. Len(all), Prompts(all[k]), all[k].bad \cap sv # {}
      PROVE  ClearedBefore(all, k)
  <2>1. CASE k \in 1 .. Len(q)
    BY <1>1, <1>2, <1>5, <2>1 DEF Guarded
  <2>2. CASE k \notin 1 .. Len(q)
    <3>1. PICK j \in 1 .. Len(ms) : k = Len(q) + j
      <4>1. k - Len(q) \in 1 .. Len(ms) /\ k = Len(q) + (k - Len(q))
        BY <1>1, <2>2
      <4> QED BY <4>1
    <3>2. all[k] = ms[j]
      BY <1>1, <3>1
    <3>3. ref \cap sv # {}
      BY <1>5, <3>2
    <3>4. j \in 1 .. Len(ms) + 1
      BY <1>1
    <3> QED BY <1>3, <3>1, <3>3, <3>4
  <2> QED BY <2>1, <2>2
<1> QED BY <1>4, <1>5 DEF Guarded, all

LEMMA GuardedTail ==
    ASSUME NEW T, NEW q \in Seq(T), q # << >>, NEW ref, NEW sv, Guarded(q, ref, sv), ~Clears(Head(q))
    PROVE  Guarded(Tail(q), ref, sv)
<1> DEFINE t == Tail(q)
<1>1. /\ Len(q) \in Nat /\ Len(q) > 0 /\ Len(t) = Len(q) - 1 /\ Head(q) = q[1]
      /\ \A k \in 1 .. Len(q) - 1 : t[k] = q[k + 1]
  OBVIOUS
<1> HIDE DEF t
<1>2. ASSUME NEW k \in Nat, ClearedBefore(q, k + 1) PROVE ClearedBefore(t, k)
  <2>1. PICK j \in 1 .. Len(q) : j < k + 1 /\ Clears(q[j])
    BY <1>2 DEF ClearedBefore
  <2>2. j # 1
    BY <1>1, <2>1
  <2>3. j - 1 \in 1 .. Len(t) /\ j - 1 < k /\ t[j - 1] = q[j]
    <3>1. j - 1 \in 1 .. Len(q) - 1 /\ (j - 1) + 1 = j
      BY <1>1, <2>1, <2>2
    <3> QED BY <1>1, <2>1, <3>1
  <2> QED BY <2>1, <2>3 DEF ClearedBefore
<1>3. ref \cap sv # {} => ClearedBefore(t, Len(t) + 1)
  <2>1. Len(t) + 1 \in Nat /\ (Len(t) + 1) + 1 = Len(q) + 1
    BY <1>1
  <2> QED BY <1>2, <2>1 DEF Guarded
<1>4. ASSUME NEW k \in 1 .. Len(t), Prompts(t[k]), t[k].bad \cap sv # {} PROVE ClearedBefore(t, k)
  <2>1. k \in Nat /\ k + 1 \in 1 .. Len(q) /\ t[k] = q[k + 1]
    BY <1>1
  <2>2. ClearedBefore(q, k + 1)
    BY <1>4, <2>1 DEF Guarded
  <2> QED BY <1>2, <2>1, <2>2
<1> QED BY <1>3, <1>4 DEF Guarded, t

LEMMA NoneSaved == ASSUME NEW q, NEW ref PROVE Guarded(q, ref, {})
BY DEF Guarded

\* What is delivered is marked with what is refused.
LEMMA DeliverGuarded ==
    ASSUME Queue, Guarded(toClient, refused, saved), NEW S, NEW ms \in Seq(S), Delivered(ms),
           refused' = refused \/ \E k \in 1 .. Len(ms) : Clears(ms[k])
    PROVE  Guarded(toClient', refused', saved)
<1>1. PICK T : toClient \in Seq(T)
  BY DEF Queue
<1>2. Len(ms) \in Nat /\ DOMAIN ms = 1 .. Len(ms)
  OBVIOUS
<1>3. CASE ms = << >>
  <2>1. toClient' = toClient /\ refused' = refused
    BY <1>3 DEF Delivered
  <2> QED BY <2>1
<1>4. CASE ms # << >>
  <2> DEFINE mark == [k \in 1 .. Len(ms) |-> Marked(ms[k], refused)]
             M == T \cup {Marked(ms[k], refused) : k \in 1 .. Len(ms)}
  <2>1. toClient' = toClient \o mark
    BY <1>2, <1>4 DEF Delivered
  <2>2. \A k \in 1 .. Len(ms) : Marked(ms[k], refused) \in M
    OBVIOUS
  <2>3. toClient \in Seq(M)
    BY <1>1
  <2>4. \A k \in 1 .. Len(ms) : mark[k] = Marked(ms[k], refused)
    OBVIOUS
  <2> HIDE DEF M
  <2>5. mark \in Seq(M) /\ Len(mark) = Len(ms)
    BY <1>2, <2>2
  <2> HIDE DEF mark
  <2>6. \A k \in 1 .. Len(ms) : /\ Prompts(mark[k]) => mark[k].bad = refused
                                /\ Clears(ms[k]) => Clears(mark[k])
    BY <2>4, MarkedSets DEF Prompts, Clears
  <2>7. refused' = refused \/ \E k \in 1 .. Len(mark) : Clears(mark[k])
    BY <2>5, <2>6
  <2> QED BY <2>1, <2>3, <2>5, <2>6, <2>7, GuardedAppend
<1> QED BY <1>3, <1>4

\* Every step of the service sends a sequence of messages.
SendsSome == \E S : sent'.msgs \in Seq(S)

LEMMA SendIsSome == ASSUME NEW S, NEW c, NEW i, NEW ms \in Seq(S), Send(c, i, ms) PROVE SendsSome
<1>1. sent'.msgs = ms \/ sent'.msgs = << >>
  BY DEF Send, Nothing
<1>2. << >> \in Seq(S)
  OBVIOUS
<1> QED BY <1>1, <1>2 DEF SendsSome

LEMMA NothingIsSome == ASSUME sent' = Nothing PROVE SendsSome
<1>1. sent'.msgs = << >> /\ << >> \in Seq({})
  BY DEF Nothing
<1> QED BY <1>1 DEF SendsSome

LEMMA WhenSeq == ASSUME NEW cond, NEW m PROVE When(cond, m) \in Seq({m})
<1>1. CASE cond
  BY <1>1 DEF When
<1>2. CASE ~cond
  BY <1>2 DEF When
<1> QED BY <1>1, <1>2

LEMMA CommandSends ==
    ASSUME NEW c, NEW i,
           \/ OpenAgain(c, i) \/ OpenRejected(c, i) \/ STATUS(c, i)
           \/ \E outcome \in Outcomes, n \in RemoteLines : OpenNew(c, i, outcome, n)
           \/ CLOSE(c, i) \/ \E d : CliCLOSE(d, c, i)
           \/ \E type : Answer(c, i, type)
    PROVE  SendsSome
<1>1. ASSUME NEW m, Send(c, i, <<m>>) PROVE SendsSome
  <2>1. <<m>> \in Seq({m})
    OBVIOUS
  <2> QED BY <1>1, <2>1, SendIsSome
<1>2. CASE OpenAgain(c, i) \/ OpenRejected(c, i) \/ STATUS(c, i)
  BY <1>1, <1>2 DEF OpenAgain, OpenRejected, STATUS
<1>3. ASSUME NEW outcome \in Outcomes, NEW n \in RemoteLines, OpenNew(c, i, outcome, n) PROVE SendsSome
  BY <1>3, SendIsSome, WhenSeq DEF OpenNew, connectToVpnSends
<1>4. ASSUME NEW o, NEW ok, Disconnect(o, ok) PROVE SendsSome
  BY <1>4, SendIsSome, WhenSeq DEF Disconnect
<1>5. CASE CLOSE(c, i) \/ \E d : CliCLOSE(d, c, i)
  BY <1>4, <1>5 DEF CLOSE, CliCLOSE
<1>6. ASSUME NEW type, Answer(c, i, type) PROVE SendsSome
  BY <1>6, NothingIsSome DEF Answer
<1> QED BY <1>2, <1>3, <1>5, <1>6

LEMMA ProcessSends ==
    ASSUME NEW o \in Objs,
           \/ Ends(o) \/ Runs(o) \/ \E c \in Conns : Connected(c)
    PROVE  SendsSome
<1>1. CASE Ends(o)
  BY <1>1, SendIsSome, WhenSeq DEF Ends, Finished, processFinishedSends
<1>2. CASE ReadsConfig(o) \/ Delete(o) \/ (\E how \in {"exited", "crashed"} : ProcExit(o, how))
             \/ \E c \in Conns : Connected(c)
  BY <1>2, NothingIsSome DEF ReadsConfig, Delete, ProcExit, Connected
<1>3. CASE ConfigMissing(o)
  <2>1. PICK r : \/ Send(owner[o], ident[o], readProcessDataSends(r, {"Fatal"}, TRUE))
                 \/ sent' = Nothing
    BY <1>3 DEF ConfigMissing
  <2>2. PICK S : readProcessDataSends(r, {"Fatal"}, TRUE) \in Seq(S)
    BY ReadSends
  <2> QED BY <2>1, <2>2, SendIsSome, NothingIsSome
<1> QED BY <1>1, <1>2, <1>3 DEF Runs

\* A step of the service that refuses nothing.
LEMMA SomeGuarded ==
    ASSUME Queue, RefusedInv, SendsSome, Deliver, refused' = refused
    PROVE  Guarded(toClient', refused', saved)
<1>1. PICK S : sent'.msgs \in Seq(S)
  BY DEF SendsSome
<1>2. CASE sent'.msgs # << >> /\ sent'.to = Me
  <2>1. Delivered(sent'.msgs)
    BY <1>2 DEF Deliver, Delivered
  <2> QED BY <1>1, <2>1, DeliverGuarded DEF RefusedInv
<1>3. CASE ~(sent'.msgs # << >> /\ sent'.to = Me)
  <2>1. toClient' = toClient
    BY <1>3 DEF Deliver
  <2> QED BY <2>1 DEF RefusedInv
<1> QED BY <1>2, <1>3

\* AUTH_FAILED: what was sent is refused, and REMOVE_USER_DATA goes out.
LEMMA SpeaksGuarded ==
    ASSUME SessionInv, RefusedInv, NEW o \in Objs, Speaks(o), Deliver
    PROVE  Guarded(toClient', refused', saved)
<1>1. PICK chunk \in Chunks, ok \in EventResults :
        /\ Output(o, chunk, ok)
        /\ refused' = IF Plain("REMOVE_USER_DATA") \in
                           Range(readProcessDataSends(vpn[o], chunk, ok))
                      THEN autoSent ELSE refused
  BY DEF Speaks
<1>2. ok \in BOOLEAN
  BY ServiceAssumption
<1> DEFINE ms == readProcessDataSends(vpn[o], chunk, ok)
<1>3. vpn[o].proc = "running" /\ Send(owner[o], ident[o], ms)
  BY <1>1 DEF Output
<1>4. owner[o] = Me /\ conn[Me] = "up"
  BY <1>3, LiveIsMine
<1>5. Delivered(ms)
  BY <1>1, <1>3, <1>4, SendDelivers
<1>6. PICK S : ms \in Seq(S)
  BY <1>2, ReadSends
<1> HIDE DEF ms
<1>7. refused' = refused \/ \E k \in 1 .. Len(ms) : Clears(ms[k])
  <2>1. CASE Plain("REMOVE_USER_DATA") \in Range(ms)
    <3>1. PICK k \in DOMAIN ms : ms[k] = Plain("REMOVE_USER_DATA")
      BY <2>1 DEF Range
    <3>2. k \in 1 .. Len(ms) /\ Clears(ms[k])
      BY <1>6, <3>1 DEF Clears, Plain
    <3> QED BY <3>2
  <2>2. CASE Plain("REMOVE_USER_DATA") \notin Range(ms)
    BY <1>1, <2>2 DEF ms
  <2> QED BY <2>1, <2>2
<1> QED BY <1>5, <1>6, <1>7, DeliverGuarded DEF SessionInv, RefusedInv

LEMMA ServiceRefused ==
    ASSUME SessionInv, RefusedInv, Service
    PROVE  RefusedInv'
<1>1. saved' = saved
  BY DEF Service, Serve, client
<1>2. \E S : toService' \in Seq(S)
  <2>1. PICK S : toService \in Seq(S)
    BY DEF RefusedInv
  <2>2. CASE toService # << >> /\ toService' = Tail(toService)
    BY <2>1, <2>2
  <2>3. CASE toService' = toService
    BY <2>1, <2>3
  <2> QED BY <2>2, <2>3 DEF Service, Serve
<1>3. CASE Serve
  <2>1. refused' = refused
    BY <1>3 DEF Serve
  <2>2. ASSUME Ignore PROVE Guarded(toClient', refused', saved)
    <3>1. toClient' = toClient
      BY <2>2 DEF Ignore
    <3> QED BY <2>1, <3>1 DEF RefusedInv
  <2>3. ASSUME Deliver, SendsSome PROVE Guarded(toClient', refused', saved)
    BY <2>1, <2>3, SomeGuarded DEF SessionInv
  <2>4. PICK m : m = Head(toService)
    OBVIOUS
  <2>5. \/ Ignore
        \/ Deliver /\ \/ OpenAgain(Me, Id) \/ OpenRejected(Me, Id) \/ STATUS(Me, Id)
                      \/ \E outcome \in Outcomes, n \in RemoteLines : OpenNew(Me, Id, outcome, n)
                      \/ CLOSE(Me, Id)
                      \/ Answer(Me, Id, m.type)
    BY <1>3, <2>4 DEF Serve
  <2>6. Ignore \/ (Deliver /\ SendsSome)
    BY <2>5, CommandSends
  <2>7. Guarded(toClient', refused', saved)
    BY <2>2, <2>3, <2>6
  <2> QED BY <1>1, <1>2, <2>7 DEF RefusedInv
<1>4. CASE Deliver /\ \E o \in Objs : Speaks(o)
  BY <1>1, <1>2, <1>4, SpeaksGuarded DEF RefusedInv
<1>5. CASE Deliver /\ (Others \/ \E o \in Objs : Ends(o) \/ Runs(o))
  <2>1. refused' = refused
    BY <1>5 DEF Others, Ends, Runs
  <2>2. SendsSome
    <3>1. CASE \E o \in Objs : Ends(o) \/ Runs(o)
      BY <3>1, ProcessSends
    <3>2. CASE Others
      <4>1. CASE \E c \in Conns : Connected(c)
        BY <4>1, NothingIsSome DEF Connected
      <4>2. CASE \E c \in Conns : CliCLOSE(c, Me, Id)
        BY <4>2, CommandSends
      <4> QED BY <3>2, <4>1, <4>2 DEF Others
    <3> QED BY <1>5, <3>1, <3>2
  <2>3. Guarded(toClient', refused', saved)
    BY <1>5, <2>1, <2>2, SomeGuarded DEF SessionInv
  <2> QED BY <1>1, <1>2, <2>3 DEF RefusedInv
<1> QED BY <1>3, <1>4, <1>5 DEF Service

\* What the client sends in a step; a saved value only if there is one.
Appends ==
    \E S : \E ms \in Seq(S) :
       /\ toService' = toService \o ms
       /\ \A type : ms = <<AnswerOf(type, "saved")>> => type \in saved

LEMMA AppendsNone == ASSUME RefusedInv, toService' = toService PROVE Appends
<1>1. toService = toService \o << >> /\ << >> \in Seq({})
  BY DEF RefusedInv
<1>2. \A x : << >> # <<x>>
  OBVIOUS
<1> QED BY <1>1, <1>2 DEF Appends

LEMMA AppendsCommand ==
    ASSUME NEW cmd, cmd # "ANSWER", ClientSends(<<Command1(cmd)>>)
    PROVE  Appends
<1>1. <<Command1(cmd)>> \in Seq({Command1(cmd)})
  OBVIOUS
<1>2. \A type : Command1(cmd) # AnswerOf(type, "saved")
  <2> TAKE type
  <2>1. Command1(cmd).cmd = cmd /\ AnswerOf(type, "saved").cmd = "ANSWER"
    BY DEF Command1, AnswerOf
  <2> QED BY <2>1
<1>3. \A type : <<Command1(cmd)>> # <<AnswerOf(type, "saved")>>
  BY <1>2
<1> QED BY <1>1, <1>3 DEF Appends, ClientSends

LEMMA AppendsAnswer ==
    ASSUME NEW type, NEW by, by = "saved" => type \in saved, ClientSends(<<AnswerOf(type, by)>>)
    PROVE  Appends
<1>1. <<AnswerOf(type, by)>> \in Seq({AnswerOf(type, by)})
  OBVIOUS
<1>2. ASSUME NEW t, <<AnswerOf(type, by)>> = <<AnswerOf(t, "saved")>> PROVE t \in saved
  <2>1. AnswerOf(type, by) = AnswerOf(t, "saved")
    BY <1>2
  <2>2. AnswerOf(type, by).type = type /\ AnswerOf(type, by).by = by
        /\ AnswerOf(t, "saved").type = t /\ AnswerOf(t, "saved").by = "saved"
    BY DEF AnswerOf
  <2> QED BY <2>1, <2>2
<1> QED BY <1>1, <1>2 DEF Appends, ClientSends

LEMMA InputAppends == ASSUME RefusedInv, NEW type, userInputIsNeeded(type) PROVE Appends
<1>1. CASE ClientSends(<<AnswerOf(type, "start")>>)
  BY <1>1, AppendsAnswer
<1>2. CASE HasCrediantials(type) /\ ClientSends(<<getSavedUserData(type)>>)
  BY <1>2, AppendsAnswer DEF HasCrediantials, getSavedUserData
<1>3. CASE toService' = toService
  BY <1>3, AppendsNone
<1> QED BY <1>1, <1>2, <1>3 DEF userInputIsNeeded

LEMMA ClientAppends == ASSUME RefusedInv, Client PROVE Appends
<1>1. CASE connectionButtonClicked
  <2>1. toService' = toService \/ ClientSends(<<Command1("CLOSE")>>)
    BY <1>1 DEF connectionButtonClicked, ConnectEntry, DisconnectEntry
  <2> QED BY <2>1, AppendsNone, AppendsCommand
<1>2. CASE scriptStarted
  <2>1. ClientSends(<<Command1("OPEN")>>) \/ ClientSends(<<Command1("CLOSE")>>)
    BY <1>2 DEF scriptStarted
  <2> QED BY <2>1, AppendsCommand
<1>3. CASE Suspend
  BY <1>3, AppendsCommand DEF Suspend
<1>4. CASE ContextRemoveOther
  BY <1>4, AppendsCommand DEF ContextRemoveOther
<1>5. CASE Receive
  <2>1. PICK m : m = Head(toClient)
    OBVIOUS
  <2>2. CASE SameInput \/ (removeUserData /\ UNCHANGED <<dialogs, toService>>)
    BY <2>2, AppendsNone DEF SameInput
  <2>3. CASE receivedStatus(m)
    BY <2>3, InputAppends, AppendsNone DEF receivedStatus, SameInput
  <2>4. CASE userInputIsNeeded(m.type)
    BY <2>4, InputAppends
  <2>5. CASE receivedTapControl
    BY <2>5, AppendsCommand, AppendsNone DEF receivedTapControl
  <2> QED BY <1>5, <2>1, <2>2, <2>3, <2>4, <2>5 DEF Receive
<1>6. ASSUME NEW save \in BOOLEAN, on_cmdOK_clicked(save) PROVE Appends
  <2>1. PICK type : ClientSends(<<AnswerOf(type, "user")>>)
    BY <1>6 DEF on_cmdOK_clicked
  <2> QED BY <2>1, AppendsAnswer
<1>7. CASE closeEvent
  <2>1. PICK a, b : toService' = toService \o <<a, b>>
    BY <1>7 DEF closeEvent, ClientSends
  <2>2. <<a, b>> \in Seq({a, b}) /\ \A x : <<a, b>> # <<x>>
    OBVIOUS
  <2> QED BY <2>1, <2>2 DEF Appends
<1>8. CASE on_cmdRemoveCreds_clicked
  BY <1>8, AppendsNone DEF on_cmdRemoveCreds_clicked
<1> QED BY <1>1, <1>2, <1>3, <1>4, <1>5, <1>6, <1>7, <1>8 DEF Client

LEMMA SavableTypes == ASSUME saved \subseteq Savable, saved' = saved \ (0 .. 6) PROVE saved' = {}
BY DEF Savable

LEMMA ReceiveGuarded ==
    ASSUME SessionInv, RefusedInv, Receive
    PROVE  saved' \subseteq Savable /\ Guarded(toClient', refused', saved')
<1>1. PICK m : m = Head(toClient)
  OBVIOUS
<1>2. toClient # << >> /\ toClient' = Tail(toClient)
  BY DEF Receive
<1>3. PICK T : toClient \in Seq(T)
  BY DEF SessionInv, Queue
<1>4. CASE Clears(m)
  <2>1. removeUserData
    BY <1>1, <1>4 DEF Receive, Clears
  <2>2. saved' = {}
    BY <2>1, SavableTypes DEF removeUserData, RefusedInv
  <2> QED BY <2>2, NoneSaved
<1>5. CASE ~Clears(m)
  <2>1. saved' = saved /\ refused' = refused
    <3>1. \/ m.cmd # "STATUS" /\ m.cmd # "INPUT" /\ m.cmd # "TAPINSTALL" /\ SameInput /\ UNCHANGED refused
          \/ receivedStatus(m) /\ UNCHANGED refused
          \/ userInputIsNeeded(m.type) /\ UNCHANGED refused
          \/ receivedTapControl /\ UNCHANGED refused
      BY <1>1, <1>5 DEF Receive, Clears
    <3> QED BY <3>1 DEF SameInput, receivedStatus, userInputIsNeeded, receivedTapControl
  <2>2. Guarded(Tail(toClient), refused, saved)
    BY <1>1, <1>2, <1>3, <1>5, GuardedTail DEF RefusedInv
  <2> QED BY <1>2, <2>1, <2>2 DEF RefusedInv
<1> QED BY <1>4, <1>5

\* A new value was not refused.
LEMMA SavedGuarded ==
    ASSUME SessionInv, RefusedInv, NEW save \in BOOLEAN, on_cmdOK_clicked(save)
    PROVE  saved' \subseteq Savable /\ Guarded(toClient', refused', saved')
<1>1. PICK type : type = Last(dialogs)
  OBVIOUS
<1>2. PICK kept : kept = IF save /\ type \in Savable THEN {type} ELSE {}
  OBVIOUS
<1>3. /\ saved' = saved \cup (IF save THEN {type} \cap Savable ELSE {})
      /\ refused' = refused \ kept /\ Remarked(kept)
  BY <1>1, <1>2 DEF on_cmdOK_clicked, saveUserData, Remarked
<1>4. saved' = saved \cup kept
  BY <1>2, <1>3
<1>5. saved' \subseteq Savable
  BY <1>2, <1>4 DEF RefusedInv
<1>6. /\ Len(toClient') = Len(toClient)
      /\ \A k \in 1 .. Len(toClient) : toClient'[k] = Marked(toClient[k], toClient[k].bad \ kept)
  BY <1>3, RemarkedQueue DEF SessionInv
<1>7. ASSUME NEW k \in 1 .. Len(toClient)
      PROVE  /\ Clears(toClient'[k]) <=> Clears(toClient[k])
             /\ Prompts(toClient'[k]) => Prompts(toClient[k]) /\ toClient'[k].bad = toClient[k].bad \ kept
  <2>1. PICK m, bad : m = toClient[k] /\ bad = toClient[k].bad \ kept
    OBVIOUS
  <2>2. toClient'[k] = Marked(m, bad)
    BY <1>6, <2>1
  <2>3. Marked(m, bad).cmd = m.cmd /\ (m.cmd \in {"INPUT", "STATUS"} => Marked(m, bad).bad = bad)
    BY MarkedSets
  <2> QED BY <2>1, <2>2, <2>3 DEF Clears, Prompts
<1>8. ASSUME NEW k, ClearedBefore(toClient, k) PROVE ClearedBefore(toClient', k)
  BY <1>6, <1>7, <1>8 DEF ClearedBefore
<1>9. \A R : (R \ kept) \cap saved' # {} => R \cap saved # {}
  BY <1>4
<1>10. refused' \cap saved' # {} => ClearedBefore(toClient', Len(toClient') + 1)
  BY <1>3, <1>6, <1>8, <1>9 DEF RefusedInv, Guarded
<1>11. ASSUME NEW k \in 1 .. Len(toClient'), Prompts(toClient'[k]), toClient'[k].bad \cap saved' # {}
       PROVE  ClearedBefore(toClient', k)
  <2>1. k \in 1 .. Len(toClient) /\ Prompts(toClient[k]) /\ toClient'[k].bad = toClient[k].bad \ kept
    BY <1>6, <1>7, <1>11
  <2>2. toClient[k].bad \cap saved # {}
    BY <1>9, <1>11, <2>1
  <2> QED BY <1>8, <2>1, <2>2 DEF RefusedInv, Guarded
<1> QED BY <1>5, <1>10, <1>11 DEF Guarded

LEMMA ClientRefused ==
    ASSUME SessionInv, RefusedInv, Client
    PROVE  RefusedInv'
<1>1. \E S : toService' \in Seq(S)
  <2>1. PICK S : toService \in Seq(S)
    BY DEF RefusedInv
  <2>2. PICK T : \E ms \in Seq(T) : toService' = toService \o ms
    BY ClientAppends DEF Appends
  <2>3. PICK ms \in Seq(T) : toService' = toService \o ms
    BY <2>2
  <2>4. toService \in Seq(S \cup T) /\ ms \in Seq(S \cup T)
    BY <2>1
  <2> QED BY <2>3, <2>4
<1>2. saved' \subseteq Savable /\ Guarded(toClient', refused', saved')
  <2>1. CASE connectionButtonClicked \/ scriptStarted \/ Suspend \/ ContextRemoveOther \/ closeEvent
    <3>1. UNCHANGED <<toClient, refused, saved>>
      BY <2>1 DEF connectionButtonClicked, scriptStarted, Suspend, ContextRemoveOther, closeEvent, SameEntry
    <3> QED BY <3>1 DEF RefusedInv
  <2>2. CASE on_cmdRemoveCreds_clicked
    <3>1. saved' = {}
      BY <2>2, SavableTypes DEF on_cmdRemoveCreds_clicked, removeUserData, RefusedInv
    <3> QED BY <3>1, NoneSaved
  <2> QED BY <2>1, <2>2, ReceiveGuarded, SavedGuarded DEF Client
<1> QED BY <1>1, <1>2 DEF RefusedInv

LEMMA InitRefused == SessionInit => RefusedInv
<1> SUFFICES ASSUME SessionInit PROVE RefusedInv
  OBVIOUS
<1>1. /\ saved \subseteq Savable /\ refused = {} /\ toClient = << >> /\ toService = << >>
  BY DEF SessionInit, Savable
<1>2. toService \in Seq({}) /\ Len(toClient) = 0
  BY <1>1
<1> QED BY <1>1, <1>2 DEF RefusedInv, Guarded

LEMMA NextRefused == SessionInv /\ RefusedInv /\ [SessionNext]_allVars => RefusedInv'
<1> SUFFICES ASSUME SessionInv, RefusedInv, [SessionNext]_allVars PROVE RefusedInv'
  OBVIOUS
<1>1. CASE UNCHANGED allVars
  <2>1. UNCHANGED <<saved, toService, toClient, refused>>
    BY <1>1 DEF allVars, client
  <2> QED BY <2>1 DEF RefusedInv
<1> QED BY <1>1, ClientRefused, ServiceRefused DEF SessionNext

LEMMA OneAppended ==
    ASSUME NEW S, NEW q \in Seq(S), NEW ms \in Seq(S), NEW x, q \o ms = Append(q, x)
    PROVE  ms = <<x>>
<1> DEFINE n == Len(q)
           l == Len(ms)
           all == q \o ms
<1>1. /\ n \in Nat /\ l \in Nat /\ Len(all) = n + l
      /\ \A k \in 1 .. l : all[n + k] = ms[k]
  OBVIOUS
<1>2. Len(all) = n + 1 /\ all[n + 1] = x
  OBVIOUS
<1> HIDE DEF n, l, all
<1>3. l = 1
  BY <1>1, <1>2
<1>4. ms[1] = x
  BY <1>1, <1>2, <1>3
<1> QED BY <1>3, <1>4 DEF l

\* No prompt is answered with a value that was refused before it.
LEMMA NotResent ==
    ASSUME RefusedInv, SessionNext, NEW type, toClient # << >>, \E S : toClient \in Seq(S),
           Prompts(Head(toClient)), toService' = Append(toService, AnswerOf(type, "saved"))
    PROVE  type \notin Head(toClient).bad
<1>1. PICK S : toService \in Seq(S)
  BY DEF RefusedInv
<1>2. Len(toService) \in Nat /\ Len(toService') = Len(toService) + 1
  BY <1>1
<1>3. CASE Service
  <2>1. toService' = toService \/ (toService # << >> /\ toService' = Tail(toService))
    BY <1>3 DEF Service, Serve
  <2> QED BY <1>1, <1>2, <2>1
<1>4. CASE Client
  <2>1. PICK T : \E ms \in Seq(T) : /\ toService' = toService \o ms
                                    /\ \A t : ms = <<AnswerOf(t, "saved")>> => t \in saved
    BY <1>4, ClientAppends DEF Appends
  <2>2. PICK ms \in Seq(T) : /\ toService' = toService \o ms
                             /\ \A t : ms = <<AnswerOf(t, "saved")>> => t \in saved
    BY <2>1
  <2>3. toService \in Seq(S \cup T) /\ ms \in Seq(S \cup T)
    BY <1>1
  <2>4. ms = <<AnswerOf(type, "saved")>>
    BY <2>2, <2>3, OneAppended
  <2>5. type \in saved
    BY <2>2, <2>4
  <2>6. Len(toClient) \in Nat /\ 1 \in 1 .. Len(toClient) /\ Head(toClient) = toClient[1]
    OBVIOUS
  <2>7. ~ClearedBefore(toClient, 1)
    BY <2>6 DEF ClearedBefore
  <2>8. toClient[1].bad \cap saved = {}
    BY <2>6, <2>7 DEF RefusedInv, Guarded
  <2> QED BY <2>5, <2>6, <2>8
<1> QED BY <1>3, <1>4 DEF SessionNext

-----------------------------------------------------------------------------

\* The inductive invariant: whatever of toClient has been read, the entry's
\* state and the messages that are left agree with the service.
THEOREM SessionInvariant == SessionSpec => []SessionInv
<1>1. QED BY InitSessionInv, NextSessionInv, PTL DEF SessionSpec

\* An entry shown as connected (ConnectionData::SetState, setDisconnected,
\* receivedIP, receivedStatus) has a connected object in the service's list,
\* up to what unheard records.
THEOREM SessionGreenIsConnected == SessionSpec => []GreenIsConnected
<1>1. SessionInv => GreenIsConnected
  BY DEF SessionInv, Queue, GreenIsConnected, AtRest, WillShow, Stable
<1>2. QED BY <1>1, SessionInvariant, PTL

\* The inductive invariant of refused credentials.
THEOREM SessionRefused == SessionSpec => []RefusedInv
<1>1. QED BY InitRefused, NextRefused, SessionInvariant, PTL DEF SessionSpec

\* A saved credential that the server has refused (readProcessData's
\* REMOVE_USER_DATA, FrmMain::userInputIsNeeded) is not sent again as the
\* answer to a later prompt, whatever is under way in both directions.
THEOREM SessionNoRefusedResend == SessionSpec => NoRefusedResend
<1> DEFINE Resends ==
        \A type \in Savable :
           /\ toClient # << >> /\ Head(toClient).cmd \in {"INPUT", "STATUS"}
           /\ toService' = Append(toService, AnswerOf(type, "saved"))
           => type \notin Head(toClient).bad
<1>1. SessionInv /\ RefusedInv /\ [SessionNext]_allVars => [Resends]_allVars
  <2> SUFFICES ASSUME SessionInv, RefusedInv, SessionNext PROVE Resends
    OBVIOUS
  <2> QED BY NotResent DEF SessionInv, Queue, Prompts
<1>2. SessionSpec => [][SessionNext]_allVars
  BY DEF SessionSpec
<1>3. [][Resends]_allVars => NoRefusedResend
  BY PTL DEF NoRefusedResend
<1> QED BY <1>1, <1>2, <1>3, SessionInvariant, SessionRefused, PTL
=============================================================================
