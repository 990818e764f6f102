------------------------------ MODULE Configs ------------------------------
(***************************************************************************)
(* The client's configurations: the table vpn of its database, the config  *)
(* files, Configs::myList, which mirrors both, and ConnectionModel, the    *)
(* rows of the main window, which holds pointers to the list's entries.    *)
(* With them the checksums in the registry, and the VPNs the service runs, *)
(* as both are kept by the id of a row.                                    *)
(*                                                                         *)
(* Ids are what ties these together, and they are used again: vpn-id is an *)
(* INTEGER PRIMARY KEY without AUTOINCREMENT, so that a new row gets the   *)
(* largest id plus one.                                                    *)
(*                                                                         *)
(* Handlers run in the GUI thread, one after the other, with two           *)
(* exceptions: ContextRemove's Disconnect() may run a script, and          *)
(* checkForNewConfigAndRefreshUI calls refreshUI, and both process events. *)
(* What comes in then are messages of the service and the selection of a   *)
(* row.  A name stands for the config's file too; names are compared       *)
(* like the numbers they are here.  The service is reduced to what Session *)
(* shows of it: it opens, closes and reports VPNs by id.  The client is    *)
(* the installed one: the portable one has no checksums.                   *)
(***************************************************************************)
EXTENDS Integers, Sequences, FiniteSets, SequencesExt

CONSTANTS
    Names,      \* names of configs
    MaxId,      \* bound: ids
    MaxActs     \* bound: what the user does

ASSUME ConfigsAssumption ==
    /\ Names \subseteq Nat \ {0} /\ IsFiniteSet(Names)
    /\ MaxId \in Nat \ {0} /\ Cardinality(Names) <= MaxId
    /\ MaxActs \in Nat

Ids == 1 .. MaxId

VARIABLES
    table,      \* the table vpn: the name of the config in row id, or 0
    files,      \* the configs whose file exists
    myList,     \* Configs::myList; no is the identity of the ConnectionData
    rows,       \* ConnectionModel::connections: pointers, by no
    loading,    \* refreshUI runs between refreshConfigs and LoadConnections
    removing,   \* the entry ContextRemove is disconnecting, by no, or 0
    current,    \* currentIndex() meanwhile
    checksum,   \* the registry: the config whose checksum is stored, or 0
    running,    \* the service: by which entry a VPN was opened, and is it up
    toService, toClient,  \* the socket
    born,       \* how many ConnectionData objects were made
    acts,       \* history: what the user has done, up to MaxActs
    lost,       \* history: an entry may have gone without being disconnected
    declined    \* history: checksum.exe was not allowed to run

vars == <<table, files, myList, rows, loading, removing, current, checksum, running,
          toService, toClient, born, acts, lost, declined>>

States == {"Disconnected", "Connecting", "Connected", "Disconnecting", "Error"}
Entries == [id : Ids, name : Names, state : States, no : Nat \ {0}]
NoVpn == [no |-> 0, up |-> FALSE]

-----------------------------------------------------------------------------
\* Configs.  The operators work on a record of what they change.
Used(t) == {i \in Ids : t[i] # 0}
newId(t) == IF Used(t) = {} THEN 1 ELSE Max(Used(t)) + 1

isConfigInList(list, id) == \E k \in DOMAIN list : list[k].id = id

\* The members of a set of numbers, in ascending order, and what is at such
\* places of a list.
InOrder(S) == [k \in 1 .. Cardinality(S) |-> CHOOSE i \in S : Cardinality({m \in S : m <= i}) = k]
Picked(list, S) == [k \in 1 .. Cardinality(S) |-> list[InOrder(S)[k]]]

\* The pass that deletes: it compares every entry with the first id that is
\* left only, which finds all of them as they come in the order of the list.
\* removals[k] is how many ids have been popped after k entries.
removals(list, removedIds) ==
    LET popped[k \in 0 .. Len(list)] ==
            IF k = 0 THEN 0
            ELSE IF popped[k - 1] < Len(removedIds) /\ removedIds[popped[k - 1] + 1] = list[k].id
                 THEN popped[k - 1] + 1 ELSE popped[k - 1]
    IN  popped

\* Fault: the first entry of the list is taken for the one that has gone.
dropsFirst(list, removedIds) == SubSeq(list, Len(removedIds) + 1, Len(list))

\* The entries that stay.
dropRemoved(list, removedIds) ==
    Picked(list, {k \in 1 .. Len(list) :
                    removals(list, removedIds)[k] = removals(list, removedIds)[k - 1]})

\* std::sort by name.
SortedPlace(list, k) ==
    LET before == {m \in 1 .. Len(list) : list[m].name < list[k].name}
        same == {m \in 1 .. k : list[m].name = list[k].name}
    IN  Cardinality(before \cup same)
SortedByName(list) ==
    [n \in 1 .. Len(list) |-> list[CHOOSE k \in 1 .. Len(list) : SortedPlace(list, k) = n]]

\* Rows without a file are deleted, new rows get an entry, entries without a
\* row are deleted, and the list is sorted.
KeptRows(t, there) == [i \in Ids |-> IF t[i] \in there THEN t[i] ELSE 0]
NewIds(t, list) == {i \in Used(t) : ~isConfigInList(list, i)}
NewEntries(t, ids, made) ==
    [k \in 1 .. Cardinality(ids) |->
        [id |-> InOrder(ids)[k], name |-> t[InOrder(ids)[k]], state |-> "Disconnected", no |-> made + k]]
RemovedIds(t, all) == Picked([k \in 1 .. Len(all) |-> all[k].id], {k \in 1 .. Len(all) : t[all[k].id] = 0})
refreshConfigs(s, there) ==
    LET t == KeptRows(s.table, there)
        new == NewIds(t, s.myList)
        all == s.myList \o NewEntries(t, new, s.born)
    IN  [s EXCEPT !.table = t,
                  !.myList = SortedByName(dropRemoved(all, RemovedIds(t, all))),
                  !.born = @ + Cardinality(new)]

\* Fault: a checksum that is there is kept.
keepsOld(s, id, name) ==
    IF s.allowed /\ s.checksum[id] = 0 THEN [s.checksum EXCEPT ![id] = name] ELSE s.checksum

\* Checksum::createNewChecksumFromFile, which runs checksum.exe as administrator.
createNewChecksum(s, id, name) ==
    IF s.allowed THEN [s.checksum EXCEPT ![id] = name] ELSE s.checksum

\* One file: if its name is in no row it gets one, and a checksum.
FindsOne(s, there, name) ==
    IF \E i \in Ids : s.table[i] = name THEN s
    ELSE LET r == refreshConfigs(s, there)
             id == newId(r.table)
         IN  IF \E k \in DOMAIN r.myList : r.myList[k].name = name THEN r
             ELSE [r EXCEPT !.table[id] = name, !.checksum = createNewChecksum(r, id, name)]
findConfigsInDir(s, there) ==
    LET found[k \in 0 .. Cardinality(there)] ==
            IF k = 0 THEN s ELSE FindsOne(found[k - 1], there, InOrder(there)[k])
    IN  found[Cardinality(there)]

Configs(allowed) ==
    [table |-> table, myList |-> myList, born |-> born, checksum |-> checksum, allowed |-> allowed]

\* ConnectionModel::LoadConnections
LoadConnections(list) == [k \in DOMAIN list |-> list[k].no]

Refreshed(s) == table' = s.table /\ myList' = s.myList /\ born' = s.born /\ checksum' = s.checksum

Becomes(s) == Refreshed(s) /\ rows' = LoadConnections(s.myList)

-----------------------------------------------------------------------------
\* The user.
Acts == removing = 0 /\ ~loading /\ acts < MaxActs /\ acts' = acts + 1

EntryOf(no) == CHOOSE e \in ToSet(myList) : e.no = no

\* A new config, and an id for it.
New(name) ==
    /\ name \notin files /\ name \notin {table[i] : i \in Ids}
    /\ \A i \in Used(table) : i < MaxId
    /\ files' = files \cup {name}

\* A config is imported.
Import(name, allowed) ==
    /\ Acts
    /\ New(name)
    /\ Becomes(refreshConfigs(findConfigsInDir(Configs(allowed), files'), files'))
    /\ declined' = (declined \/ ~allowed)
    /\ UNCHANGED <<loading, removing, current, running, toService, toClient, lost>>

\* showWizard: the wizard wrote a config or was left without one.  The list is
\* refreshed, but the rows are loaded only after refreshUI.
checkForNewConfigAndRefreshUI(allowed) ==
    /\ Acts
    /\ (\E name \in Names : New(name)) \/ UNCHANGED files
    /\ Refreshed(refreshConfigs(findConfigsInDir(Configs(allowed), files'), files'))
    /\ loading' = TRUE
    /\ declined' = (declined \/ ~allowed)
    /\ UNCHANGED <<rows, removing, current, running, toService, toClient, lost>>

UIRefreshed ==
    /\ loading
    /\ loading' = FALSE
    /\ rows' = LoadConnections(myList)
    /\ UNCHANGED <<table, files, myList, removing, current, checksum, running, toService, toClient,
                   born, acts, lost, declined>>

\* Fault: the rows are not loaded again.
refreshesOnly ==
    LET s == refreshConfigs(Configs(TRUE), files)
    IN  /\ Acts
        /\ Refreshed(s)
        /\ UNCHANGED <<files, rows, loading, removing, current, running, toService, toClient, lost,
                       declined>>

\* showEvent, and ConfigSettingsWidget's back button.
Show ==
    /\ Acts
    /\ Becomes(refreshConfigs(Configs(TRUE), files))
    /\ UNCHANGED <<files, loading, removing, current, running, toService, toClient, lost, declined>>

\* The file is deleted in the Explorer.
Vanish(name) ==
    /\ Acts
    /\ name \in files
    /\ files' = files \ {name}
    /\ lost' = TRUE
    /\ UNCHANGED <<table, myList, rows, loading, removing, current, checksum, running, toService, toClient,
                   born, declined>>

WithState(no, state) ==
    [k \in DOMAIN myList |-> IF myList[k].no = no THEN [myList[k] EXCEPT !.state = state] ELSE myList[k]]

\* The connect button.
connectionButtonClicked(k) ==
    LET e == EntryOf(rows[k])
    IN  /\ Acts
        /\ IF e.state \in {"Connecting", "Connected"}
           THEN /\ toService' = Append(toService, [cmd |-> "CLOSE", id |-> e.id])
                /\ myList' = WithState(e.no, "Disconnecting")
           ELSE /\ toService' = Append(toService, [cmd |-> "OPEN", id |-> e.id, no |-> e.no, name |-> e.name])
                /\ myList' = WithState(e.no, "Connecting")
        /\ UNCHANGED <<table, files, rows, loading, removing, current, checksum, running, toClient,
                       born, lost, declined>>

\* Fault: the entry is not disconnected.
sendsNoClose(closed, removed, list) ==
    <<[cmd |-> "REMOVE_CHECKSUM", id |-> removed.id]>>
      \o [k \in DOMAIN list |-> [cmd |-> "STATUS", id |-> list[k].id]]

\* What ContextRemove sends.
RemoveSends(closed, removed, list) ==
    <<[cmd |-> "CLOSE", id |-> closed.id], [cmd |-> "REMOVE_CHECKSUM", id |-> removed.id]>>
      \o [k \in DOMAIN list |-> [cmd |-> "STATUS", id |-> list[k].id]]

\* ContextRemove disconnects one entry and deletes the one that is current
\* when that is done.
RemoveEntry(closed, removed) ==
    LET s == refreshConfigs([Configs(TRUE) EXCEPT !.table[removed.id] = 0], files')
    IN  /\ files' = files \ {removed.name}
        /\ Becomes(s)
        /\ toService' = toService \o RemoveSends(closed, removed, s.myList)
        /\ removing' = 0 /\ current' = 0
        /\ UNCHANGED <<loading, running, toClient, declined>>

ContextRemove(k) ==
    LET e == EntryOf(rows[k])
    IN  /\ Acts
        /\ \/ e.state # "Connected" /\ RemoveEntry(e, e)
           \/ /\ e.state = "Connected"
              /\ removing' = e.no /\ current' = k
              /\ UNCHANGED <<table, files, myList, rows, loading, checksum, running, toService, toClient,
                             born, declined>>
        /\ UNCHANGED lost

\* The user selects a row while the script is being started.
Select(k) ==
    /\ removing # 0
    /\ current' = k
    /\ UNCHANGED <<table, files, myList, rows, loading, removing, checksum, running, toService, toClient,
                   born, acts, lost, declined>>

ScriptStarted ==
    /\ removing # 0
    /\ RemoveEntry(EntryOf(removing), EntryOf(rows[current]))
    /\ lost' = (lost \/ rows[current] # removing)
    /\ UNCHANGED acts

-----------------------------------------------------------------------------
\* Fault: DISCONNECTED is for entries that are being disconnected.
ifAsked(m, e) ==
    IF m.cmd = "DISCONNECTED" /\ e.state # "Disconnecting" THEN e ELSE [e EXCEPT !.state = m.state]

\* setDisconnected, setError, receivedStatus and receivedIP.
Shows(m, e) ==
    IF m.cmd = "DISCONNECTED" /\ e.state = "Error" THEN e ELSE [e EXCEPT !.state = m.state]

\* SrvCLI::slotStartRead: GetConnection finds the row with that id.
Receive ==
    /\ toClient # << >>
    /\ toClient' = Tail(toClient)
    /\ LET m == Head(toClient)
       IN  myList' = [k \in DOMAIN myList |->
                        IF myList[k].id = m.id /\ Contains(rows, myList[k].no)
                        THEN Shows(m, myList[k]) ELSE myList[k]]
    /\ UNCHANGED <<table, files, rows, loading, removing, current, checksum, running, toService,
                   born, acts, lost, declined>>

\* The service.
Tells(cmd, id, state) == toClient' = Append(toClient, [cmd |-> cmd, id |-> id, state |-> state])
StatusOf(v) == IF v.up THEN "Connected" ELSE IF v.no # 0 THEN "Connecting" ELSE "Disconnected"

ServeOPEN(m) ==
    /\ \/ running[m.id] # NoVpn /\ Tells("STATUS", m.id, StatusOf(running[m.id])) /\ UNCHANGED running
       \/ /\ running[m.id] = NoVpn /\ checksum[m.id] \notin {0, m.name}
          /\ Tells("ERROR", m.id, "Error") /\ UNCHANGED running
       \/ /\ running[m.id] = NoVpn /\ checksum[m.id] \in {0, m.name}
          /\ running' = [running EXCEPT ![m.id] = [no |-> m.no, up |-> FALSE]]
          /\ UNCHANGED toClient
    /\ UNCHANGED checksum

ServeCLOSE(m) ==
    /\ IF running[m.id] # NoVpn THEN Tells("DISCONNECTED", m.id, "Disconnected") ELSE UNCHANGED toClient
    /\ running' = [running EXCEPT ![m.id] = NoVpn]
    /\ UNCHANGED checksum

ServeREMOVE_CHECKSUM(m) ==
    /\ checksum' = [checksum EXCEPT ![m.id] = 0]
    /\ UNCHANGED <<running, toClient>>

Serve ==
    /\ toService # << >>
    /\ toService' = Tail(toService)
    /\ LET m == Head(toService)
       IN  \/ m.cmd = "OPEN" /\ ServeOPEN(m)
           \/ m.cmd = "CLOSE" /\ ServeCLOSE(m)
           \/ /\ m.cmd = "STATUS"
              /\ Tells("STATUS", m.id, StatusOf(running[m.id]))
              /\ UNCHANGED <<running, checksum>>
           \/ m.cmd = "REMOVE_CHECKSUM" /\ ServeREMOVE_CHECKSUM(m)
    /\ UNCHANGED <<table, files, myList, rows, loading, removing, current, born, acts, lost, declined>>

\* A VPN comes up.
Up(id) ==
    /\ running[id] # NoVpn /\ ~running[id].up
    /\ running' = [running EXCEPT ![id].up = TRUE]
    /\ Tells("RECEIVEDIP", id, "Connected")
    /\ UNCHANGED <<table, files, myList, rows, loading, removing, current, checksum, toService,
                   born, acts, lost, declined>>

-----------------------------------------------------------------------------
\* main: the rows marked for it are removed, and the main window looks for new
\* files (isConnectionAvailable's query is not valid SQL, so that it always
\* does) and loads the list.  No entry has kept an error from the last time.
cleanupConfigs(t, once) == [i \in Ids |-> IF i \in once THEN 0 ELSE t[i]]

Init ==
    /\ files \in SUBSET Names
    /\ \E t \in [Ids -> Names \cup {0}], once \in SUBSET Ids :
          /\ \A i, j \in Used(t) : t[i] = t[j] => i = j
          /\ once \subseteq Used(t)
          /\ \A i \in Used(t) : i + Cardinality(files \ {t[j] : j \in Ids \ once}) <= MaxId
          /\ LET s == refreshConfigs(findConfigsInDir(
                        [table |-> cleanupConfigs(t, once), myList |-> << >>, born |-> 0,
                         checksum |-> t, allowed |-> TRUE], files), files)
             IN  /\ table = s.table /\ myList = s.myList /\ born = s.born /\ checksum = s.checksum
                 /\ rows = LoadConnections(s.myList)
    /\ loading = FALSE /\ removing = 0 /\ current = 0
    /\ running = [i \in Ids |-> NoVpn]
    /\ toService = << >> /\ toClient = << >>
    /\ acts = 0 /\ lost = FALSE /\ declined = FALSE

Next ==
    \/ \E name \in Names, allowed \in BOOLEAN : Import(name, allowed)
    \/ \E allowed \in BOOLEAN : checkForNewConfigAndRefreshUI(allowed)
    \/ UIRefreshed
    \/ \E name \in Names : Vanish(name)
    \/ \E k \in DOMAIN rows : connectionButtonClicked(k)
    \/ \E k \in DOMAIN rows : ContextRemove(k)
    \/ \E k \in DOMAIN rows : Select(k)
    \/ Show
    \/ ScriptStarted
    \/ Receive
    \/ Serve
    \/ \E id \in Ids : Up(id)

Spec == Init /\ [][Next]_vars

-----------------------------------------------------------------------------
\* Properties.

\* Safety: the rows of the main window point to the entries of the list, in
\* its order.  Every message of the service goes through these pointers
\* (GetConnection), and refreshConfigs deletes what they point to.  While
\* checkForNewConfigAndRefreshUI repaints, the rows may be those of the last
\* list, but a row points to a deleted entry only if a file has been lost.
RowsAreLive ==
    /\ loading \/ rows = LoadConnections(myList)
    /\ lost \/ \A k \in DOMAIN rows : \E e \in ToSet(myList) : e.no = rows[k]

\* Safety: the list has one entry for each row of the table, with its name,
\* and is sorted, after any sequence of imports, removals and lost files.
ListMatchesTable ==
    /\ \A i \in Used(table) : \E k \in DOMAIN myList : myList[k].id = i /\ myList[k].name = table[i]
    /\ Len(myList) = Cardinality(Used(table))
    /\ \A k \in 1 .. Len(myList) - 1 : myList[k].name < myList[k + 1].name

\* Safety: as long as checksum.exe is allowed to run, no config is rejected
\* for the checksum of another one that had its id before, although the
\* checksums of lost files are never removed.
NoForeignChecksum ==
    ~declined => \A e \in ToSet(myList) : checksum[e.id] \in {0, e.name}

AtRest == toService = << >> /\ toClient = << >> /\ removing = 0 /\ ~loading

\* Safety: when nothing is under way, an entry is shown as connected if and
\* only if the VPN that this entry opened is up, although ids are used again
\* and messages about the last owner of an id arrive late.
ShownAsIs ==
    AtRest /\ ~lost =>
        \A e \in ToSet(myList) : e.state = "Connected" <=> running[e.id] = [no |-> e.no, up |-> TRUE]

\* Safety: when nothing is under way, the service runs no VPN whose entry has
\* been removed.
NoOrphan ==
    AtRest /\ ~lost =>
        \A i \in Ids : running[i] # NoVpn => \E e \in ToSet(myList) : e.no = running[i].no /\ e.id = i
=============================================================================
