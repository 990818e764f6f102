---------------------------- MODULE ClientStore ----------------------------
(***************************************************************************)
(* What a client keeps between two runs of the program: the SQLite file    *)
(* with the tables vpn and settings (Database, Settings), proxy.ini        *)
(* (ProxySettings) and the entry that starts it with Windows.              *)
(*                                                                         *)
(* The tables are created only when the file is missing, statement by      *)
(* statement, each committed by itself, so that a run that dies in between *)
(* leaves a file that no later run completes.  A process with -status      *)
(* creates them just so, perhaps beside a client that starts.              *)
(* Database::execute reports no error: a write that meets a lock of        *)
(* another process for more than the 50 ms of the busy timeout is lost.    *)
(* proxy.ini is written key by key as well, and that it exists is what     *)
(* tells the next run not to take over the one of an older version.        *)
(***************************************************************************)
EXTENDS Integers, SequencesExt

CONSTANT Names   \* the settings looked at, of those of settings.h

AllNames == {"useInteract", "startOnWindows", "blockShutdown", "showBallon", "autoRestart",
             "alwaysPopup", "showSplash", "enableUpdate", "useSecurepoint",
             "dhShowSmallKeyInformation", "sendToTrayAfterConnect"}

ASSUME StoreAssumption == Names \subseteq AllNames /\ IsFiniteSet(Names)

\* Settings::Settings, and the rows Database::Database inserts.
Constructed == [n \in Names |-> n \in {"useInteract", "blockShutdown", "showBallon", "showSplash",
                                       "enableUpdate", "useSecurepoint",
                                       "dhShowSmallKeyInformation"}]
DefaultRows == [n \in Names \ {"sendToTrayAfterConnect"} |->
                    n = "autoRestart" \/ Constructed[n]]

VARIABLES
    dbFile,     \* sslvpn.sqlite exists
    tables,     \* the tables it has
    rows,       \* the table settings
    todo,       \* what Database::Database has still to execute
    otherTodo,  \* the same of a process with -status
    settings,   \* the members of Settings
    ini,        \* proxy.ini of the user, the keys that are set
    oldIni,     \* proxy.ini beside the program, of an older version
    proxy,      \* the members of ProxySettings
    setter,     \* the next call of a change of the proxy: use, type, ip, port, end; or none
    target,     \* what these calls set; an Empty value is not set, except use
    chosen,     \* history: the settings the user has chosen
    given,      \* history: the proxy last saved or migrated, as openvpn gets it
    lost,       \* history: the settings whose last write was lost, or is hidden
                \* by a default row that another process wrote after it
    torn        \* history: the last change of the proxy was cut off

tableVars == <<dbFile, tables, rows, todo, otherTodo>>
proxyVars == <<ini, oldIni, proxy, setter, target, given, torn>>
storeVars == <<tableVars, settings, chosen, lost, proxyVars>>

Empty == ""   \* a text that is not set

\* A function with one more value, or another one.
With(f, k, v) == [x \in DOMAIN f \cup {k} |-> IF x = k THEN v ELSE f[x]]
Value(f, k) == IF k \in DOMAIN f THEN f[k] ELSE Empty

-----------------------------------------------------------------------------
\* Database

InsertDefaults ==
    LET names == SetToSeq(DOMAIN DefaultRows)
    IN  [k \in DOMAIN names |-> [insert |-> names[k]]]

\* What Database::Database executes, which depends on the file.
Creation ==
    IF dbFile
    THEN <<[check |-> "dhShowSmallKeyInformation"]>>
    ELSE <<[create |-> "vpn"], [create |-> "settings"]>> \o InsertDefaults

\* Database::Database up to the first statement: of the client, and of a
\* process with -status.
OpenDatabase ==
    /\ dbFile' = TRUE
    /\ todo' = Creation
    /\ UNCHANGED <<tables, rows, otherTodo, settings, chosen, lost, proxyVars>>
OtherOpens ==
    /\ dbFile' = TRUE
    /\ otherTodo' = Creation
    /\ UNCHANGED <<tables, rows, todo, settings, chosen, lost, proxyVars>>

\* The table has no key: a second row of a name hides the first one when it
\* is read.
Inserted(n, v) == IF "settings" \in tables THEN With(rows, n, v) ELSE rows

\* One statement.
Statement(s) ==
    \/ /\ "create" \in DOMAIN s
       /\ tables' = tables \cup {s.create}
       /\ UNCHANGED <<rows, lost>>
    \/ /\ "insert" \in DOMAIN s
       /\ rows' = Inserted(s.insert, DefaultRows[s.insert])
       /\ lost' = IF s.insert \in DOMAIN chosen THEN lost \cup {s.insert} ELSE lost
       /\ UNCHANGED tables
    \/ "check" \in DOMAIN s /\ UNCHANGED <<tables, rows, lost>>

\* What is left after it: a row that was looked for in vain is inserted.
Rest(list) ==
    IF "check" \in DOMAIN Head(list) /\ Head(list).check \in Names \ DOMAIN rows
    THEN <<[insert |-> Head(list).check]>> \o Tail(list)
    ELSE Tail(list)

\* One process executes a statement, while the other may hold the lock.
Execute ==
    /\ todo # << >>
    /\ todo' = Rest(todo)
    /\ \/ Statement(Head(todo))
       \/ otherTodo # << >> /\ UNCHANGED <<tables, rows, lost>>
    /\ UNCHANGED <<dbFile, otherTodo, settings, chosen, proxyVars>>
OtherExecutes ==
    /\ otherTodo # << >>
    /\ otherTodo' = Rest(otherTodo)
    /\ \/ Statement(Head(otherTodo))
       \/ todo # << >> /\ UNCHANGED <<tables, rows, lost>>
    /\ UNCHANGED <<dbFile, todo, settings, chosen, proxyVars>>

\* It ends, or is killed.
OtherEnds == otherTodo' = << >> /\ UNCHANGED <<dbFile, tables, rows, todo, settings, chosen, lost, proxyVars>>

-----------------------------------------------------------------------------
\* Settings

\* Settings::loadOrRefresh: a property without a row keeps its value.
loadOrRefresh ==
    /\ settings' = [n \in Names |-> IF n \in DOMAIN rows THEN rows[n] ELSE settings[n]]
    /\ UNCHANGED <<tableVars, chosen, lost, proxyVars>>

\* Settings::save: UPDATE, and INSERT if there is no such row.
save(n, v) == rows' = Inserted(n, v)

\* A setter: nothing to do if the value is the same; the write may be lost.
Set(n, v) ==
    /\ chosen' = With(chosen, n, v)
    /\ IF settings[n] = v
       THEN UNCHANGED <<settings, rows, lost>>
       ELSE /\ settings' = [settings EXCEPT ![n] = v]
            /\ \/ save(n, v) /\ lost' = IF "settings" \in tables THEN lost \ {n} ELSE lost \cup {n}
               \/ UNCHANGED rows /\ lost' = lost \cup {n}
    /\ UNCHANGED <<dbFile, tables, todo, otherTodo, proxyVars>>

-----------------------------------------------------------------------------
\* ProxySettings: operators from [mem, ini] to [mem, ini].

NoProxy == [use |-> Empty, http |-> FALSE, ip |-> Empty, port |-> Empty]

\* Fault: the value is only kept in memory.
memoryOnly(s, key, v) == [s EXCEPT !.mem = [s.mem EXCEPT ![key] = v]]

\* setProxyTypeInUse, setProxyHost, setProxyPort
SetText(s, key, v) ==
    IF s.mem[key] = v THEN s
    ELSE [mem |-> [s.mem EXCEPT ![key] = v], ini |-> With(s.ini, key, v)]

\* setIsHttpProxy
setIsHttpProxy(s, flag) ==
    IF s.mem.http = flag THEN s
    ELSE [mem |-> [s.mem EXCEPT !.http = flag],
          ini |-> With(s.ini, "type", IF flag THEN "HTTP" ELSE "SOCKS")]

\* The second half of ProxySettings::ProxySettings.
ReadIni(s) ==
    IF DOMAIN s.ini = {} THEN s.mem
    ELSE [use |-> Value(s.ini, "use"), http |-> Value(s.ini, "type") # "SOCKS",
          ip |-> Value(s.ini, "ip"), port |-> Value(s.ini, "port")]

\* openVpnProxyString, without the system's own proxy
openVpnProxyString(p) ==
    IF p.use = "IE" THEN <<"IE">>
    ELSE IF p.use = "MANUAL" /\ p.ip # Empty /\ p.port # Empty
         THEN <<IF p.http THEN "--http-proxy" ELSE "--socks-proxy", p.ip, p.port>>
         ELSE << >>

\* The setters are called in this order by both callers, each of them a write
\* of its own to proxy.ini.
After == [use |-> "type", type |-> "ip", ip |-> "port", port |-> "end"]
NoTarget == [use |-> Empty, type |-> Empty, ip |-> Empty, port |-> Empty]
sameSettings == UNCHANGED <<tableVars, settings, chosen, lost>>

SetsNext ==
    /\ setter \in DOMAIN After
    /\ LET s == [mem |-> proxy, ini |-> ini]
           t == IF setter # "use" /\ target[setter] = Empty THEN s
                ELSE IF setter = "type" THEN setIsHttpProxy(s, target.type = "HTTP")
                ELSE SetText(s, setter, target[setter])
       IN  proxy' = t.mem /\ ini' = t.ini
    /\ setter' = After[setter]
    /\ UNCHANGED <<oldIni, target, given, torn>> /\ sameSettings

GivenFor(to) == openVpnProxyString([use |-> to.use, http |-> to.type = "HTTP", ip |-> to.ip, port |-> to.port])

\* A change of the proxy begins.
ProxyChange(to) ==
    /\ setter' = "use" /\ target' = to
    /\ UNCHANGED <<ini, oldIni, proxy>> /\ sameSettings
NewProxy(to) == ProxyChange(to) /\ given' = GivenFor(to) /\ torn' = FALSE

\* checkAndMigrateOldProxySettings: only if there is no proxy.ini yet.  The
\* old file is removed when everything is written.
Migrates == DOMAIN oldIni # {} /\ DOMAIN ini = {}
checkAndMigrateOldProxySettings ==
    NewProxy([key \in DOMAIN NoTarget |-> Value(oldIni, key)])

\* ProxySettings::ProxySettings, called by the constructor of FrmMain, after
\* the migration if there was one.
LoadProxy ==
    /\ setter \in {"none", "end"}
    /\ oldIni' = IF setter = "end" THEN << >> ELSE oldIni
    /\ proxy' = ReadIni([mem |-> proxy, ini |-> ini])
    /\ setter' = "none" /\ target' = NoTarget
    /\ UNCHANGED <<ini, given, torn>> /\ sameSettings

\* validHostOrIp and validPort on typical inputs: what is stored for them.
validHostOrIp == [x \in {"10.0.0.1", "proxy", "proxy."} |-> IF x = "proxy." THEN "proxy" ELSE x]
validPort == [x \in {"8080", "08080", "1"} |-> IF x = "08080" THEN "8080" ELSE x]

\* ClientSettingsWidget::on_cmdBack_clicked.  Refused texts change nothing.
Accepted(p) == p.use = "MANUAL" => p.host \in DOMAIN validHostOrIp /\ p.port \in DOMAIN validPort
Page(p) ==
    IF p.use # "MANUAL" THEN [NoTarget EXCEPT !.use = p.use]
    ELSE [use |-> "MANUAL", type |-> IF p.http THEN "HTTP" ELSE "SOCKS",
          ip |-> validHostOrIp[p.host], port |-> validPort[p.port]]
on_cmdBack_clicked(p) == Accepted(p) /\ NewProxy(Page(p))

\* ClientSettingsWidget::showEvent: what the page shows.  The texts are those
\* of the settings only for MANUAL; otherwise nobody reads them.
showProxy ==
    [use |-> IF DOMAIN ini = {} THEN "CONFIG"
             ELSE IF proxy.use \in {"CONFIG", "IE"} THEN proxy.use ELSE "MANUAL",
     http |-> proxy.http, host |-> proxy.ip, port |-> IF proxy.port = Empty THEN "8080" ELSE proxy.port]

\* The user looks at the page and goes back.  History: nothing was chosen.
Looks == Accepted(showProxy) /\ ProxyChange(Page(showProxy)) /\ UNCHANGED <<given, torn>>

\* on_cmdBack_clicked returns.
Saved ==
    /\ setter = "end"
    /\ setter' = "none" /\ target' = NoTarget
    /\ UNCHANGED <<ini, oldIni, proxy, given, torn>> /\ sameSettings

\* The end of a run, of whatever kind: the files stay.
Forget ==
    /\ todo' = << >>
    /\ settings' = Constructed
    /\ proxy' = NoProxy
    /\ setter' = "none" /\ target' = NoTarget
    /\ torn' = (torn \/ setter \in DOMAIN After)
    /\ UNCHANGED <<dbFile, tables, rows, otherTodo, ini, oldIni, chosen, given, lost>>

OldInis == {<< >>, [use |-> "MANUAL", type |-> "HTTP", ip |-> "proxy", port |-> "1"],
            [use |-> "MANUAL", type |-> "SOCKS", ip |-> "proxy", port |-> "1"],
            [use |-> "CONFIG"]}

StoreInit ==
    /\ dbFile = FALSE /\ tables = {} /\ rows = << >> /\ todo = << >> /\ otherTodo = << >>
    /\ settings = Constructed
    /\ ini = << >> /\ oldIni \in OldInis
    /\ proxy = NoProxy /\ setter = "none" /\ target = NoTarget /\ torn = FALSE
    /\ chosen = << >> /\ given = << >> /\ lost = {}

-----------------------------------------------------------------------------
\* Properties

\* What is chosen is what the next run works with, after an exit, a crash or
\* an interrupted first start: settings, unless the last write of one was
\* lost (to another process, or for want of a table) or another process that
\* creates the tables wrote its default after it; and the proxy openvpn is
\* started with, unless the run ended between the writes of its last change,
\* and except that a SOCKS proxy whose kind was never written (it was FALSE in
\* memory from the start) comes back as an HTTP proxy.
SettingsKept == \A n \in DOMAIN chosen \ lost : settings[n] = chosen[n]
ProxyKept ==
    \/ torn
    \/ openVpnProxyString(proxy) = given
    \/ /\ "type" \notin DOMAIN ini
       /\ given # << >> /\ given[1] = "--socks-proxy"
       /\ openVpnProxyString(proxy) = <<"--http-proxy">> \o Tail(given)
=============================================================================
