---------------------------- MODULE ConfigFiles ----------------------------
(***************************************************************************)
(* The folders of the configs, and what brings them there, renames them    *)
(* and takes them away: ImportWidget, ExportWidget with CZip, the wizard,  *)
(* ConfigSettingsWidget and ContextRemove, with Configs::refreshConfigs    *)
(* and findConfigsInDir that keep the table vpn in line with the folders.  *)
(*                                                                         *)
(* A config is the sequence of its lines that name a file.  The content of *)
(* a file is the place it was copied from.  A row is encrypted with        *)
(* Crypt::secretKey, one static value that an import or export of a backup *)
(* replaces by its password for a while.                                   *)
(***************************************************************************)
EXTENDS Integers, Sequences, FiniteSets, Functions, FiniteSetsExt

CONSTANTS Names,      \* names a config or a backup may get, numbered in the order of QDir
          Illegal,    \* those among them that no folder can have
          Sources,    \* .ovpn files the user may import, by their lines
          Picks,      \* the three files the user may pick in the wizard
          Missing,    \* files that cannot be copied
          Given,      \* what may lie in the config folder before the first start
          MaxActs     \* bound: what the user does

Paths == [dir : STRING, name : STRING, spaced : BOOLEAN]
Lines == [key : STRING, path : Paths, extra : BOOLEAN]

\* Nothing is known of what the configs that lie there were meant to name.
GivenFolder(d) == \A n \in DOMAIN d.ovpn : n \in Names /\ ~d.ovpn[n].plain

ASSUME FilesAssumption ==
    /\ Names \subseteq Nat /\ IsFiniteSet(Names) /\ Illegal \subseteq Names
    /\ Sources \subseteq Seq(Lines)
    /\ Picks \subseteq [1 .. 3 -> Paths]
    /\ \A g \in Given : DOMAIN g \subseteq Names /\ \A m \in DOMAIN g : GivenFolder(g[m])
    /\ MaxActs \in Nat

VARIABLES
    dirs,      \* folder name -> [ovpn, files]
    table,     \* the table vpn: id -> [name, dir, file]
    myList,    \* the entries in memory: id -> [name, dir, file]
    secretKey, \* "own", or the password of a backup
    box,       \* "Encryption failed.": an import waits in MessageBoxA
    archives,  \* backups: [base, ovpn, files]
    torn,      \* history: entries whose files a rename did not move, or moved
               \* away with the folder of another entry
    gone,      \* history: entries whose folder the user has just removed
    acts

fileVars == <<dirs, table, myList, secretKey, box, archives, torn, gone, acts>>

\* The keys whose file is copied along, in the order of importwidget.cpp.
keys == <<"ca", "cert", "key", "pkcs12", "auth-user-pass", "secret", "replay-persist", "dh",
          "extra-certs", "tls-crypt", "tls-auth", "askpass", "crl-verify">>

\* Words that begin with another key.
startsWith(word, key) == word = key \/ <<word, key>> \in {<<"key-direction", "key">>,
                                                           <<"tls-crypt-v2", "tls-crypt">>}

NoFile == [dir |-> "nowhere", name |-> "nothing", spaced |-> FALSE]
\* A path without a colon is not taken for an absolute one: a name, which is
\* beside the config, but also a folder below it or one of the network.
NoColon == {"here", "keys", "//server"}
isGivenPathAbsolute(p) == p.dir \notin NoColon
Beside(p) == p.dir = "here"
fileNameOfAbsolutePath(p) == [dir |-> "here", name |-> p.name, spaced |-> FALSE]
EmptyDir == [ovpn |-> << >>, files |-> << >>]
With(f, k, v) == [x \in DOMAIN f \cup {k} |-> IF x = k THEN v ELSE f[x]]
Without(f, S) == Restrict(f, DOMAIN f \ S)

-----------------------------------------------------------------------------
\* ConfigValues

\* The first line with this key.  The last word goes: a second value, or what
\* follows a blank in the path.
valueFromConfigKey(lines, key) ==
    LET at == {n \in DOMAIN lines : lines[n].key = key /\ lines[n].path # NoFile}
        l == lines[CHOOSE n \in at : \A m \in at : n <= m]
    IN  IF at = {} THEN NoFile
        ELSE IF l.path.spaced /\ ~l.extra THEN [dir |-> l.path.dir, name |-> "cut", spaced |-> FALSE]
        ELSE l.path

\* Fault: the config goes on naming the place it was imported from.
keepsPath(lines, key, p) == lines

\* Every line that begins with the key becomes the key and the new value.
changeKeyValueInConfig(lines, key, p) ==
    [n \in DOMAIN lines |->
        IF startsWith(lines[n].key, key) THEN [key |-> key, path |-> p, extra |-> FALSE] ELSE lines[n]]

\* QFile::copy: neither overwrites nor complains.
Copied(files, from, name) ==
    IF from \in Missing \/ name \in DOMAIN files THEN files ELSE With(files, name, from)

\* copyConfigFile of on_cmdImport_clicked.  A path that is neither absolute nor
\* a name is sought and wanted below folders, which are not made.
copyConfigFile(s, key) ==
    LET p == valueFromConfigKey(s.lines, key)
        dest == fileNameOfAbsolutePath(p)
    IN  IF p = NoFile THEN s
        ELSE [lines |-> IF isGivenPathAbsolute(p) THEN changeKeyValueInConfig(s.lines, key, dest) ELSE s.lines,
              files |-> IF isGivenPathAbsolute(p) \/ Beside(p) THEN Copied(s.files, p, p.name) ELSE s.files]

\* for (const auto &key : keys): the lines and files after each key.
copiesOf(lines) ==
    LET copied[k \in 0 .. Len(keys)] ==
            IF k = 0 THEN [lines |-> lines, files |-> << >>] ELSE copyConfigFile(copied[k - 1], keys[k])
    IN  copied[Len(keys)]

\* What an import can get right: every path is a name or has a colon, can be
\* read and has no blank, no two files have one name, and no other line is
\* taken for the line.
PlainLine(lines, n) ==
    /\ lines[n].key \in Range(keys)
    /\ ~lines[n].path.spaced /\ lines[n].path \notin Missing
    /\ isGivenPathAbsolute(lines[n].path) \/ Beside(lines[n].path)
    /\ \A m \in DOMAIN lines \ {n} :
          /\ lines[m].key # lines[n].key
          /\ lines[m].path.name = lines[n].path.name => lines[m].path = lines[n].path
          /\ isGivenPathAbsolute(lines[n].path) => ~startsWith(lines[m].key, lines[n].key)
Plain(lines) == \A n \in DOMAIN lines : lines[n].path # NoFile => PlainLine(lines, n)

-----------------------------------------------------------------------------
\* Configs: operators from [t, l] (table and list) to [t, l], over the folders d

Readable(d, r) == r.dir \in DOMAIN d /\ r.file \in DOMAIN d[r.dir].ovpn

\* Crypt::decodeToPlaintext: what was encrypted with the program's own key
\* comes back only under that key; otherwise a box, and garbage.
Decodes(key) == key = "own"

\* refreshConfigs: with a foreign key no path can be read.
refreshConfigs(c, d, key) ==
    LET kept == {n \in DOMAIN c.t : Decodes(key) /\ Readable(d, c.t[n])}
    IN  [t |-> Restrict(c.t, kept),
         l |-> [n \in kept |-> IF n \in DOMAIN c.l THEN c.l[n] ELSE c.t[n]]]

NamesOf(f) == {f[n].name : n \in DOMAIN f}

\* The row of a config n in folder m; a new one gets the next id.
Row(m, n) == [name |-> n, dir |-> m, file |-> n]
NextId(t) == Max({0} \cup DOMAIN t) + 1

\* One .ovpn of findConfigsInDir, with ConfigExists in between.
FindsOne(c, d, m, n) ==
    LET r == refreshConfigs(c, d, "own")
    IN  IF n \in NamesOf(c.t) THEN c
        ELSE IF n \in NamesOf(r.l) THEN r
        ELSE [t |-> With(r.t, NextId(r.t), Row(m, n)), l |-> r.l]

\* A folder in the order of its names, and all folders in the order of theirs.
Last == Max({0} \cup Names)
FindsFile(c, d, m, n) == IF n \in DOMAIN d[m].ovpn THEN FindsOne(c, d, m, n) ELSE c
FindsIn(c, d, m) ==
    LET found[k \in 0 .. Last + 1] == IF k = 0 THEN c ELSE FindsFile(found[k - 1], d, m, k - 1)
    IN  found[Last + 1]
FindsFolder(c, d, m) == IF m \in DOMAIN d THEN FindsIn(c, d, m) ELSE c
findConfigsInDir(c, d) ==
    LET found[k \in 0 .. Last + 1] == IF k = 0 THEN c ELSE FindsFolder(found[k - 1], d, k - 1)
    IN  found[Last + 1]

\* findConfigsInDir, refreshConfigs
checkForNewConfigAndRefreshUI(d, l) ==
    LET c == refreshConfigs(findConfigsInDir([t |-> table, l |-> l], d), d, "own")
    IN  table' = c.t /\ myList' = c.l

Refreshes(d, t) ==
    LET c == refreshConfigs([t |-> t, l |-> myList], d, secretKey)
    IN  table' = c.t /\ myList' = c.l

-----------------------------------------------------------------------------
FilesInit ==
    /\ dirs \in Given /\ table = << >> /\ myList = << >>
    /\ secretKey = "own" /\ box = FALSE
    /\ archives = {} /\ torn = {} /\ gone = {}
    /\ acts = 0

\* An id that is used again has no history.
StillTorn == {id \in torn \cap DOMAIN table' : table'[id] = table[id]}
Forgets == torn' = StillTorn /\ gone' = {}

\* Utils::isLegalFileName.  The wizard does not ask, but cannot make the folder.
isLegalFileName(n) == n \notin Illegal

Acts == ~box /\ acts < MaxActs /\ acts' = acts + 1

\* What the config's lines stood for when the files were chosen.
Wanted(lines) == [n \in DOMAIN lines |-> lines[n].path]

\* on_cmdImport_clicked for an .ovpn.  An unreadable file leaves its folder.
ImportOvpn(s, n, opens) ==
    /\ Acts
    /\ isLegalFileName(n) /\ n \notin NamesOf(table) /\ n \notin DOMAIN dirs
    /\ LET to == copiesOf(s)
           c == [lines |-> to.lines, want |-> Wanted(s), plain |-> Plain(s)]
       IN  IF opens
           THEN /\ dirs' = With(dirs, n, [ovpn |-> With(<< >>, n, c), files |-> to.files])
                /\ checkForNewConfigAndRefreshUI(dirs', myList)
           ELSE dirs' = With(dirs, n, EmptyDir) /\ UNCHANGED <<table, myList>>
    /\ UNCHANGED <<secretKey, box, archives>>
    /\ Forgets

\* CZip::archive and extract: every file of the folder (the configs have no
\* folders below them), under its own name.
archive(d, base) == [base |-> base, ovpn |-> d.ovpn, files |-> d.files]
extract(x) == [ovpn |-> x.ovpn, files |-> x.files]

\* ExportWidget::on_cmdExport_clicked.  If the backup cannot be written the
\* user is told that the export has ended as well.
Export(id, written) ==
    /\ Acts
    /\ Readable(dirs, myList[id])
    /\ archives' = IF written
                   THEN {x \in archives : x.base # myList[id].file}
                        \cup {archive(dirs[myList[id].dir], myList[id].file)}
                   ELSE {x \in archives : x.base # myList[id].file}
    /\ UNCHANGED <<dirs, table, myList, secretKey, box>>
    /\ Forgets

\* The user renames a backup.
RenameArchive(x, n) ==
    /\ Acts
    /\ isLegalFileName(n) /\ n \notin {y.base : y \in archives}
    /\ archives' = (archives \ {x}) \cup {archive(x, n)}
    /\ UNCHANGED <<dirs, table, myList, secretKey, box>>
    /\ Forgets

MayUnpack(n) == isLegalFileName(n) /\ n \notin NamesOf(table) /\ (n \in DOMAIN dirs => dirs[n] = EmptyDir)

\* The right password: CZip::extract, and the .ovpn gets the name that was
\* chosen if it has the backup's name and no other has that one.  Without an
\* .ovpn of that name the import has failed, and rmdir leaves a folder that is
\* not empty.
CryptImport(x, n) ==
    /\ Acts
    /\ MayUnpack(n)
    /\ LET to == extract(x)
           ovpn == IF x.base \in DOMAIN to.ovpn /\ n \notin DOMAIN to.ovpn
                   THEN With(Without(to.ovpn, {x.base}), n, to.ovpn[x.base]) ELSE to.ovpn
       IN  /\ dirs' = With(dirs, n, [ovpn |-> ovpn, files |-> to.files])
           /\ IF n \in DOMAIN ovpn THEN checkForNewConfigAndRefreshUI(dirs', myList)
              ELSE UNCHANGED <<table, myList>>
    /\ UNCHANGED <<secretKey, box, archives>>
    /\ Forgets

\* A wrong password: decodeToPlaintextWithKey shows its box while secretKey
\* is the password.
CryptFails(n) ==
    /\ Acts
    /\ archives # {} /\ MayUnpack(n)
    /\ dirs' = With(dirs, n, EmptyDir)
    /\ secretKey' = "password"
    /\ box' = TRUE
    /\ UNCHANGED <<table, myList, archives>>
    /\ Forgets

\* The box is closed; the archive cannot be read and is removed.
BoxClosed ==
    /\ box /\ box' = FALSE
    /\ secretKey' = "own"
    /\ UNCHANGED <<dirs, table, myList, archives, acts>>
    /\ Forgets

\* VpnWizard::accept and what follows in showWizard, whether the wizard was
\* finished or given up.  A file of the same name as one before is not copied
\* again; the copying stops at the first file that cannot be copied.
WizardLines(p) ==
    [k \in 1 .. 3 |-> [key |-> keys[k], path |-> fileNameOfAbsolutePath(p[k]), extra |-> FALSE]]
Again(p, k) == \E j \in 1 .. k - 1 : p[j].name = p[k].name
Refused(p, old, fails) ==
    {k \in 1 .. 3 : ~Again(p, k) /\ (k = fails \/ p[k] \in Missing \/ p[k].name \in DOMAIN old)}
WizardFiles(p, old, fails) ==
    LET copied == {k \in 1 .. 3 : ~Again(p, k) /\ \A j \in 1 .. k : j \notin Refused(p, old, fails)}
    IN  [x \in DOMAIN old \cup {p[k].name : k \in copied} |->
            IF x \in DOMAIN old THEN old[x] ELSE p[CHOOSE k \in copied : p[k].name = x]]
PlainPicks(p) == \A j, k \in 1 .. 3 : p[j].name = p[k].name => p[j] = p[k]
Wizard(p, n, fails) ==
    /\ Acts
    /\ isLegalFileName(n) /\ (n \in DOMAIN dirs => n \notin DOMAIN dirs[n].ovpn)
    /\ LET old == IF n \in DOMAIN dirs THEN dirs[n] ELSE EmptyDir
           c == [lines |-> WizardLines(p), want |-> p,
                 plain |-> PlainPicks(p) /\ Refused(p, old.files, fails) = {}]
       IN  /\ dirs' = With(dirs, n, [ovpn |-> With(old.ovpn, n, c), files |-> WizardFiles(p, old.files, fails)])
           /\ checkForNewConfigAndRefreshUI(dirs', myList)
    /\ UNCHANGED <<secretKey, box, archives>>
    /\ Forgets

\* Fault: the row goes on naming the old path.
renamesOnly(id, n) == table' = With(table, id, [table[id] EXCEPT !.name = n])

\* The two UPDATEs of on_cmdSetName_clicked.
Updates(id, n) == table' = With(table, id, Row(n, n))

\* on_cmdSetName_clicked.  QDir::rename and QFile::rename may fail, and do if
\* the new name is taken; nobody asks.
on_cmdSetName_clicked(id, n, moves) ==
    /\ Acts
    /\ id \in DOMAIN myList
    /\ isLegalFileName(n) /\ n \notin NamesOf(Without(table, {id}))
    /\ LET old == myList[id].name
           moved == moves /\ old \in DOMAIN dirs /\ n \notin DOMAIN dirs
           d == IF moved THEN With(Without(dirs, {old}), n, dirs[old]) ELSE dirs
           o == IF n \in DOMAIN d THEN d[n].ovpn ELSE << >>
           beside == {m \in DOMAIN table \ {id} : moved /\ table[m].dir = old}
       IN  /\ dirs' = IF old \in DOMAIN o /\ n \notin DOMAIN o
                      THEN With(d, n, [ovpn |-> With(Without(o, {old}), n, o[old]), files |-> d[n].files])
                      ELSE d
           /\ torn' = beside \cup IF moved /\ old \in DOMAIN o THEN torn \ {id} ELSE torn \cup {id}
    /\ Updates(id, n)
    /\ myList' = With(myList, id, Row(n, n))
    /\ gone' = {}
    /\ UNCHANGED <<secretKey, box, archives>>

\* ContextRemove: the whole folder of the entry's path goes, then its row.
ContextRemove(id) ==
    /\ Acts
    /\ id \in DOMAIN myList
    /\ dirs' = Without(dirs, {myList[id].dir})
    /\ gone' = {m \in DOMAIN table : table[m].dir = myList[id].dir}
    /\ Refreshes(dirs', Without(table, {id}))
    /\ torn' = StillTorn
    /\ UNCHANGED <<secretKey, box, archives>>

\* The window is shown, also while a box is open.
ShowWindow ==
    /\ Refreshes(dirs, table)
    /\ UNCHANGED <<dirs, secretKey, box, archives, acts>>
    /\ Forgets

\* The client is started again: whatever lies in the folders is listed.
Restart ==
    /\ secretKey' = "own" /\ box' = FALSE
    /\ checkForNewConfigAndRefreshUI(dirs, << >>)
    /\ UNCHANGED <<dirs, archives, acts>>
    /\ Forgets

Next ==
    \/ \E s \in Sources, n \in Names, opens \in BOOLEAN : ImportOvpn(s, n, opens)
    \/ \E id \in DOMAIN myList, written \in BOOLEAN : Export(id, written)
    \/ \E x \in archives, n \in Names : RenameArchive(x, n) \/ CryptImport(x, n)
    \/ \E n \in Names : CryptFails(n)
    \/ BoxClosed
    \/ \E p \in Picks, n \in Names, fails \in 1 .. 4 : Wizard(p, n, fails)
    \/ \E id \in DOMAIN table, n \in Names, moves \in BOOLEAN : on_cmdSetName_clicked(id, n, moves)
    \/ \E id \in DOMAIN table : ContextRemove(id)
    \/ ShowWindow
    \/ Restart

Spec == FilesInit /\ [][Next]_fileVars

-----------------------------------------------------------------------------
\* Properties

\* Every line of a listed config that names a file names one beside it, and
\* it is the file that was meant when the config was imported or made, also
\* after renames, backups and restarts.  Not for a config that was not plain
\* when it came (Plain, PlainPicks), or that had been there before.
FilesArePresent(d, c) ==
    \A n \in DOMAIN c.lines :
       c.lines[n].path # NoFile =>
          /\ Beside(c.lines[n].path)
          /\ c.lines[n].path.name \in DOMAIN d.files
          /\ d.files[c.lines[n].path.name] = c.want[n]
RefsRight ==
    \A id \in DOMAIN table :
       Readable(dirs, table[id]) =>
          LET d == dirs[table[id].dir]
              c == d.ovpn[table[id].file]
          IN  c.plain => FilesArePresent(d, c)

\* An entry of the table, with its credentials and its checksum, vanishes
\* only if the user removed it or a folder it shares, if a rename did not
\* move its files or moved the folder it shares, or if the list is refreshed
\* while the key is foreign.
EntryKept ==
    [][\A id \in DOMAIN table \ DOMAIN table' :
          id \in gone' \cup torn \/ (box /\ secretKey # "own")]_fileVars
=============================================================================
