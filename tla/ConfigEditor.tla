---------------------------- MODULE ConfigEditor ----------------------------
(***************************************************************************)
(* One configuration in the hands of the client's editors: the advanced    *)
(* editor (AdvConfigSettingsWidget, with InlineWindow), the quick editor   *)
(* (QuickEditWidget) and the context menu's Create Checksum.  Both editors *)
(* are modal: one is open at a time.  Other programs may write the file at *)
(* any time, which is what the checksum is to notice.  The client is the   *)
(* installed one: the portable one writes no checksums.                    *)
(***************************************************************************)
EXTENDS ConfigText

CONSTANTS
    StartTexts,   \* the texts the file may have
    TypedTexts,   \* what the user may make of it in the quick editor
    InlineTexts,  \* and in InlineWindow, for each block
    MaxActs       \* bound: dialogs opened, edits and writes of others; one more for
                  \* a save that leaves the dialog open, which may make the file longer

ASSUME ConfigEditorAssumption == MaxActs \in Nat

VARIABLES
    file,       \* the text on disk
    folder,     \* the ca.pem in the folder of the configuration: "none", "old", "picked"
    scripts,    \* scripts.conf: AC and its delay TO, "" if there is none
    stored,     \* the checksum in the registry, << >> if there is none
    dlg,        \* the dialog that is open; "hung": its loop does not end
    form,       \* the fields of the advanced editor
    typed,      \* the text in the quick editor
    acts,
    opened,     \* history: the file when the dialog was opened, << >> if it could not be read
    edited,     \* history: the user has changed a field
    saved,      \* history: who wrote the file last, if anybody did
    summed,     \* history: a checksum was made of what was written last
    last,       \* history: the form the file was written from
    basis       \* history: the file before that, if no field had been changed

history == <<opened, edited, saved, summed, last, basis>>
vars == <<file, folder, scripts, stored, dlg, form, typed, acts, history>>

-----------------------------------------------------------------------------
Acts == acts < MaxActs /\ acts' = acts + 1

NoScripts == [AC |-> "", TO |-> ""]
Fresh == resetFields @@ [AC |-> "", delay |-> "5000"]

Init ==
    /\ file \in StartTexts
    /\ folder \in {"none", "old"}
    /\ scripts = NoScripts
    /\ stored = base64OfFileContent(file)
    /\ dlg = "none" /\ form = Fresh /\ typed = << >> /\ acts = 0
    /\ opened = << >> /\ edited = FALSE /\ saved = "none" /\ summed = FALSE
    /\ last = << >> /\ basis = << >>

\* Another program writes the file.
Write(text) ==
    /\ Acts
    /\ file' = text /\ saved' = "other" /\ summed' = FALSE /\ last' = << >> /\ basis' = << >>
    /\ UNCHANGED <<folder, scripts, stored, dlg, form, typed, opened, edited>>

\* Checksum::createNewChecksum runs checksum.exe as administrator, which the
\* user may decline.
createNewChecksum(sum, allowed) ==
    /\ stored' = IF allowed THEN sum ELSE stored
    /\ summed' = allowed

createChecksumOfConfig(allowed) ==
    /\ dlg = "none" /\ Acts
    /\ createNewChecksum(base64OfFileContent(file), allowed)
    /\ UNCHANGED <<file, folder, scripts, dlg, form, typed, opened, edited, saved, last, basis>>

-----------------------------------------------------------------------------
\* The advanced editor.

\* ConnectionData::getScript
getScript(type) == scripts[type]

\* The dialog is shown.  If the file cannot be read the user is told so, and
\* the dialog stays with empty fields.
showEvent(readable) ==
    /\ dlg = "none" /\ Acts
    /\ LET f == fillFieldFromConfig(file)
           delay == IF getScript("TO") = "" THEN "5000" ELSE getScript("TO")
       IN  IF readable
           THEN /\ form' = f @@ [AC |-> getScript("AC"), delay |-> delay]
                /\ opened' = file
                /\ dlg' = IF Hangs(f) THEN "hung" ELSE "adv"
           ELSE form' = Fresh /\ opened' = << >> /\ dlg' = "adv"
    /\ edited' = FALSE
    /\ UNCHANGED <<file, folder, scripts, stored, typed, saved, summed, last, basis>>

Edit(f) ==
    /\ dlg = "adv" /\ Acts
    /\ form' = f /\ edited' = TRUE
    /\ UNCHANGED <<file, folder, scripts, stored, dlg, typed, opened, saved, summed, last, basis>>

\* A check box, a line edit or a combo box.
Toggle(x) == Edit([form EXCEPT !.flags = IF x \in @ THEN @ \ {x} ELSE @ \cup {x}])
SetField(k, word) == form.field[k] # word /\ Edit([form EXCEPT !.field[k] = word])
SetProxy(words) == form.proxy # words /\ Edit([form EXCEPT !.proxy = words])
SetScript(ac, delay) == Edit([form EXCEPT !.AC = ac, !.delay = delay])

\* on_cmdGetCAPath_clicked and the other two: a file of the folder by its
\* name, any other by its path.
GetPath(k, path) == form.path[k] # path /\ Edit([form EXCEPT !.path[k] = path])

\* on_rbPkcs_toggled and on_rbNormal_toggled
rbPkcs(checked) == form.pkcs # checked /\ Edit([form EXCEPT !.pkcs = checked])

on_cmdAdd_clicked(remote) == remote[1] # "" /\ Edit([form EXCEPT !.remotes = Append(@, remote)])

\* The selected rows are removed from the last one selected to the first;
\* an index is not adjusted when a row before it goes.
on_cmdRemove_clicked(selected) ==
    LET gone(rows, i) == IF i \in DOMAIN rows THEN RemoveAt(rows, i) ELSE rows
    IN  Edit([form EXCEPT !.remotes = FoldLeft(gone, @, Reverse(selected))])

\* InlineWindow: saving sets the path to inline; closing changes nothing.
on_cmdSetInline_clicked(b, text) ==
    Edit([form EXCEPT !.path[b] = Inline, !.block[b] = text])

\* close(): the dialog goes with what is in it.
Closed == dlg' = "none" /\ form' = Fresh /\ typed' = << >> /\ opened' = << >> /\ edited' = FALSE

on_cmdClose_clicked ==
    /\ dlg \in {"adv", "quick"}
    /\ Closed
    /\ UNCHANGED <<file, folder, scripts, stored, acts, saved, summed, last, basis>>

\* QFile::copy does not overwrite, and nobody looks at its result.
Copy ==
    folder' = IF ~form.pkcs /\ Picked(form, "ca") /\ form.path["ca"] = <<"away/ca.pem">> /\ folder = "none"
              THEN "picked" ELSE folder

\* Scripts ablegen: without a script the file is removed.
SaveScripts ==
    scripts' = IF form.AC = "" THEN NoScripts ELSE [AC |-> form.AC, TO |-> form.delay]

\* Fault: the checksum is made of what the file will be.
sumsFile(content, allowed) == createNewChecksum(normalizeContent(Append(content, Blank)), allowed)

SumContent(content, allowed) == createNewChecksum(normalizeContent(content), allowed)

\* How saving ends: a file cannot be opened, the checksum is declined, or all
\* is well.
Results == {"noFile", "noScripts", "declined", "saved"}

\* The kept lines are read, then the file and then scripts.conf are written;
\* if one cannot be opened for writing the dialog stays.  If the file cannot be
\* read the user is told so, and it is written without the lines to be kept.
on_cmdSave_clicked(readable, result) ==
  LET others == getAllFieldWhichNotIntoTheInterface(file)
      hangs == readable /\ Hangs(others)
      content == Content(form, IF readable THEN others.kept ELSE << >>)
  IN
    /\ dlg = "adv"
    /\ Copy
    /\ IF result # "noFile" /\ ~hangs
       THEN /\ file' = Append(content, Blank)
            /\ SumContent(content, result # "declined")
            /\ saved' = "adv" /\ last' = form
            /\ basis' = IF ~edited /\ opened = file /\ readable THEN file ELSE << >>
       ELSE UNCHANGED <<file, stored, saved, summed, last, basis>>
    /\ IF result \in {"declined", "saved"} /\ ~hangs
       THEN SaveScripts /\ Closed
       ELSE dlg' = (IF hangs THEN "hung" ELSE dlg) /\ UNCHANGED <<scripts, form, typed, opened, edited>>
    /\ IF result = "noScripts" THEN acts <= MaxActs /\ acts' = acts + 1 ELSE UNCHANGED acts

-----------------------------------------------------------------------------
\* The quick editor.

\* getContent ends every line with a newline, also the last one.
getContent(text) == IF ReadLines(text) = << >> THEN <<Blank>> ELSE Append(ReadLines(text), Blank)

QuickShow ==
    /\ dlg = "none" /\ Acts
    /\ dlg' = "quick" /\ typed' = getContent(file)
    /\ UNCHANGED <<file, folder, scripts, stored, form, history>>

Type(text) ==
    /\ dlg = "quick" /\ Acts
    /\ typed' = text
    /\ UNCHANGED <<file, folder, scripts, stored, dlg, form, history>>

\* One newline at the end is taken away.
fileContent == IF Len(typed) > 1 /\ Last(typed) = Blank THEN Front(typed) ELSE typed

QuickSave(result) ==
    /\ dlg = "quick"
    /\ IF result # "noFile"
       THEN /\ file' = fileContent
            /\ createNewChecksum(normalizeContent(fileContent), result # "declined")
            /\ saved' = "quick" /\ last' = << >> /\ basis' = << >>
            /\ Closed
       ELSE UNCHANGED <<file, stored, dlg, form, typed, history>>
    /\ UNCHANGED <<folder, scripts, acts>>

-----------------------------------------------------------------------------
Picks == {<<"away/ca.pem">>, <<"ca.pem">>}

Edits ==
    \/ \E x \in {"mute-replay-warnings", "remote-cert-tls"} : Toggle(x)
    \/ SetField("mute", "1") \/ SetField("dev-node", "n 2")
    \/ \E word \in {"", "tap"} : SetField("dev", word)
    \/ \E auth \in {"", "auto"} : SetProxy(<<"h", "1", auth, "basic">>)
    \/ SetProxy(<<"n 2", "1", "auto", "basic">>)
    \/ SetScript("s", "100")
    \/ \E path \in Picks : GetPath("ca", path)
    \/ \E checked \in BOOLEAN : rbPkcs(checked)
    \/ \E host \in {"g", "n 2"} : on_cmdAdd_clicked(<<host, "2">>)
    \/ \E selected \in SeqOf(DOMAIN form.remotes, 2) : IsInjective(selected) /\ on_cmdRemove_clicked(selected)
    \/ \E b \in DOMAIN InlineTexts : \E text \in InlineTexts[b] : on_cmdSetInline_clicked(b, text)

Next ==
    \/ \E text \in TypedTexts : Write(text) \/ Type(text)
    \/ \E allowed \in BOOLEAN : createChecksumOfConfig(allowed)
    \/ \E readable \in BOOLEAN : showEvent(readable)
    \/ Edits
    \/ on_cmdClose_clicked
    \/ \E readable \in BOOLEAN, result \in Results : on_cmdSave_clicked(readable, result)
    \/ QuickShow
    \/ \E result \in Results \ {"noScripts"} : QuickSave(result)

Spec == Init /\ [][Next]_vars

-----------------------------------------------------------------------------
\* What OpenVPN makes of a text: its options, the hosts in their order, and
\* the lines of each block.
Tags == {"ca", "cert", "key", "tls-auth"}
Begin(tag) == IF tag \in Blocks THEN Opening(tag) ELSE "<tls-auth>"
End(tag) == IF tag \in Blocks THEN Closing(tag) ELSE "</tls-auth>"

Option(line) ==
    LET t == Backslashed(Trimmed(line)) IN IF Len(Unquoted(t)) = 2 THEN Unquoted(t) ELSE t

Meaning(text) ==
    FoldLeft(LAMBDA m, line :
                LET t == Trimmed(line)
                IN  IF t = << >> THEN m
                    ELSE IF m.inside # "" /\ Starts(line[1], End(m.inside)) THEN [m EXCEPT !.inside = ""]
                    ELSE IF m.inside # "" THEN [m EXCEPT !.blocks[m.inside] = Append(@, t)]
                    ELSE IF \E tag \in Tags : t = <<Begin(tag)>>
                    THEN [m EXCEPT !.inside = CHOOSE tag \in Tags : t = <<Begin(tag)>>]
                    ELSE IF t[1] \in {"###", "#", "#Fields"} THEN m
                    ELSE IF t[1] = "remote" THEN [m EXCEPT !.hosts = Append(@, t)]
                    ELSE [m EXCEPT !.options = @ \cup {Option(line)}],
             [inside |-> "", blocks |-> [tag \in Tags |-> << >>], hosts |-> << >>, options |-> {}],
             ReadLines(text))

\* The tags in a text are at the beginning of lines, and none that closes the
\* block comes before one that opens it.
TagsStand(b, text) ==
    /\ \A i \in DOMAIN text :
          /\ Bears(text[i], Opening(b)) => Opens(text[i], b)
          /\ Bears(text[i], Closing(b)) => Closes(text[i], b)
    /\ \A i, j \in DOMAIN text : Opens(text[i], b) /\ Closes(text[j], b) => i < j

\* Texts the editor can show as they are: no option twice, none that begins
\* with the keyword of another one before it or of a field, no line indented,
\* none that names a file with a blank at its end, values the boxes offer, one
\* certificate in each block, no tag within a line, and either pkcs12 or the
\* files it replaces.
Plain(text) ==
    LET lines == ReadLines(text)
        m == Meaning(text)
        of(k) == {i \in DOMAIN lines : lines[i][1] = k}
        first(k) == {i \in DOMAIN lines : Starts(lines[i][1], k)}
    IN  /\ m.inside = ""
        /\ \A i \in DOMAIN lines : lines[i] = Blank \/ lines[i][1] # ""
        /\ \A i \in DOMAIN lines : lines[i][1] \notin {"key-direction", "tun-mtu-extra", "ca12"}
        /\ \A k \in Fields : \A i \in of(k) : of(k) = {i} /\ Value(k, lines[i]) = Arg(lines[i], 2)
        /\ \A k \in Paths \cup {"http-proxy"} : Cardinality(of(k)) <= 1
        /\ \A k \in Paths : \A i \in of(k) : Last(lines[i]) # ""
        /\ \A k \in Fields \cup Paths : first(k) # {} => lines[Min(first(k))][1] = k
        /\ \A i \in of("remote") : Len(lines[i]) = 3
        /\ \A i \in of("http-proxy") : SelectSeq(Proxy(lines[i]), LAMBDA w : w # "") = Tail(lines[i])
        /\ \A i \in of("resolve-retry") : lines[i] = FlagLine("resolve-retry")
        /\ of("pkcs12") # {} => of("ca") \cup of("cert") \cup of("key") \cup of("remote-cert-tls") = {}
        /\ \A i \in of("pkcs12") : Len(lines[i]) = 2
        /\ \A b \in Blocks : Cardinality(of(b) \cup {i \in DOMAIN lines : Opens(lines[i], b)}) <= 1
        /\ \A i \in DOMAIN lines : lines[i][1] # "<ca>#"
        /\ \A b \in Blocks : TagsStand(b, m.blocks[b])
        /\ \A b \in Blocks : \A i \in DOMAIN m.blocks[b] : m.blocks[b][i][1] = "END" => i = Len(m.blocks[b])

\* Safety: opening a plain configuration in the advanced editor and saving it
\* without a change, when it could be read both times, means the same to
\* OpenVPN: no option, host or block is lost, doubled, turned into another one
\* or put into another order.
KeepsPlain ==
    basis # << >> /\ Plain(basis) => Meaning(file) = Meaning(basis)

TagsWritten(f) == \A b \in Blocks : f.path[b] = Inline => TagsStand(b, f.block[b])

\* Forms that can be read back.  An authentication method without a type is
\* written where the type is read, dev-node alone is read as dev too, a value
\* with a blank in it is read as an empty one, a host with one as a host and a
\* port, and the tags of a block may be missing.
Readable(f) ==
    /\ f.proxy[3] = "" => f.proxy[4] = ""
    /\ f.field["dev"] = "" => f.field["dev-node"] = ""
    /\ \A k \in Texts : Len(Words(f.field[k])) = 1
    /\ \A i \in DOMAIN f.remotes : Len(Words(f.remotes[i][1])) = 1
    /\ Len(Words(f.proxy[1])) = 1
    /\ TagsWritten(f)



\* The text of the quick editor ended in more than one newline.
Trailing == Len(file) > 1 /\ Last(file) = Blank

\* Safety: what an editor has saved, with its checksum, is accepted when it is
\* connected: the checksum made of the text in memory is that of the file.
\* The exception is a text that ended in two newlines in the quick editor.
SavedIsAccepted ==
    saved \in {"adv", "quick"} /\ summed /\ ~(saved = "quick" /\ Trailing) => stored = base64OfFileContent(file)
=============================================================================
