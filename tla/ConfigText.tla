----------------------------- MODULE ConfigText -----------------------------
(***************************************************************************)
(* The text of an OpenVPN configuration as the advanced editor reads and   *)
(* writes it: AdvConfigSettingsWidget's fillFieldFromConfig,               *)
(* on_cmdSave_clicked and getAllFieldWhichNotIntoTheInterface.             *)
(*                                                                         *)
(* A text is what split("\n") makes of it, a sequence of lines, and a line *)
(* what split(" ") makes of it, a sequence of words; so an indented line   *)
(* begins with the word "".  Quote stands for a quotation mark, which is   *)
(* no word, and Joint for the place where two lines were put together      *)
(* without anything between them.  Letters have no case, except in the     *)
(* names of ciphers, which the editor compares as they are.                *)
(***************************************************************************)
EXTENDS Integers, Sequences, FiniteSets, SequencesExt

Blank == <<"">>
Inline == <<"inline">>
Quote == "'"
Joint == "&"

\* Check boxes, line edits and combo boxes, paths, and blocks.
Flags == {"client", "float", "comp-lzo", "nobind", "persist-key", "persist-tun", "auth-nocache",
          "redirect-gateway", "mssfix", "block-outside-dns", "remote-random", "resolve-retry",
          "http-proxy-retry", "mute-replay-warnings", "remote-cert-tls"}
Texts == {"tun-mtu", "fragment", "verb", "mute", "route-delay", "dev-node", "user", "group"}
Combos == {"dev", "proto", "route-method", "cipher"}
Fields == Texts \cup Combos
Paths == {"ca", "cert", "key", "pkcs12"}
Blocks == {"ca", "cert", "key"}

fillCipherCombo ==
    <<"DES-CFB", "DES-CBC", "RC2-CBC", "RC2-CFB", "RC2-OFB", "DES-EDE-CBC", "DES-EDE3-CBC", "DES-OFB",
      "DES-EDE-CFB", "DES-EDE3-CFB", "DES-EDE-OFB", "DES-EDE3-OFB", "DESX-CBC", "BF-CBC", "BF-CFB",
      "BF-OFB", "RC2-40-CBC", "CAST5-CBC", "CAST5-CFB", "CAST5-OFB", "RC2-64-CBC", "AES-128-CBC",
      "AES-128-OFB", "AES-128-CFB", "AES-192-CBC", "AES-192-OFB", "AES-192-CFB", "AES-256-CBC",
      "AES-256-OFB", "AES-256-CFB", "AES-128-CFB1", "AES-192-CFB1", "AES-256-CFB1", "AES-128-CFB8",
      "AES-192-CFB8", "AES-256-CFB8", "DES-CFB1", "DES-CFB8">>

\* 0 is Standard, for which nothing is written.
getIndexFromCipher(cipher) ==
    IF cipher \in ToSet(fillCipherCombo)
    THEN CHOOSE i \in DOMAIN fillCipherCombo : fillCipherCombo[i] = cipher ELSE 0

-----------------------------------------------------------------------------
\* Words and lines.

\* Other words of configurations that begin with a keyword of the form, or
\* with a tag; ca12 is a line of a static key, which is written in hexadecimal.
Longer == {<<"dev", "dev-node">>, <<"mute", "mute-replay-warnings">>, <<"key", "key-direction">>,
           <<"tun-mtu", "tun-mtu-extra">>, <<"ca", "ca12">>, <<"<ca>", "<ca>#">>, <<"END", "END</ca>">>}
Starts(word, key) == word = key \/ <<key, word>> \in Longer
Suffix(word) ==
    CASE word = "key-direction" -> "-direction" [] word = "ca12" -> "12" [] word \in Paths -> ""

\* Words that have a tag in them and do not begin with it.
Within == {<<"</ca>", "END</ca>">>, <<"<ca>", "#<ca>">>}
Bears(line, tag) == \E i \in DOMAIN line : Starts(line[i], tag) \/ <<tag, line[i]>> \in Within

\* What a line edit holds is one string, which may have a blank in it.
Words(value) == IF value = "n 2" THEN <<"n", "2">> ELSE <<value>>

Trimmed(line) ==
    LET words == {i \in DOMAIN line : line[i] # ""}
    IN  IF words = {} THEN << >> ELSE SubSeq(line, Min(words), Max(words))

Unquoted(words) == Trimmed(SelectSeq(words, LAMBDA w : w # Quote))
Quoted(words) == <<Quote>> \o words \o <<Quote>>

\* The last letters of the keywords of paths.
LastLetters ==
    [ca |-> <<"a", "ca">>, key |-> <<"y", "ey", "key">>, cert |-> <<"t", "rt", "ert", "cert">>,
     pkcs12 |-> <<"2", "12", "s12", "cs12", "kcs12", "pkcs12">>]

\* What follows a keyword.  The line is trimmed and then cut by its length
\* before that: for each blank at its end a letter of the keyword stays.
Rest(line, key) ==
    LET t == Trimmed(line)
        blanks == Min({Len(line) - Len(t), Len(LastLetters[key])})
    IN  <<(IF blanks = 0 THEN "" ELSE LastLetters[key][blanks]) \o Suffix(t[1])>> \o Tail(t)
Arg(line, i) == IF i <= Len(line) THEN line[i] ELSE ""

IsRemote(line) == Len(Trimmed(line)) > 1 /\ Head(Trimmed(line)) = "remote"
IsProxy(line) == Len(Trimmed(line)) > 1 /\ Head(Trimmed(line)) = "http-proxy"

FlagLine(x) ==
    IF x = "remote-cert-tls" THEN <<x, "server">> ELSE IF x = "resolve-retry" THEN <<x, "infinite">> ELSE <<x>>

IsFlag(x, line) ==
    \/ x = "resolve-retry" /\ line[1] = x
    \/ x = "http-proxy-retry" /\ Arg(Trimmed(line), 1) = x
    \/ x \notin {"resolve-retry", "http-proxy-retry"} /\ Trimmed(line) = FlagLine(x)

Opening(b) == [ca |-> "<ca>", cert |-> "<cert>", key |-> "<key>"][b]
Closing(b) == [ca |-> "</ca>", cert |-> "</cert>", key |-> "</key>"][b]
Opens(line, b) == Starts(line[1], Opening(b))
Closes(line, b) == Starts(line[1], Closing(b))

\* readLine until the end: the newline at the end of a text begins no line.
ReadLines(text) == IF Last(text) = Blank THEN Front(text) ELSE text

-----------------------------------------------------------------------------
\* fillFieldFromConfig.  inside is the block whose lines are being read, and
\* was what the paths were when they were read.
resetFields ==
    [flags |-> {}, field |-> [k \in Fields |-> ""],
     path |-> [k \in Paths |-> << >>], was |-> [k \in Paths |-> << >>],
     block |-> [b \in Blocks |-> <<Blank>>], remotes |-> << >>, proxy |-> <<"", "", "", "">>,
     pkcs |-> FALSE, seen |-> {}, inside |-> ""]

\* What a combo box or a line edit makes of a value.
Shown(k, word) ==
    CASE k = "dev" -> (IF word = "tun" THEN "tun" ELSE "tap")
      [] k = "proto" -> (IF word = "tcp" THEN "tcp" ELSE "udp")
      [] k = "route-method" -> (IF word = "exe" THEN "exe" ELSE "ipapi")
      [] k = "cipher" -> (IF getIndexFromCipher(word) # 0 THEN word ELSE "")
      [] OTHER -> word

Value(k, line) == IF Len(line) = 2 THEN Shown(k, line[2]) ELSE ""


Proxy(line) ==
    <<Arg(line, 2), Arg(line, 3),
      IF Arg(line, 4) \in {"stdin", "auto", "auto-nct"} THEN line[4] ELSE "",
      IF Arg(line, 5) \in {"basic", "ntlm"} THEN line[5] ELSE "">>

\* A line of a block: no newline follows the line that ends a certificate or
\* a private key.
AddLine(text, line) ==
    LET joined == IF Last(text) = Blank THEN line ELSE Last(text) \o <<Joint>> \o line
    IN  Front(text) \o <<joined>> \o (IF Starts(line[1], "END") THEN << >> ELSE <<Blank>>)

BlockLine(f, line) ==
    IF Closes(line, f.inside) THEN [f EXCEPT !.inside = ""]
    ELSE IF line = Blank /\ f.inside # "key" THEN f
    ELSE [f EXCEPT !.block[f.inside] = AddLine(@, line)]

\* The fields a line is for: the first line that begins with a keyword is
\* taken, whatever its first word is.
Hits(f, line) == {k \in (Fields \cup Paths) \ f.seen : Starts(line[1], k)}

PlainLine(f, line) ==
    LET hits == Hits(f, line)
        proxies == IsProxy(line) /\ "http-proxy" \notin f.seen
        named(old) == [k \in Paths |-> IF k \in hits THEN Unquoted(Rest(line, k)) ELSE old[k]]
    IN  [f EXCEPT
          !.seen = @ \cup hits \cup (IF proxies THEN {"http-proxy"} ELSE {}),
          !.flags = @ \cup {x \in Flags : IsFlag(x, line)},
          !.field = [k \in Fields |->
                       IF k \in hits THEN Value(k, line)
                       ELSE IF k = "proto" /\ IsRemote(line) /\ Len(line) = 4 THEN Shown(k, line[4])
                       ELSE f.field[k]],
          !.path = named(f.path), !.was = named(f.was),
          !.remotes = IF IsRemote(line) /\ Len(line) >= 3 THEN Append(@, <<line[2], line[3]>>) ELSE @,
          !.proxy = IF proxies THEN Proxy(line) ELSE @]

LoadLine(f, line) ==
    LET opened == {b \in Blocks \ f.seen : Opens(line, b)}
        b == CHOOSE x \in opened : TRUE
    IN  IF f.inside # "" THEN BlockLine(f, line)
        ELSE IF opened # {} THEN [f EXCEPT !.path[b] = Inline, !.was[b] = Inline, !.inside = b]
        ELSE PlainLine(f, line)

fillFieldFromConfig(text) ==
    LET f == FoldLeft(LoadLine, resetFields, ReadLines(text))
    IN  [f EXCEPT !.pkcs = "pkcs12" \in f.seen]

\* A block that is not closed: the loop that looks for its end never ends.
Hangs(f) == f.inside # ""

-----------------------------------------------------------------------------
\* getAllFieldWhichNotIntoTheInterface
Header == <<"###">>
FieldsNote == <<"#Fields", "which">>

\* Fault: the hosts are kept although the form has them.
keepsHosts(line) ==
    LET t == Trimmed(line)
    IN  \/ t = << >> \/ t = Header \/ t = FieldsNote
        \/ \E k \in Fields \cup Paths : Starts(t[1], k)
        \/ \E x \in Flags : IsFlag(x, t)
        \/ IsProxy(line)

\* Here a line is trimmed before it is compared.
Managed(line) ==
    LET t == Trimmed(line)
    IN  \/ t = << >> \/ t = Header \/ t = FieldsNote
        \/ \E k \in Fields \cup Paths : Starts(t[1], k)
        \/ \E x \in Flags : IsFlag(x, t)
        \/ IsRemote(line) \/ IsProxy(line)

\* The lines that are kept.  The blocks are passed over, and here too a block
\* that is not closed keeps the loop running.
getAllFieldWhichNotIntoTheInterface(text) ==
    FoldLeft(LAMBDA acc, line :
                IF acc.inside # ""
                THEN IF Closes(line, acc.inside) THEN [acc EXCEPT !.inside = ""] ELSE acc
                ELSE IF Managed(line) THEN acc
                ELSE IF \E b \in Blocks : Opens(line, b)
                THEN [acc EXCEPT !.inside = CHOOSE b \in Blocks : Opens(line, b)]
                ELSE [acc EXCEPT !.kept = Append(@, line)],
             [inside |-> "", kept |-> << >>], ReadLines(text))

-----------------------------------------------------------------------------
\* on_cmdSave_clicked

\* fileNameOfAbsolutePath: picked files are elsewhere.
NameOf(path) == IF path = <<"away/ca.pem">> THEN <<"ca.pem">> ELSE path

\* replace("/", "\\\\")
Backslashed(path) == [i \in DOMAIN path |-> IF path[i] = "d/ca.pem" THEN "d\\ca.pem" ELSE path[i]]

\* A path that was changed is copied into the folder and named there.
Picked(f, k) == f.path[k] # f.was[k] /\ f.path[k] # Inline

PathLines(f, k) ==
    IF (k = "pkcs12") # f.pkcs \/ f.path[k] = << >> \/ (f.path[k] = Inline /\ k # "pkcs12") THEN << >>
    ELSE IF Picked(f, k) THEN << <<k>> \o Quoted(NameOf(f.path[k])) >>
    ELSE IF k = "pkcs12" THEN << <<k>> \o f.path[k] >>
    ELSE << <<k>> \o Quoted(Backslashed(f.path[k])) >>

ProxyLines(f) ==
    IF f.proxy[1] = "" THEN << >>
    ELSE << <<"http-proxy">> \o Words(f.proxy[1]) \o <<f.proxy[2]>> \o SelectSeq(SubSeq(f.proxy, 3, 4), LAMBDA w : w # "") >>

Order == <<"client", "float", "comp-lzo", "float", "nobind", "persist-key", "persist-tun", "auth-nocache",
           "dev", "tun-mtu", "remote", "proto", "ca", "cert", "key", "pkcs12", "remote-cert-tls", "user",
           "group", "mssfix", "block-outside-dns", "fragment", "route-method", "dev-node", "verb",
           "route-delay", "mute", "remote-random", "resolve-retry", "http-proxy-retry", "http-proxy",
           "mute-replay-warnings", "cipher", "redirect-gateway">>

LinesOf(f, k) ==
    CASE k \in Flags -> (IF k \in f.flags /\ ~(k = "remote-cert-tls" /\ f.pkcs) THEN <<FlagLine(k)>> ELSE << >>)
      [] k \in Fields -> (IF f.field[k] # "" THEN << <<k>> \o Words(f.field[k]) >> ELSE << >>)
      [] k \in Paths -> PathLines(f, k)
      [] k = "remote" -> [i \in DOMAIN f.remotes |-> <<"remote">> \o Words(f.remotes[i][1]) \o <<f.remotes[i][2]>>]
      [] k = "http-proxy" -> ProxyLines(f)

\* A tag is added unless it is somewhere in the text, also within a line.
TagLine(text, tag) == IF \E i \in DOMAIN text : Bears(text[i], tag) THEN << >> ELSE << <<tag>> >>


BlockLines(b, text) == TagLine(text, Opening(b)) \o text \o TagLine(text, Closing(b))

InlineLines(f) ==
    FlattenSeq([i \in 1 .. 3 |->
        LET b == <<"ca", "cert", "key">>[i]
        IN  IF f.path[b] = Inline THEN BlockLines(b, f.block[b]) ELSE << >>])

\* The content that is written, but for its last newline; old are the lines
\* that are kept.
Content(f, old) ==
    LET lines == <<Header, Blank>> \o FlattenSeq([i \in DOMAIN Order |-> LinesOf(f, Order[i])]) \o InlineLines(f)
    IN  lines \o (IF old = << >> THEN <<Blank>> ELSE <<Blank, FieldsNote, Blank>> \o old)

-----------------------------------------------------------------------------
\* Checksum: normalizeContent and base64OfFileContent.  The hash of a text is
\* the text, with its lines trimmed.
normalizeContent(text) == [i \in DOMAIN text |-> Trimmed(text[i])]

base64OfFileContent(text) ==
    normalizeContent(IF ReadLines(text) = << >> THEN <<Blank>> ELSE ReadLines(text))
=============================================================================
