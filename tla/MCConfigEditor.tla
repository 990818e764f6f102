--------------------------- MODULE MCConfigEditor ---------------------------
(***************************************************************************)
(* Small texts: every piece by itself, in pairs with a piece that is      *)
(* easily taken for another one, and those in threes.                     *)
(***************************************************************************)
EXTENDS ConfigEditor

Block(tag, lines) == <<<<Begin(tag)>>>> \o lines \o <<<<End(tag)>>>>
Certificate == <<<<"BEGIN">>, <<"x">>, <<"END">>>>

\* Pieces of configurations, each a sequence of lines.
OneLine ==
    {<<FlagLine(x)>> : x \in {"float", "resolve-retry", "http-proxy-retry", "mute-replay-warnings", "remote-cert-tls"}}
    \cup {<<<<"dev", "tun">>>>, <<<<"dev-node", "n">>>>, <<<<"proto", "tcp">>>>, <<<<"route-method", "exe">>>>,
          <<<<"cipher", "AES-256-CBC">>>>, <<<<"cipher", "AES-256-GCM">>>>, <<<<"verb", "3">>>>,
          <<<<"mute", "20">>>>, <<<<"tun-mtu", "9">>>>, <<<<"tun-mtu-extra", "32">>>>, <<<<"", "dev", "tun">>>>,
          <<<<"remote", "h", "1">>>>, <<<<"remote", "h", "1", "tcp">>>>, <<<<"", "remote", "h", "1">>>>,
          <<<<"remote", "h">>>>, <<<<"http-proxy", "h", "1">>>>, <<<<"http-proxy", "h", "1", "auto", "ntlm">>>>,
          <<<<"http-proxy", "h", "1", "f", "basic">>>>, <<<<"ca", "d/ca.pem">>>>, <<<<"cert", "'", "c", "'">>>>,
          <<<<"key", "k">>>>, <<<<"key", "k", "">>>>, <<<<"ca", "'", "c", "'", "", "">>>>, <<<<"key-direction", "1">>>>,
          <<<<"key-direction", "1", "">>>>, <<<<"remote", "h", "1", "">>>>, <<<<"#", "<ca>">>>>, <<<<"pkcs12", "'", "my", "p12", "'">>>>,
          <<<<"pkcs12", "p">>>>, <<<<"#", "text">>>>, <<<<"route", "r">>>>, <<Blank>>, <<<<"resolve-retry", "9">>>>}

OneBlock ==
    {Block(b, Certificate) : b \in Blocks}
    \cup {Block("ca", Certificate \o Certificate), Block("ca", Certificate \o <<<<"END</ca>">>>>),
          Block("ca", <<<<"x", "#<ca>">>>>), <<<<"<ca>#">>, <<"x">>, <<"</ca>", "">>>>,
          Block("key", <<<<"BEGIN">>, <<"END-EC">>>>),
          Block("tls-auth", <<<<"a0">>, <<"ca12">>>>)}

Pieces == OneLine \cup OneBlock

\* Pieces that get into each other's way.
Close ==
    {<<<<"dev", "tun">>>>, <<<<"dev-node", "n">>>>, <<<<"ca", "d/ca.pem">>>>, Block("ca", Certificate),
     Block("tls-auth", <<<<"a0">>, <<"ca12">>>>)}

TextOf(pieces) == FlattenSeq(pieces) \o <<Blank>>

\* A block that is not closed.
Unclosed == <<<<Opening("cert")>>, <<"x">>>>

MCStartTexts == {TextOf(<<Unclosed>>)} \cup {TextOf(<<p>>) : p \in Pieces}
    \cup {TextOf(<<p, q>>) : p \in Close, q \in Pieces} \cup {TextOf(<<p, q, r>>) : p, q, r \in Close}

MCTypedTexts == {<<<<"route", "r">>, Blank, Blank>>, <<<<"dev", "tun">>>>}

\* Without tags, with both, with one of them within a line, and with both the
\* wrong way round.
MCInlineTexts ==
    [ca |-> {Block("ca", Certificate) \o <<Blank>>, <<<<"x">>, <<"END</ca>">>>>, <<<<"x", "#<ca>">>>>,
             <<<<Closing("ca")>>, <<Opening("ca")>>>>},
     key |-> {Certificate}]
=============================================================================
