-------------------------- MODULE MCClientProcess --------------------------
(* One entry, two settings, and every line of up to five characters.       *)
EXTENDS ClientProcess

MCOptions == {"exe", "w", "-silent", "-stop", "-status", "-user", "-delayDaemon", "-foo"}

\* Every short line over a letter, a quote and a blank, and the lines with
\* options that are worth one look.
MCOddLines ==
    UNION {[1 .. n -> {"w", QUOTE, BLANK}] : n \in 0 .. 5} \cup
    {<<QUOTE, "exe", QUOTE, BLANK, "-silent">>,
     <<"exe", BLANK, "-user", BLANK, "-stop">>,
     <<"exe", BLANK, "-delayDaemon", BLANK, "w">>,
     <<"exe", BLANK, "-user">>}

MCLines == MCOddLines \cup {<<"exe">>, <<"exe", BLANK, "-stop">>, <<"exe", BLANK, "-status">>}

MCProxyInputs ==
    {[use |-> "CONFIG", http |-> FALSE, host |-> "", port |-> ""],
     [use |-> "MANUAL", http |-> TRUE, host |-> "proxy.", port |-> "08080"],
     [use |-> "MANUAL", http |-> FALSE, host |-> "10.0.0.1", port |-> "1"]}

MCVersions == {<<2, 0, 49>>, <<2, 0, 51>>, <<2, 1, 0>>}
=============================================================================
