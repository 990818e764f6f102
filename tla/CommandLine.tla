---------------------------- MODULE CommandLine ----------------------------
(***************************************************************************)
(* CommandLineToArgvA of the client's main.cpp: the client is a Windows    *)
(* program without a console and splits GetCommandLineA() itself.  It      *)
(* allocates one block, room for the pointers first and for the characters *)
(* behind them, from the length of the line alone, and then writes into    *)
(* both parts without a further test.                                      *)
(*                                                                         *)
(* A character is a quote, a blank (one of four) or one of Letters.  A     *)
(* whole option can stand for a letter: only quotes and blanks are treated *)
(* differently.                                                            *)
(***************************************************************************)
EXTENDS Integers, Sequences, FiniteSets

CONSTANTS Letters,  \* characters that are neither quotes nor blanks
          Lines     \* the command lines a process may be started with

QUOTE == "quote"
BLANK == "blank"
NUL == "nul"
Chars == Letters \cup {QUOTE, BLANK}

ASSUME CommandLineAssumption ==
    /\ Letters \cap {QUOTE, BLANK, NUL} = {}
    /\ Lines \subseteq Seq(Chars)

VARIABLES
    CmdLine,   \* the command line
    i,         \* how much of it has been looked at
    argv,      \* the pointers written, as offsets into _argv; argc is its length
    _argv,     \* the characters written; j is its length
    in_QM, in_TEXT, in_SPACE

scanVars == <<CmdLine, i, argv, _argv, in_QM, in_TEXT, in_SPACE>>

len == Len(CmdLine)
argc == Len(argv)
j == Len(_argv)

\* GlobalAlloc: pointers, and characters behind them.
Slots == (len + 2) \div 2 + 1
Room == len + 2

ScanTypeOK ==
    /\ CmdLine \in Seq(Chars)
    /\ i \in 0 .. len
    /\ argv \in Seq(Nat)
    /\ _argv \in Seq(Chars \cup {NUL})
    /\ in_QM \in BOOLEAN /\ in_TEXT \in BOOLEAN /\ in_SPACE \in BOOLEAN

ScanStarts(line) ==
    /\ CmdLine = line
    /\ i = 0 /\ argv = << >> /\ _argv = << >>
    /\ in_QM = FALSE /\ in_TEXT = FALSE /\ in_SPACE = TRUE

ScanInit == \E line \in Lines : ScanStarts(line)

Scanning == i < len
a == CmdLine[i + 1]

\* Fault: each piece of text behind a quote starts an argument.
startsAlways(b) == argv' = Append(argv, j)

\* if(in_SPACE) { argv[argc] = _argv+j; argc++; }
StartsArgument(b) == argv' = IF b THEN Append(argv, j) ELSE argv

Puts(c) == _argv' = Append(_argv, c)

\* Inside quotes everything but the closing quote is text.
Quoted ==
    /\ in_QM
    /\ IF a = QUOTE
       THEN in_QM' = FALSE /\ UNCHANGED _argv
       ELSE Puts(a) /\ UNCHANGED in_QM
    /\ UNCHANGED <<argv, in_TEXT, in_SPACE>>

OpeningQuote ==
    /\ ~in_QM /\ a = QUOTE
    /\ in_QM' = TRUE /\ in_TEXT' = TRUE /\ in_SPACE' = FALSE
    /\ StartsArgument(in_SPACE)
    /\ UNCHANGED _argv

Blank ==
    /\ ~in_QM /\ a = BLANK
    /\ IF in_TEXT THEN Puts(NUL) ELSE UNCHANGED _argv
    /\ in_TEXT' = FALSE /\ in_SPACE' = TRUE
    /\ UNCHANGED <<argv, in_QM>>

Letter ==
    /\ ~in_QM /\ a \in Letters
    /\ in_TEXT' = TRUE /\ in_SPACE' = FALSE
    /\ StartsArgument(in_SPACE)
    /\ Puts(a)
    /\ UNCHANGED in_QM

\* One pass of the loop.
Scan ==
    /\ Scanning
    /\ Quoted \/ OpeningQuote \/ Blank \/ Letter
    /\ i' = i + 1
    /\ UNCHANGED CmdLine

ScanSpec == ScanInit /\ [][Scan]_scanVars

\* The loop is over: what main() finds in argv[k], up to the first NUL.  The
\* text behind the loop's last character ends with the final NUL.
EndOf(k) ==
    LET ends == {e \in k + 1 .. j : _argv[e] = NUL}
    IN  IF ends = {} THEN j ELSE (CHOOSE e \in ends : \A f \in ends : e <= f) - 1
Argument(k) == SubSeq(_argv, argv[k] + 1, EndOf(argv[k]))

-----------------------------------------------------------------------------
\* Properties

\* Every write of CommandLineToArgvA stays within the block it allocated from
\* the length of the line: the next pointer and the closing NULL have a slot,
\* the next character and the last NUL have room.
Fits == argc + 1 <= Slots /\ j + 1 <= Room

\* A reference: a blank separates unless the number of quotes before it is
\* odd; an argument is a longest run of positions without a separator, and
\* its text is what stands there, without the quotes: its n-th character is
\* at the n-th of the positions that are kept.
QuotesBefore(p) == Cardinality({q \in 1 .. p - 1 : CmdLine[q] = QUOTE})
Separates(p) == CmdLine[p] = BLANK /\ QuotesBefore(p) % 2 = 0
Begins(p) == ~Separates(p) /\ (p = 1 \/ Separates(p - 1))
Runs == {p \in 1 .. len : Begins(p)}
RunEnd(p) == CHOOSE e \in p .. len :
                /\ \A q \in p .. e : ~Separates(q)
                /\ e = len \/ Separates(e + 1)
TextOf(p) ==
    LET kept == {q \in p .. RunEnd(p) : CmdLine[q] # QUOTE}
    IN  [n \in 1 .. Cardinality(kept) |->
            CmdLine[CHOOSE q \in kept : Cardinality({r \in kept : r <= q}) = n]]

\* What the scanner has written when it is done is the reference's splitting:
\* as many arguments, in order, and with the same text, however quotes and
\* blanks alternate and also when a quote is left open.
SplitsAsQuoted ==
    ~Scanning =>
        /\ argc = Cardinality(Runs)
        /\ \A p \in Runs :
              LET k == Cardinality({q \in Runs : q <= p})
              IN  Argument(k) = TextOf(p)
=============================================================================
