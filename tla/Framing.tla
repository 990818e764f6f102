------------------------------- MODULE Framing -------------------------------
(***************************************************************************)
(* How one end of the socket between client and service turns bytes back   *)
(* into commands: slotStartRead of SslServerConnection (the service) and   *)
(* of SrvCLI (the client).                                                 *)
(*                                                                         *)
(* sendRequest writes a frame: the length of the body, and the body, which *)
(* is two strings with their own lengths, command and params.  TCP hands   *)
(* the bytes over in pieces of any size.  Bytes are grouped into cells:    *)
(* one for a length header, two or more for a body.                        *)
(*                                                                         *)
(* slotStartRead runs when readyRead is emitted, handles ONE frame and, on *)
(* most paths, calls itself if the socket has more.  readyRead is not      *)
(* emitted while one of its slots runs, so what arrives meanwhile is only  *)
(* seen by that last check; commands that return early skip it.  In the    *)
(* client the object survives a broken connection, with its blockSize.     *)
(***************************************************************************)
EXTENDS Integers, Sequences

CONSTANTS MaxFrames,    \* bound: frames sent
          MaxBreaks,    \* bound: broken connections (0 for the service's end)
          BodySizes,    \* the cells a body may have
          EarlyReturns  \* whether there are commands that return early

ASSUME FramingAssumption ==
    /\ MaxFrames \in Nat
    /\ MaxBreaks \in Nat
    /\ BodySizes \subseteq 2 .. 1000
    /\ EarlyReturns \in BOOLEAN

VARIABLES
    wire,       \* cells under way
    buffer,     \* cells in the socket's read buffer
    blockSize,  \* the length that has been read, or 0
    reading,    \* slotStartRead has been called and has not looked yet
    early,      \* history: the last call handled a command and returned early
    handled,    \* history: the numbers of the frames handled
    frames,     \* history: frames sent so far
    first,      \* history: the number of this connection's first frame
    breaks,     \* history: broken connections
    torn        \* history: a connection broke with a length already read

vars == <<wire, buffer, blockSize, reading, early, handled, frames, first, breaks, torn>>

\* The n-th frame: its header, and a body of size cells.  A cell knows its
\* frame, how many cells of the frame come after it and whether the command
\* is one of those that return early.
Frame(n, size, returns) ==
    [k \in 1 .. size + 1 |-> [no |-> n, head |-> (k = 1), left |-> size + 1 - k, early |-> returns]]

\* What a header made of body bytes amounts to: more than will ever come.
Huge == 1000000

Init ==
    /\ wire = << >> /\ buffer = << >>
    /\ blockSize = 0
    /\ reading = FALSE
    /\ early = FALSE
    /\ handled = << >>
    /\ frames = 0 /\ first = 1 /\ breaks = 0 /\ torn = FALSE

-----------------------------------------------------------------------------
\* sendRequest of the other end.
sendRequest(size, returns) ==
    /\ frames < MaxFrames
    /\ frames' = frames + 1
    /\ wire' = wire \o Frame(frames + 1, size, returns)
    /\ UNCHANGED <<buffer, blockSize, reading, early, handled, first, breaks, torn>>

\* The next n cells arrive.  readyRead calls slotStartRead, unless the slot
\* runs already.
Arrive(n) ==
    /\ buffer' = buffer \o SubSeq(wire, 1, n)
    /\ wire' = SubSeq(wire, n + 1, Len(wire))
    /\ reading' = TRUE
    /\ UNCHANGED <<blockSize, early, handled, frames, first, breaks, torn>>

\* The bytes that are there once the length has been read, if it has not
\* been read before.
Rest == IF blockSize = 0 /\ buffer # << >> THEN Tail(buffer) ELSE buffer

\* The length: a header's own, or what body bytes look like as one.
Length ==
    IF blockSize # 0 THEN blockSize
    ELSE IF buffer = << >> THEN 0
    ELSE IF Head(buffer).head THEN Head(buffer).left ELSE Huge

\* "Read the block until the complete block is avaiable"
Complete == Length # 0 /\ Len(Rest) >= Length

\* The two strings are taken off the stream.  Where a header is met in place
\* of a body, its upper half is an empty command and its lower half the length
\* of the params: the whole frame is taken, or as much of it as has arrived.
Taken == IF Head(Rest).left + 1 <= Len(Rest) THEN Head(Rest).left + 1 ELSE Len(Rest)

\* The call finds less than a block and returns.
Waits ==
    /\ ~Complete
    /\ buffer' = Rest
    /\ blockSize' = Length
    /\ reading' = FALSE
    /\ early' = FALSE
    /\ UNCHANGED handled

\* Fault: the block is peeked at instead of read.
peeks ==
    /\ Complete
    /\ ~Head(Rest).head
    /\ handled' = Append(handled, Head(Rest).no)
    /\ early' = Head(Rest).early
    /\ reading' = ~Head(Rest).early
    /\ UNCHANGED <<buffer, blockSize>>

\* Fault: no look at what is left in the buffer.
handlesOne ==
    /\ Complete
    /\ ~Head(Rest).head
    /\ buffer' = SubSeq(Rest, Taken + 1, Len(Rest))
    /\ blockSize' = 0
    /\ handled' = Append(handled, Head(Rest).no)
    /\ early' = Head(Rest).early
    /\ reading' = FALSE

\* The call handles a command.
Handles ==
    /\ Complete
    /\ ~Head(Rest).head
    /\ buffer' = SubSeq(Rest, Taken + 1, Len(Rest))
    /\ blockSize' = 0
    /\ handled' = Append(handled, Head(Rest).no)
    /\ early' = Head(Rest).early
    /\ reading' = (~Head(Rest).early /\ Taken < Len(Rest))

\* The call finds an empty command and returns early (in the client).
Misreads ==
    /\ Complete
    /\ Head(Rest).head
    /\ buffer' = SubSeq(Rest, Taken + 1, Len(Rest))
    /\ blockSize' = 0
    /\ reading' = FALSE
    /\ early' = TRUE
    /\ UNCHANGED handled

slotStartRead ==
    /\ reading
    /\ Waits \/ Handles \/ Misreads
    /\ UNCHANGED <<wire, frames, first, breaks, torn>>

\* closeConnection, and later makeFastConnection: what was under way is lost,
\* the next frame is the first of a new connection.  blockSize is not touched.
makeFastConnection ==
    /\ breaks < MaxBreaks
    /\ breaks' = breaks + 1
    /\ torn' = (torn \/ blockSize # 0)
    /\ wire' = << >> /\ buffer' = << >>
    /\ first' = frames + 1
    /\ UNCHANGED <<blockSize, reading, early, handled, frames>>

Next ==
    \/ \E size \in BodySizes, returns \in BOOLEAN :
          (returns => EarlyReturns) /\ sendRequest(size, returns)
    \/ \E n \in 1 .. Len(wire) : Arrive(n)
    \/ slotStartRead
    \/ makeFastConnection

Spec == Init /\ [][Next]_vars

\* What has been sent arrives, and a slot that was called runs.
FairSpec == Spec /\ WF_vars(\E n \in 1 .. Len(wire) : Arrive(n)) /\ WF_vars(slotStartRead)

-----------------------------------------------------------------------------
\* Properties.

\* No command is handled twice, and none after one that was sent later.
InOrderOnce == \A i, j \in 1 .. Len(handled) : i < j => handled[i] < handled[j]

\* The frames of this connection that have been handled are all those up to
\* the last one that was.
NoGap ==
    \A i \in 1 .. Len(handled) :
       handled[i] > first => i > 1 /\ handled[i - 1] = handled[i] - 1

\* Safety: however the bytes are cut into pieces, whichever commands return
\* early and wherever connections break, commands are handled in order and
\* once; and nothing is skipped within a connection, as long as no connection
\* of the same object has broken in the middle of a frame.
HandledAsSent == InOrderOnce /\ (~torn => NoGap)

\* Liveness: every frame that has arrived is handled in the end, except behind
\* a command that returned early, where it waits for more bytes to arrive, and
\* after a connection was torn.
Drained == wire = << >> /\ buffer = << >>
DrainsUnlessEarly == <>[](Drained \/ early \/ torn)
=============================================================================
