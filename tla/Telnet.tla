------------------------------- MODULE Telnet -------------------------------
(***************************************************************************)
(* Input of a telnet connection: the client's bytes pass iacReader, which  *)
(* takes option negotiation out and answers it (proto/telnet/telnet.go),   *)
(* then a bufio.Reader, then Session.ReadLine.  Any byte may be the last   *)
(* one before a read deadline passes, and the reader keeps no state        *)
(* between two calls of Read.  Verbs, options and data are one alphabet:   *)
(* what a byte means depends on what came before it.                       *)
(***************************************************************************)
EXTENDS Naturals, Sequences, FiniteSets

CONSTANTS
  Units,     \* what a client sends at once: sequences of bytes
  MaxUnits,  \* bound: how many of them
  BufSize,   \* bytes a Read may return, 4096 in bufio
  MaxNegs,   \* maxNegotiations
  MaxSubneg, \* maxSubnegLen
  MaxLine    \* maxLineBytes

ASSUME UnitsAssumption == Units \subseteq Seq(STRING)
ASSUME TelnetLimits == {BufSize, MaxNegs, MaxSubneg, MaxLine} \subseteq Nat \ {0}

Verbs == {"will", "wont", "do", "dont"}
Offered == {"echo", "sga"}                                      \* WILL in the opening, or around the password
Asked == {"naws", "ttype", "tspeed", "xdisploc", "newenviron"}  \* DO in the opening

VARIABLES
  pc,      \* the session: "caller", or in ReadLine, at its "line" or "peek"
  rd,      \* the Read in progress
  buf,     \* the bufio.Reader: bytes not taken yet, and its pending error
  line,    \* the line ReadLine has so far
  net,     \* bytes on their way, units sent, whether reads fail now, and for good
  log      \* history: bytes read and handed on, replies, lines, a command cut
           \* in two, a read of a line that failed

vars == <<pc, rd, buf, line, net, log>>

NoRead == [at |-> "none", verb |-> "", p |-> <<>>, negs |-> 0, sb |-> 0]

Init ==
  /\ pc = "caller" /\ rd = NoRead /\ line = <<>>
  /\ buf = [bytes |-> <<>>, err |-> FALSE]
  /\ net = [flight |-> <<>>, sent |-> 0, late |-> FALSE, gone |-> FALSE]
  /\ log = [seen |-> <<>>, input |-> <<>>, replies |-> <<>>, lines |-> <<>>,
            cut |-> FALSE, failed |-> FALSE]

(***************************************************************************)
(* iacReader.                                                              *)
(***************************************************************************)
\* The reply to an option command, if any: an answer to what the server itself
\* asked for or offered gets none.
negotiate(verb, opt) ==
  CASE verb = "do" /\ opt \notin Offered -> <<[verb |-> "wont", opt |-> opt]>>
    [] verb = "will" /\ opt \notin Asked -> <<[verb |-> "dont", opt |-> opt]>>
    [] OTHER -> <<>>

\* Fault: the byte behind an IAC is looked at again, as if it stood alone.
InSubnegTwice(r, b) ==
  CASE r.at = "sbIac" /\ b = "se" -> [r EXCEPT !.at = "data"]
    [] b = "iac"                  -> [r EXCEPT !.at = "sbIac"]
    [] OTHER                      -> [r EXCEPT !.at = "sb", !.sb = @ + 1]

\* A byte of a subnegotiation; an IAC takes the one behind it along.
InSubneg(r, b) ==
  CASE r.at = "sb" /\ b = "iac" -> [r EXCEPT !.at = "sbIac"]
    [] r.at = "sb" /\ b # "iac" -> [r EXCEPT !.sb = @ + 1]
    [] OTHER                    -> [r EXCEPT !.at = IF b = "se" THEN "data" ELSE "sb", !.sb = @ + 1]

\* The Read after one more byte.
Scan(r, b) ==
  CASE r.at = "data" -> IF b = "iac" THEN [r EXCEPT !.at = "iac"] ELSE [r EXCEPT !.p = Append(@, b)]
    [] r.at = "iac" ->
         CASE b = "iac"   -> [r EXCEPT !.at = "data", !.p = Append(@, b)]
           [] b \in Verbs -> [r EXCEPT !.at = "opt", !.verb = b]
           [] b = "sb"    -> [r EXCEPT !.at = "sb", !.sb = 0]
           [] OTHER       -> [r EXCEPT !.at = "data"]
    [] r.at = "opt" -> [r EXCEPT !.at = "data", !.negs = @ + 1]
    [] OTHER        -> InSubneg(r, b)

\* Why a Read returns after the byte b: a newline, no room, or a client that
\* sends nothing but commands.
Full(r, b) == \/ r.at = "data" /\ Len(r.p) = BufSize
              \/ rd.at = "data" /\ b = "lf"
Flood(r) == r.negs > MaxNegs
Oversized(r) == r.at = "sb" /\ r.sb > MaxSubneg

\* Read returns: what it has goes to the bufio.Reader, with or without an error.
ReadReturns(r, err) ==
  /\ rd' = NoRead
  /\ buf' = [bytes |-> buf.bytes \o r.p, err |-> err]

Logged(r, b) ==
  [log EXCEPT !.seen    = Append(@, b),
              !.input   = IF rd' = NoRead THEN @ \o r.p ELSE @,
              !.replies = IF rd.at = "opt" THEN @ \o negotiate(rd.verb, b) ELSE @,
              !.cut     = @ \/ Oversized(r)]

\* One byte of the client is read; a new Read is begun by the bufio.Reader
\* when it is empty.
ReadByte(b) ==
  LET r == Scan(rd, b)
  IN /\ IF Flood(r) \/ Oversized(r) THEN ReadReturns(r, TRUE)
        ELSE IF Full(r, b) THEN ReadReturns(r, FALSE)
        ELSE rd' = r /\ UNCHANGED buf
     /\ log' = Logged(r, b)
     /\ UNCHANGED <<pc, line>>

Fill ==
  /\ pc \in {"line", "peek"} /\ buf.bytes = <<>> /\ ~buf.err /\ rd.at = "none"
  /\ rd' = [NoRead EXCEPT !.at = "data"]
  /\ UNCHANGED <<pc, buf, line, net, log>>

Receive ==
  /\ rd.at # "none" /\ net.flight # <<>> /\ ~net.late
  /\ ReadByte(Head(net.flight))
  /\ net' = [net EXCEPT !.flight = Tail(@)]

\* The read of the connection fails.  Outside a subnegotiation the error is
\* kept for the next Read when there is something to return.
ReadFails ==
  /\ rd.at # "none" /\ (net.late \/ (net.gone /\ net.flight = <<>>))
  /\ ReadReturns(rd, rd.p = <<>> \/ rd.at \in {"sb", "sbIac"})
  /\ log' = [log EXCEPT !.input = @ \o rd.p, !.cut = @ \/ rd.at # "data"]
  /\ UNCHANGED <<pc, line, net>>

(***************************************************************************)
(* Session.ReadLine and its callers.  After a failed read most of them     *)
(* return; a prompt that ignores the failure reads on.                     *)
(***************************************************************************)
ReadLine ==
  /\ pc = "caller"
  /\ pc' = "line" /\ line' = <<>>
  /\ net' = [net EXCEPT !.late = FALSE]
  /\ UNCHANGED <<rd, buf, log>>

\* ReadLine returns the line it has.
Return(l) == pc' = "caller" /\ log' = [log EXCEPT !.lines = Append(@, l)]

TakeByte ==
  /\ pc = "line" /\ buf.bytes # <<>>
  /\ LET c == Head(buf.bytes)
         l == Append(line, c)
     IN \/ c = "lf" /\ Return(line) /\ UNCHANGED line
        \/ c = "cr" /\ pc' = "peek" /\ UNCHANGED <<line, log>>
        \/ /\ c \notin {"lf", "cr"} /\ line' = l
           /\ IF Len(l) >= MaxLine THEN Return(l) ELSE UNCHANGED <<pc, log>>
  /\ buf' = [buf EXCEPT !.bytes = Tail(@)]
  /\ UNCHANGED <<rd, net>>

\* Behind a CR a LF or NUL goes with it, and the line is complete anyway.
PeekByte ==
  /\ pc = "peek" /\ buf.bytes # <<>>
  /\ buf' = IF Head(buf.bytes) \in {"lf", "nul"} THEN [buf EXCEPT !.bytes = Tail(@)] ELSE buf
  /\ Return(line)
  /\ UNCHANGED <<rd, line, net>>

\* No more bytes: the line so far is no line, but one that a CR ended is.
TakeError ==
  /\ pc \in {"line", "peek"} /\ buf.bytes = <<>> /\ buf.err
  /\ buf' = [buf EXCEPT !.err = FALSE]
  /\ log' = [log EXCEPT !.failed = TRUE,
                        !.lines = IF pc = "peek" THEN Append(@, line) ELSE @]
  /\ pc' = "caller"
  /\ UNCHANGED <<rd, line, net>>

(***************************************************************************)
(* The client, and the deadline ReadLine armed: both show at a Read only.  *)
(***************************************************************************)
Send ==
  /\ net.flight = <<>> /\ ~net.gone /\ net.sent < MaxUnits
  /\ \E u \in Units : net' = [net EXCEPT !.flight = u, !.sent = @ + 1]
  /\ UNCHANGED <<pc, rd, buf, line, log>>

HangUp ==
  /\ ~net.gone /\ net.flight = <<>> /\ rd.at # "none"
  /\ net' = [net EXCEPT !.gone = TRUE]
  /\ UNCHANGED <<pc, rd, buf, line, log>>

Deadline ==
  /\ ~net.late /\ rd.at # "none"
  /\ net' = [net EXCEPT !.late = TRUE]
  /\ UNCHANGED <<pc, rd, buf, line, log>>

Next == \/ Fill \/ Receive \/ ReadFails
        \/ ReadLine \/ TakeByte \/ PeekByte \/ TakeError
        \/ Send \/ HangUp \/ Deadline

Spec == Init /\ [][Next]_vars

(***************************************************************************)
(* Reference: what a byte stream says, command by command (RFC 854).       *)
(***************************************************************************)
\* The IACs directly before place j of s, back to place i.
Before(s, i, j) == Cardinality({h \in i..(j-1) : \A g \in h..(j-1) : s[g] = "iac"})

\* Where the subnegotiation whose body starts at i ends: an IAC that is not
\* itself escaped, and the SE behind it.
Ends(s, i) == {j \in i..(Len(s)-1) : s[j] = "iac" /\ s[j+1] = "se" /\ Before(s, i, j) % 2 = 0}

First(S) == CHOOSE j \in S : \A h \in S : j <= h

Nothing == [input |-> <<>>, replies |-> <<>>]

Says(s) ==
  LET from[i \in 1..(Len(s) + 3)] ==
        IF i > Len(s) THEN Nothing
        ELSE IF s[i] # "iac" THEN [from[i+1] EXCEPT !.input = <<s[i]>> \o @]
        ELSE IF i = Len(s) THEN Nothing
        ELSE CASE s[i+1] = "iac" -> [from[i+2] EXCEPT !.input = <<"iac">> \o @]
               [] s[i+1] = "sb" ->
                    LET e == Ends(s, i + 2)
                    IN IF e = {} THEN Nothing ELSE from[First(e) + 2]
               [] s[i+1] \in Verbs ->
                    IF i + 2 > Len(s) THEN Nothing
                    ELSE [from[i+3] EXCEPT !.replies = negotiate(s[i+1], s[i+2]) \o @]
               [] OTHER -> from[i+2]
  IN from[1]

\* The lines of an input, by what came before a byte: a LF or NUL behind a CR
\* belongs to it, any other LF and every CR end a line, and so does the bound.
Ended(a) == [lines |-> Append(a.lines, a.open), open |-> <<>>, cr |-> FALSE]
Reads(a, b) ==
  CASE a.cr /\ b \in {"lf", "nul"} -> [a EXCEPT !.cr = FALSE]
    [] ~a.cr /\ b = "lf"           -> Ended(a)
    [] b = "cr"                    -> [Ended(a) EXCEPT !.cr = TRUE]
    [] OTHER -> LET n == [a EXCEPT !.open = Append(@, b), !.cr = FALSE]
                IN IF Len(n.open) = MaxLine THEN Ended(n) ELSE n

LinesOf(input) ==
  LET after[i \in 0..Len(input)] ==
        IF i = 0 THEN [lines |-> <<>>, open |-> <<>>, cr |-> FALSE]
        ELSE Reads(after[i - 1], input[i])
  IN after[Len(input)]

(***************************************************************************)
(* Properties.                                                             *)
(***************************************************************************)
\* The session sees exactly the data of the client's stream, and every option
\* command is answered once or not at all as negotiate says: however the
\* stream is split between Reads, whatever ended them, and whatever is escaped
\* in it.  A command that an error cut in two is the exception: the next Read
\* takes its rest for data.  The caller sees the lines of that data, an Enter
\* being one line however the client sends it, until a read fails between a CR
\* and its LF.  Within a Read the limits on commands hold.
StreamDecoded ==
  LET taken == SubSeq(log.input, 1, Len(log.input) - Len(buf.bytes))
  IN /\ rd.negs <= MaxNegs /\ rd.sb <= MaxSubneg + 1 /\ Len(rd.p) < BufSize
     /\ ~log.cut => [input |-> log.input \o rd.p, replies |-> log.replies] = Says(log.seen)
     /\ ~log.failed =>
          LinesOf(taken).lines = IF pc = "peek" THEN Append(log.lines, line) ELSE log.lines

=============================================================================
