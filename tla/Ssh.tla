-------------------------------- MODULE Ssh --------------------------------
(***************************************************************************)
(* One connection of the interactive SSH service, proto/ssh/ssh.go, with   *)
(* the part of server/session.go it stands on: the handler goroutine, one  *)
(* goroutine per accepted channel that answers the channel's requests, the *)
(* transport with its two deadlines, and the terminal line discipline.     *)
(* The ssh library (x/crypto) is modelled from how it is used: it hands    *)
(* over channels and requests in order, and ends them when the transport   *)
(* dies.  The shell is reduced to what it does to the session: Shell.tla   *)
(* has the rest.  Time passes as "a deadline is now behind us".            *)
(***************************************************************************)
EXTENDS Naturals, Sequences, FiniteSets

CONSTANTS
  MaxChans,     \* bound: channels a client opens
  MaxReqs,      \* bound: requests a client sends, fewer than the library queues
  MaxKeys,      \* bound: keys a client presses
  MaxAuthTries, \* maxAuthTries
  MaxCooked,    \* maxCookedLine
  MaxPanics     \* bound: faults of the request handler

ASSUME SshLimits == {MaxChans, MaxAuthTries, MaxCooked} \subseteq Nat \ {0}

Chans == 1..MaxChans
Keys == {"char", "cr", "lf", "del", "ctrlC", "ctrlD"}
\* env, subsystem and the rest are logged and answered, and leave nothing behind.
Requests == {"pty-req", "shell", "exec", "other"}

VARIABLES
  pc,      \* the handler goroutine
  tries,   \* failed authentications
  net,     \* the transport: up, its deadlines, and whether a write has failed
  ch,      \* the channels, with their request goroutines
  cur,     \* the channel being served, 0 for none
  bound,   \* the channel the session's IO is on, 0 for the transport
  tty,     \* cookedTTY, and the keys on their way to it
  sent     \* requests sent, keys pressed and panics so far

vars == <<pc, tries, net, ch, cur, bound, tty, sent>>

NoChan == [st |-> "none", peer |-> TRUE, reqs |-> <<>>, rq |-> "none", pty |-> FALSE,
           started |-> FALSE, start |-> "empty", yes |-> 0, served |-> FALSE, late |-> FALSE]
NoTTY == [cooked |-> FALSE, line |-> 0, pending |-> 0, prevCR |-> FALSE, eof |-> FALSE,
          keys |-> <<>>, seen |-> <<>>, lines |-> 0, flushed |-> 0, lost |-> FALSE]

Init ==
  /\ pc = "start" /\ tries = 0 /\ cur = 0 /\ bound = 0
  /\ net = [up |-> TRUE, read |-> "none", write |-> "none", failed |-> FALSE]
  /\ ch = [c \in Chans |-> NoChan]
  /\ tty = NoTTY
  /\ sent = [reqs |-> 0, keys |-> 0, panics |-> 0]

(***************************************************************************)
(* Writing.  Session.Write arms the transport's write deadline; the writes *)
(* of the library and of cookedTTY use whatever deadline is there.  A      *)
(* write behind its deadline fails, and so do all that follow.             *)
(***************************************************************************)
SessionWrite(n) == IF n.up THEN [n EXCEPT !.write = "armed"] ELSE n
MuxWrite(n) == IF n.write = "passed" THEN [n EXCEPT !.failed = TRUE] ELSE n
Read(n, deadline) == IF n.up THEN [n EXCEPT !.read = deadline] ELSE n
Gone == [up |-> FALSE, read |-> "none", write |-> "none", failed |-> FALSE]

(***************************************************************************)
(* Handle: host key, handshake and authentication.                         *)
(***************************************************************************)
NoHostKey ==
  /\ pc = "start" /\ pc' = "banner"
  /\ net' = Read(SessionWrite(net), "capture")
  /\ UNCHANGED <<tries, ch, cur, bound, tty, sent>>

\* tarpit: two lines, each read or given up on, then HoldOpen.
Tarpit ==
  /\ \/ pc = "banner" /\ pc' = "kex" /\ UNCHANGED net
     \/ pc = "kex" /\ pc' = "hold" /\ net' = Read(net, "hold")
  /\ UNCHANGED <<tries, ch, cur, bound, tty, sent>>

\* Session.HoldOpen returns when the client is gone or the hold has elapsed.
HoldOpen ==
  /\ pc = "hold" /\ ~net.up
  /\ pc' = "done"
  /\ UNCHANGED <<tries, net, ch, cur, bound, tty, sent>>

Handshake ==
  /\ pc = "start" /\ pc' = "auth"
  /\ net' = Read(SessionWrite(net), "handshake")
  /\ UNCHANGED <<tries, ch, cur, bound, tty, sent>>

\* A key never succeeds, a password may; authPassword decides (Login.tla).
AuthFails ==
  /\ pc = "auth" /\ net.up /\ net.write # "passed"
  /\ tries' = tries + 1
  /\ pc' = IF tries + 1 = MaxAuthTries THEN "done" ELSE "auth"
  /\ UNCHANGED <<net, ch, cur, bound, tty, sent>>

\* Fault: the handshake deadline is cleared and nothing takes its place.
AuthSucceedsUnbounded ==
  /\ pc = "auth" /\ net.up /\ net.write # "passed"
  /\ pc' = "chans" /\ tries' = 0
  /\ net' = [net EXCEPT !.read = "none", !.write = "none"]
  /\ UNCHANGED <<ch, cur, bound, tty, sent>>

\* The deadline of the handshake becomes the one of the session, whose write
\* half passes together with its read half.
AuthSucceeds ==
  /\ pc = "auth" /\ net.up /\ net.write # "passed"
  /\ pc' = "chans" /\ tries' = 0
  /\ net' = [net EXCEPT !.read = "session", !.write = "none"]
  /\ UNCHANGED <<ch, cur, bound, tty, sent>>

HandshakeFails ==
  /\ pc = "auth" /\ (~net.up \/ net.write = "passed")
  /\ pc' = "done"
  /\ UNCHANGED <<tries, net, ch, cur, bound, tty, sent>>

(***************************************************************************)
(* The channels, one at a time.                                            *)
(***************************************************************************)
Offered == {c \in Chans : ch[c].st \in {"session", "tunnel"}}
First == CHOOSE c \in Offered : \A d \in Offered : c <= d

RejectChannel ==
  /\ pc = "chans" /\ Offered # {} /\ ch[First].st = "tunnel"
  /\ ch' = [ch EXCEPT ![First].st = "closed"]
  /\ net' = MuxWrite(net)
  /\ UNCHANGED <<pc, tries, cur, bound, tty, sent>>

\* Accept fails once the transport is gone, and the channel is dropped.
AcceptChannel ==
  /\ pc = "chans" /\ Offered # {} /\ ch[First].st = "session"
  /\ net' = MuxWrite(net)
  /\ IF net.up /\ ~net'.failed
       THEN /\ ch' = [ch EXCEPT ![First].st = "open", ![First].rq = "run"]
            /\ cur' = First /\ pc' = "wait"
       ELSE ch' = [ch EXCEPT ![First].st = "closed"] /\ UNCHANGED <<cur, pc>>
  /\ UNCHANGED <<tries, bound, tty, sent>>

ChannelsEnd ==
  /\ pc = "chans" /\ ~net.up /\ Offered = {}
  /\ pc' = "done"
  /\ UNCHANGED <<tries, net, ch, cur, bound, tty, sent>>

(***************************************************************************)
(* The goroutine that answers a channel's requests.                        *)
(***************************************************************************)
\* What a shell or exec request puts into start.
Wanted(c, r) == IF r = "exec" THEN "exec" ELSE IF ch[c].pty THEN "tty" ELSE "shell"

\* Fault: the reply does not look at started.
AnsweredAlways(c, r) ==
  CASE r = "pty-req" -> [ch[c] EXCEPT !.pty = TRUE]
    [] r \in {"shell", "exec"} ->
         [ch[c] EXCEPT !.yes = @ + 1, !.started = TRUE,
                       !.start = IF ch[c].started THEN @ ELSE Wanted(c, r)]
    [] OTHER -> ch[c]

Answered(c, r) ==
  CASE r = "pty-req" -> [ch[c] EXCEPT !.pty = TRUE]
    [] r \in {"shell", "exec"} /\ ~ch[c].started ->
         [ch[c] EXCEPT !.yes = @ + 1, !.started = TRUE, !.start = Wanted(c, r)]
    [] OTHER -> ch[c]

AnswerRequest(c) ==
  /\ ch[c].rq = "run" /\ ch[c].reqs # <<>>
  /\ ch' = [ch EXCEPT ![c] = [Answered(c, Head(ch[c].reqs)) EXCEPT !.reqs = Tail(@)]]
  /\ net' = MuxWrite(net)
  /\ UNCHANGED <<pc, tries, cur, bound, tty, sent>>

\* The deferred close of start; a value in it stays.
CloseStart(r) == [r EXCEPT !.rq = "ended", !.pty = FALSE, !.started = FALSE,
                           !.reqs = <<>>, !.start = IF @ = "empty" THEN "closed" ELSE @]

RequestsEnd(c) ==
  /\ ch[c].rq = "run" /\ ch[c].reqs = <<>> /\ (~net.up \/ ~ch[c].peer)
  /\ ch' = [ch EXCEPT ![c] = CloseStart(@)]
  /\ UNCHANGED <<pc, tries, net, cur, bound, tty, sent>>

\* A request whose payload is parsed.
RequestPanics(c) ==
  /\ ch[c].rq = "run" /\ ch[c].reqs # <<>> /\ sent.panics < MaxPanics
  /\ Head(ch[c].reqs) \in {"exec", "other"}
  /\ ch' = [ch EXCEPT ![c] = CloseStart(@)]
  /\ sent' = [sent EXCEPT !.panics = @ + 1]
  /\ UNCHANGED <<pc, tries, net, cur, bound, tty>>

(***************************************************************************)
(* serveSession: wait for the start, run the shell, report and close.      *)
(***************************************************************************)
\* ch.Close, deferred.
CloseChannel == [ch[cur] EXCEPT !.st = "closed"]

NothingStarted ==
  /\ pc = "wait" /\ ch[cur].start = "closed"
  /\ ch' = [ch EXCEPT ![cur] = CloseChannel]
  /\ net' = MuxWrite(net) /\ pc' = "chans" /\ cur' = 0
  /\ UNCHANGED <<tries, bound, tty, sent>>

\* The timer may win although the request has just arrived.
StartTimeout ==
  /\ pc = "wait"
  /\ ch' = [ch EXCEPT ![cur] = [CloseChannel EXCEPT !.late = TRUE]]
  /\ net' = MuxWrite(net) /\ pc' = "chans" /\ cur' = 0
  /\ UNCHANGED <<tries, bound, tty, sent>>

\* Fault: the session stays on the first channel it was put on.
RebindOnce(c) == IF bound = 0 THEN c ELSE bound

\* Session.Rebind onto the channel, cooked for a shell on a PTY.
Rebind(c) == c

StartShell ==
  /\ pc = "wait" /\ ch[cur].start \in {"shell", "tty", "exec"}
  /\ bound' = Rebind(cur)
  /\ tty' = [NoTTY EXCEPT !.cooked = ch[cur].start = "tty"]
  /\ ch' = [ch EXCEPT ![cur].start = "taken", ![cur].served = TRUE]
  /\ pc' = "shell"
  /\ UNCHANGED <<tries, net, cur, sent>>

\* The shell, or the command of an exec request, writes.
ShellWrites ==
  /\ pc = "shell"
  /\ net' = SessionWrite(net)
  /\ UNCHANGED <<pc, tries, ch, cur, bound, tty, sent>>

ShellEnds ==
  /\ pc = "shell"
  /\ pc' = "exit"
  /\ UNCHANGED <<tries, net, ch, cur, bound, tty, sent>>

\* The shell reads a line, mostly after a prompt.
ReadLine ==
  /\ pc = "shell"
  /\ pc' = "read"
  /\ \E n \in {net, SessionWrite(net)} : net' = Read(n, "idle")
  /\ UNCHANGED <<tries, ch, cur, bound, tty, sent>>

\* The exit status goes out before the channel is closed.
SendExitStatus ==
  /\ pc = "exit"
  /\ ch' = [ch EXCEPT ![cur] = CloseChannel]
  /\ net' = MuxWrite(net)
  /\ pc' = "chans" /\ cur' = 0 /\ tty' = NoTTY
  /\ UNCHANGED <<tries, bound, sent>>

(***************************************************************************)
(* cookedTTY.                                                              *)
(***************************************************************************)
endLine(t) == [t EXCEPT !.line = 0, !.pending = @ + 1, !.lines = @ + 1]

\* A printable key; an over-long line is handed over as it is.
Printable(t) ==
  IF t.line + 1 >= MaxCooked
    THEN [endLine([t EXCEPT !.line = @ + 1]) EXCEPT !.flushed = @ + 1]
    ELSE [t EXCEPT !.line = @ + 1]

\* Fault: a CR is forgotten as soon as it ended its line.
cookForgetful(t, key) ==
  LET u == [t EXCEPT !.prevCR = FALSE, !.seen = Append(@, key)]
  IN CASE key \in {"cr", "lf"} -> endLine(u)
       [] key = "del"   -> [u EXCEPT !.line = IF @ > 0 THEN @ - 1 ELSE @]
       [] key = "ctrlC" -> endLine(u)
       [] key = "ctrlD" -> [u EXCEPT !.eof = t.line = 0]
       [] OTHER         -> Printable(u)

cook(t, key) ==
  LET u == [t EXCEPT !.prevCR = key = "cr", !.seen = Append(@, key)]
  IN CASE key = "cr"    -> endLine(u)
       [] key = "lf"    -> IF t.prevCR THEN u ELSE endLine(u)
       [] key = "del"   -> [u EXCEPT !.line = IF @ > 0 THEN @ - 1 ELSE @]
       [] key = "ctrlC" -> endLine(u)
       [] key = "ctrlD" -> [u EXCEPT !.eof = t.line = 0]
       [] OTHER         -> Printable(u)

\* Which keys are answered on the terminal.
Echoes(t, key) ==
  CASE key = "lf"    -> ~t.prevCR
    [] key = "del"   -> t.line > 0
    [] key = "ctrlD" -> FALSE
    [] OTHER         -> TRUE

\* Without a PTY the line reader takes the bytes as they are; after a CR it
\* waits for the byte behind it, and takes that too when it is a LF.
RawKey(t) ==
  LET key == Head(t.keys)
      rest == [t EXCEPT !.keys = Tail(@)]
  IN CASE t.prevCR   -> [(IF key = "lf" THEN rest ELSE t) EXCEPT !.prevCR = FALSE, !.pending = 1]
       [] ~t.prevCR /\ key = "lf" -> [rest EXCEPT !.pending = 1]
       [] OTHER      -> [rest EXCEPT !.prevCR = key = "cr"]

\* A key reaches the shell's side.  On a terminal it is cooked and echoed, and
\* what is behind an end of file in what was read at once is dropped with it.
ReadKey ==
  /\ pc = "read" /\ tty.pending = 0 /\ ~tty.eof /\ tty.keys # <<>>
  /\ LET key == Head(tty.keys)
         echo == tty.cooked /\ Echoes(tty, key)
         lost == tty.lost \/ (echo /\ MuxWrite(net).failed)
         u == [cook(tty, key) EXCEPT !.keys = Tail(@), !.lost = lost]
     IN /\ \/ tty' = IF tty.cooked THEN u ELSE RawKey(tty)
           \/ tty.cooked /\ u.eof /\ tty' = [u EXCEPT !.keys = <<>>]
        /\ net' = IF echo THEN MuxWrite(net) ELSE net
  /\ UNCHANGED <<pc, tries, ch, cur, bound, sent>>

NoMoreKeys == tty.keys = <<>> /\ (~net.up \/ ~ch[cur].peer)

\* A line is there, also the one whose CR nothing follows any more.
ReadReturns ==
  /\ pc = "read"
  /\ \/ tty.pending > 0 /\ tty' = [tty EXCEPT !.pending = @ - 1]
     \/ /\ tty.pending = 0 /\ ~tty.cooked /\ tty.prevCR /\ NoMoreKeys
        /\ tty' = [tty EXCEPT !.prevCR = FALSE]
  /\ pc' = "shell"
  /\ UNCHANGED <<tries, net, ch, cur, bound, sent>>

\* Ctrl-D, the client closed the channel, or the transport is gone: the
\* shell's read fails, and its loop returns.
ReadFails ==
  /\ pc = "read" /\ tty.pending = 0 /\ (tty.cooked \/ ~tty.prevCR)
  /\ tty.eof \/ NoMoreKeys
  /\ pc' = "exit"
  /\ UNCHANGED <<tries, net, ch, cur, bound, tty, sent>>

(***************************************************************************)
(* The client and the clock.                                               *)
(***************************************************************************)
OfferChannel(c) ==
  /\ net.up /\ pc \notin {"start", "auth", "banner", "kex", "hold", "done"}
  /\ ch[c].st = "none" /\ \A d \in 1..(c-1) : ch[d].st # "none"
  /\ \E s \in {"session", "tunnel"} : ch' = [ch EXCEPT ![c].st = s]
  /\ UNCHANGED <<pc, tries, net, cur, bound, tty, sent>>

SendRequest(c) ==
  /\ net.up /\ ch[c].rq = "run" /\ ch[c].peer /\ sent.reqs < MaxReqs
  /\ \E r \in Requests : ch' = [ch EXCEPT ![c].reqs = Append(@, r)]
  /\ sent' = [sent EXCEPT !.reqs = @ + 1]
  /\ UNCHANGED <<pc, tries, net, cur, bound, tty>>

CloseByPeer(c) ==
  /\ net.up /\ ch[c].peer /\ (ch[c].rq = "run" \/ c = cur)
  /\ ch' = [ch EXCEPT ![c].peer = FALSE]
  /\ UNCHANGED <<pc, tries, net, cur, bound, tty, sent>>

\* What is typed ahead waits in the channel, so it may as well be typed then.
PressKey ==
  /\ net.up /\ pc = "read" /\ ch[cur].peer /\ sent.keys < MaxKeys
  /\ \E key \in Keys : tty' = [tty EXCEPT !.keys = Append(@, key)]
  /\ sent' = [sent EXCEPT !.keys = @ + 1]
  /\ UNCHANGED <<pc, tries, net, ch, cur, bound>>

\* The read deadline passes: the library's read of the socket fails.
ReadDeadline ==
  /\ net.up /\ net.read # "none"
  /\ net' = Gone
  /\ UNCHANGED <<pc, tries, ch, cur, bound, tty, sent>>

Disconnect ==
  /\ net.up
  /\ net' = Gone
  /\ UNCHANGED <<pc, tries, ch, cur, bound, tty, sent>>

WriteDeadline ==
  /\ net.up /\ net.write = "armed"
  /\ net' = [net EXCEPT !.write = "passed"]
  /\ UNCHANGED <<pc, tries, ch, cur, bound, tty, sent>>

Done == pc = "done" /\ UNCHANGED vars

Handler ==
  \/ NoHostKey \/ Tarpit \/ HoldOpen \/ Handshake \/ HandshakeFails
  \/ RejectChannel \/ AcceptChannel \/ ChannelsEnd
  \/ NothingStarted \/ StartShell \/ ReadLine \/ SendExitStatus
  \/ ReadKey \/ ReadReturns \/ ReadFails \/ ShellEnds

Goroutine(c) == AnswerRequest(c) \/ RequestsEnd(c)

Client ==
  \/ AuthFails \/ AuthSucceeds \/ PressKey \/ Disconnect
  \/ \E c \in Chans : OfferChannel(c) \/ SendRequest(c) \/ CloseByPeer(c)

Next ==
  \/ Handler \/ StartTimeout \/ ShellWrites
  \/ Client \/ ReadDeadline \/ WriteDeadline
  \/ \E c \in Chans : Goroutine(c) \/ RequestPanics(c)
  \/ Done

Spec == Init /\ [][Next]_vars

\* Goroutines are scheduled, what the shell runs ends (Shell.tla), and the
\* read deadline, which activity cannot push past the session's lifetime,
\* passes some day.
FairSpec ==
  /\ Spec
  /\ WF_vars(Handler)
  /\ \A c \in Chans : WF_vars(Goroutine(c))
  /\ WF_vars(ReadDeadline)

(***************************************************************************)
(* Properties.                                                             *)
(***************************************************************************)
\* A client that was told its shell or command starts gets it: a channel says
\* yes at most once, and when it is over that request was served, unless the
\* start timer had already given the channel up.
AcceptedIsServed ==
  \A c \in Chans :
    /\ ch[c].yes <= 1
    /\ ch[c].st = "closed" /\ ch[c].yes = 1 => ch[c].served \/ ch[c].late

\* A shell runs on the channel that asked for it, and on no other: whatever
\* channels were given up before it, and whatever their request goroutines still
\* answer and hand over, the session's IO is on the channel being served, which
\* is open and said yes; and a channel the start timer gave up is never served.
ShellOnItsChannel ==
  /\ pc \in {"shell", "read", "exit"} =>
       bound = cur /\ ch[cur].st = "open" /\ ch[cur].yes = 1 /\ ch[cur].start = "taken"
  /\ \A c \in Chans : ~(ch[c].late /\ (ch[c].served \/ ch[c].start = "taken"))

\* Enter is one line however the client's terminal sends it, CR, LF or both,
\* and however the bytes are split between reads; Ctrl-C hands over an empty
\* line, and nothing else does but a line at its bound, which is cut there.
EnterIsOneLine ==
  LET s == tty.seen
      ends == {i \in DOMAIN s : \/ s[i] \in {"cr", "ctrlC"}
                                \/ s[i] = "lf" /\ (i = 1 \/ s[i-1] # "cr")}
  IN /\ tty.cooked => tty.lines = Cardinality(ends) + tty.flushed
     /\ tty.line < MaxCooked

\* Whatever the client does or fails to do, the handler returns and so does
\* every goroutine it started for a channel.
HandlerEnds == <>(pc = "done" /\ \A c \in Chans : ch[c].rq # "run")

\* As long as the connection is up, what is typed on a terminal is echoed to it:
\* cookedTTY "echoes printable input", and without it "an attacker would type
\* into a shell that echoes nothing".
EchoIsSent == net.up => ~tty.lost

=============================================================================
