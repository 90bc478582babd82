----------------------------- MODULE SshProofs -----------------------------
(***************************************************************************)
(* Proofs about Ssh, for any number of channels, requests, keys and faults *)
(* and any bound on a line.                                                *)
(***************************************************************************)
EXTENDS Ssh, FiniteSetTheorems, SequenceTheorems,
        WellFoundedInduction, TLAPS

-----------------------------------------------------------------------------
(* The channels.                                                           *)

\* The steps of the handler at which serveSession has a channel in hand.
Serving == {"wait", "shell", "read", "exit"}

Channel == [st : {"none", "session", "tunnel", "open", "closed"}, peer : BOOLEAN,
            reqs : Seq(Requests), rq : {"none", "run", "ended"}, pty : BOOLEAN,
            started : BOOLEAN, start : {"empty", "closed", "shell", "tty", "exec", "taken"},
            yes : {0, 1}, served : BOOLEAN, late : BOOLEAN]

\* What a channel's request goroutine has answered and what it has put into
\* start agree at every moment, and start is taken once.
Told(r) ==
  /\ r \in Channel
  /\ r.rq = "none" => r.yes = 0 /\ r.start = "empty" /\ ~r.started /\ r.reqs = <<>>
  /\ r.st \in {"none", "session", "tunnel"} => r.rq = "none"
  /\ r.rq = "run" => (r.started <=> r.yes = 1)
  /\ r.start = "closed" => r.rq = "ended"
  /\ r.start \in {"empty", "closed"} <=> r.yes = 0
  /\ r.start = "taken" <=> r.served
  /\ r.late => r.st = "closed" /\ ~r.served
  /\ r.st = "closed" => r.rq = "none" \/ r.start = "closed" \/ r.late \/ r.served

\* The handler has an open channel in hand while it serves one, and the session
\* is on it once it has started.
ChanInv ==
  /\ ch \in [Chans -> Channel]
  /\ \A c \in Chans : Told(ch[c])
  /\ pc \in Serving => /\ cur \in Chans /\ ch[cur].st = "open"
                       /\ ch[cur].served <=> pc # "wait"
  /\ pc \in Serving \ {"wait"} => bound = cur

LEMMA NoChanTold == Told(NoChan)
  <1>1. NoChan.reqs \in Seq(Requests)
    BY DEF NoChan
  <1> QED
    BY <1>1 DEF NoChan, Told, Channel

LEMMA InitChans == Init => ChanInv
  BY NoChanTold DEF Init, ChanInv, Serving, Told

\* A step that puts r in the place of channel c.
LEMMA OneChannel ==
  ASSUME ChanInv, NEW c \in Chans, NEW r, Told(r), ch' = [ch EXCEPT ![c] = r],
         pc' \in Serving => /\ cur' \in Chans /\ ch'[cur'].st = "open"
                            /\ ch'[cur'].served <=> pc' # "wait",
         pc' \in Serving \ {"wait"} => bound' = cur'
  PROVE  ChanInv'
  <1>1. r \in Channel
    BY DEF Told
  <1>2. ch' \in [Chans -> Channel] /\ \A d \in Chans : ch'[d] = IF d = c THEN r ELSE ch[d]
    BY <1>1 DEF ChanInv
  <1>3. \A d \in Chans : Told(ch[d])'
    <2> TAKE d \in Chans
    <2>1. CASE d = c
      BY <1>2, <2>1 DEF Told
    <2>2. CASE d # c
      BY <1>2, <2>2 DEF ChanInv, Told
    <2> QED
      BY <2>1, <2>2
  <1> QED
    BY <1>2, <1>3, Zenon DEF ChanInv

\* A step of a channel's goroutine or of the client: the handler stays where it is.
LEMMA ServedStays ==
  ASSUME ChanInv, NEW c \in Chans, NEW r, Told(r), r.served = ch[c].served,
         ch[c].st = "open" => r.st = "open",
         ch' = [ch EXCEPT ![c] = r], UNCHANGED <<pc, cur, bound>>
  PROVE  ChanInv'
  <1>1. pc' \in Serving => /\ cur' \in Chans /\ ch'[cur'].st = "open"
                           /\ ch'[cur'].served <=> pc' # "wait"
    BY DEF ChanInv
  <1>2. pc' \in Serving \ {"wait"} => bound' = cur'
    BY DEF ChanInv
  <1> QED
    BY <1>1, <1>2, OneChannel

\* A step that leaves the channels alone.
LEMMA NoChannel ==
  ASSUME ChanInv, UNCHANGED <<ch, cur, bound>>,
         pc' \in Serving => pc \in Serving /\ (pc' = "wait" <=> pc = "wait")
  PROVE  ChanInv'
  BY DEF ChanInv

\* A set of naturals has a least element.
LEMMA LeastNat ==
  ASSUME NEW T \in SUBSET Nat, T # {}
  PROVE  \E m \in T : \A n \in T : m <= n
  <1> DEFINE R == OpToRel(<, Nat)
  <1>1. IsWellFoundedOn(R, Nat)
    BY NatLessThanWellFounded
  <1>2. \A x, y \in Nat : x < y => <<x, y>> \in R
    BY DEF OpToRel
  <1> HIDE DEF R
  <1>3. PICK m \in T : \A y \in T : ~(<<y, m>> \in R)
    BY <1>1, WFMin
  <1>4. \A n \in T : ~(n < m)
    BY <1>2, <1>3
  <1>5. \A n \in T : m <= n
    BY <1>4
  <1> QED
    BY <1>5, Zenon

\* NewChannel's queue hands over the channel that was offered first.
LEMMA FirstOffered ==
  ASSUME Offered # {}
  PROVE  First \in Offered /\ First \in Chans
  <1>1. Offered \in SUBSET Nat
    BY SshLimits DEF Offered, Chans
  <1>2. \E m \in Offered : \A d \in Offered : m <= d
    BY <1>1, LeastNat
  <1>3. First \in Offered
    BY <1>2, Zenon DEF First
  <1> QED
    BY <1>3 DEF Offered

\* The answer to a request: yes is said where a start is put, and nowhere else.
LEMMA AnsweredTold ==
  ASSUME NEW c \in Chans, Told(ch[c]), ch[c].rq = "run", NEW q \in Requests
  PROVE  LET a == Answered(c, q)
         IN /\ Told(a) /\ a.served = ch[c].served /\ a.reqs = ch[c].reqs /\ a.rq = "run"
            /\ a.st = ch[c].st
  <1> DEFINE r == ch[c]
             p == [r EXCEPT !.pty = TRUE]
             w == Wanted(c, q)
             x == [[r EXCEPT !.yes = 1] EXCEPT !.started = TRUE]
             y == [x EXCEPT !.start = w]
  <1>1. Told(p) /\ p.served = r.served /\ p.reqs = r.reqs /\ p.rq = "run" /\ p.st = r.st
    BY DEF Told, Channel
  <1>2. ASSUME ~r.started
        PROVE  Told(y) /\ y.served = r.served /\ y.reqs = r.reqs /\ y.rq = "run" /\ y.st = r.st
    <2>1. w \in {"shell", "tty", "exec"}
      BY DEF Wanted
    <2>2. r \in Channel /\ r.yes = 0 /\ r.st \notin {"none", "session", "tunnel"}
      BY <1>2 DEF Told, Channel
    <2>5. r.start = "empty"
      BY <2>2 DEF Told, Channel
    <2>6. r.st = "closed" => r.late \/ r.served
      BY <2>2, <2>5 DEF Told
    <2> HIDE DEF w
    <2>7. /\ x \in Channel /\ x.st = r.st /\ x.rq = "run" /\ x.yes = 1 /\ x.started
          /\ x.served = r.served /\ x.late = r.late /\ x.reqs = r.reqs
      BY <2>2 DEF Channel
    <2> HIDE DEF x
    <2>3. /\ y \in Channel /\ y.st = r.st /\ y.rq = "run" /\ y.yes = 1 /\ y.started /\ y.start = w
          /\ y.served = r.served /\ y.late = r.late /\ y.reqs = r.reqs
      BY <2>1, <2>7 DEF Channel
    <2> HIDE DEF y
    <2> QED
      BY <2>1, <2>2, <2>3, <2>6 DEF Told
  <1>3. \/ Answered(c, q) = p
        \/ ~r.started /\ Answered(c, q) = y
        \/ Answered(c, q) = r
    <2>1. r.yes \in {0, 1} /\ (~r.started => r.yes + 1 = 1)
      BY DEF Told, Channel
    <2>2. CASE q = "pty-req"
      BY <2>2 DEF Answered
    <2>3. CASE q \in {"shell", "exec"} /\ ~r.started
      BY <2>1, <2>3 DEF Answered
    <2>4. CASE q # "pty-req" /\ ~(q \in {"shell", "exec"} /\ ~r.started)
      BY <2>4 DEF Answered
    <2> QED
      BY <2>2, <2>3, <2>4
  <1> HIDE DEF p, y, x
  <1> QED
    BY <1>1, <1>2, <1>3

\* The end of the goroutine: a start that nobody put in is closed, one that
\* was put in stays.
LEMMA ClosedTold ==
  ASSUME NEW r, Told(r), r.rq = "run"
  PROVE  Told(CloseStart(r)) /\ CloseStart(r).served = r.served /\ CloseStart(r).st = r.st
  <1> DEFINE q == CloseStart(r)
             s == IF r.start = "empty" THEN "closed" ELSE r.start
  <1>1. r \in Channel /\ <<>> \in Seq(Requests) /\ s \in {"closed", "shell", "tty", "exec", "taken"}
    BY DEF Told, Channel
  <1>2. s = "closed" <=> r.yes = 0
    BY DEF Told, Channel
  <1>3. /\ r.st \notin {"none", "session", "tunnel"} /\ (s = "taken" <=> r.served)
        /\ r.late => r.st = "closed" /\ ~r.served
    BY DEF Told
  <1>4. r.st = "closed" => r.late \/ r.served
    BY DEF Told
  <1> HIDE DEF s
  <1>5. /\ q \in Channel /\ q.st = r.st /\ q.rq = "ended" /\ q.yes = r.yes /\ q.start = s
        /\ q.served = r.served /\ q.late = r.late
    BY <1>1 DEF CloseStart, Channel, s
  <1> HIDE DEF q
  <1>6. Told(q)
    BY <1>1, <1>2, <1>3, <1>4, <1>5 DEF Told
  <1> QED
    BY <1>5, <1>6 DEF q

LEMMA NextChans == ChanInv /\ [Next]_vars => ChanInv'
  <1> SUFFICES ASSUME ChanInv, [Next]_vars PROVE ChanInv'
    OBVIOUS
  <1>0. \A c \in Chans : Told(ch[c]) /\ ch[c] \in Channel
    BY DEF ChanInv
  <1>q. ASSUME UNCHANGED <<ch, cur, bound>>,
               pc' \in Serving => pc \in Serving /\ (pc' = "wait" <=> pc = "wait")
        PROVE  ChanInv'
    BY <1>q, NoChannel
  <1>1. CASE NoHostKey \/ Tarpit \/ HoldOpen \/ Handshake \/ HandshakeFails
    BY <1>1, <1>q DEF NoHostKey, Tarpit, HoldOpen, Handshake, HandshakeFails, Serving
  <1>2. CASE AuthFails \/ AuthSucceeds
    BY <1>2, <1>q DEF AuthFails, AuthSucceeds, Serving
  <1>3. CASE RejectChannel
    <2> DEFINE r == [ch[First] EXCEPT !.st = "closed"]
    <2>1. Offered # {} /\ First \in Chans /\ First \in Offered /\ ch[First].st = "tunnel"
      BY <1>3, FirstOffered DEF RejectChannel
    <2>2. Told(r)
      BY <1>0, <2>1 DEF Told, Channel
    <2>3. ch' = [ch EXCEPT ![First] = r] /\ pc' = pc /\ pc = "chans"
      BY <1>3 DEF RejectChannel
    <2> HIDE DEF r
    <2> QED
      BY <2>1, <2>2, <2>3, OneChannel DEF Serving
  <1>4. CASE AcceptChannel
    <2> DEFINE r == [[ch[First] EXCEPT !.st = "open"] EXCEPT !.rq = "run"]
               q == [ch[First] EXCEPT !.st = "closed"]
    <2>1. Offered # {} /\ First \in Chans /\ ch[First].st = "session"
      BY <1>4, FirstOffered DEF AcceptChannel
    <2>a. Told(q)
      BY <1>0, <2>1 DEF Told, Channel
    <2>b. /\ r \in Channel /\ r.st = "open" /\ r.rq = "run" /\ r.yes = ch[First].yes
          /\ r.start = ch[First].start /\ r.started = ch[First].started
          /\ r.served = ch[First].served /\ r.late = ch[First].late
      BY <1>0, <2>1 DEF Channel
    <2>c. /\ ch[First].yes = 0 /\ ch[First].start = "empty" /\ ~ch[First].started
          /\ ~ch[First].served /\ ~ch[First].late
      BY <1>0, <2>1 DEF Told
    <2> HIDE DEF r
    <2>2. Told(r) /\ Told(q)
      BY <2>a, <2>b, <2>c DEF Told
    <2> USE DEF r
    <2>3. \/ ch' = [ch EXCEPT ![First] = r] /\ cur' = First /\ pc' = "wait"
          \/ ch' = [ch EXCEPT ![First] = q] /\ cur' = cur /\ pc' = "chans"
      BY <1>0, <1>4, <2>1 DEF AcceptChannel
    <2> HIDE DEF r, q
    <2>4. CASE ch' = [ch EXCEPT ![First] = r] /\ cur' = First /\ pc' = "wait"
      <3>1. ch'[cur'] = r
        BY <2>1, <2>4 DEF ChanInv
      <3> QED
        BY <2>1, <2>2, <2>4, <2>b, <2>c, <3>1, OneChannel
    <2>5. CASE ch' = [ch EXCEPT ![First] = q] /\ cur' = cur /\ pc' = "chans"
      BY <2>1, <2>2, <2>5, OneChannel DEF Serving
    <2> QED
      BY <2>3, <2>4, <2>5
  <1>5. CASE ChannelsEnd \/ ReadLine \/ ReadReturns \/ ReadFails \/ ShellEnds
    BY <1>5, <1>q DEF ChannelsEnd, ReadLine, ReadReturns, ReadFails, ShellEnds, Serving
  <1>6. CASE ReadKey
    BY <1>6, <1>q DEF ReadKey, Serving
  <1>7. CASE NothingStarted
    <2> DEFINE r == [ch[cur] EXCEPT !.st = "closed"]
    <2>1. cur \in Chans /\ ch[cur].start = "closed"
      BY <1>7 DEF NothingStarted, ChanInv, Serving
    <2>2. Told(r)
      BY <1>0, <2>1 DEF Told, Channel
    <2>3. ch' = [ch EXCEPT ![cur] = r] /\ pc' = "chans"
      BY <1>7 DEF NothingStarted, CloseChannel
    <2> HIDE DEF r
    <2> QED
      BY <2>1, <2>2, <2>3, OneChannel DEF Serving
  <1>8. CASE StartTimeout
    <2> DEFINE r == [[ch[cur] EXCEPT !.st = "closed"] EXCEPT !.late = TRUE]
    <2>1. cur \in Chans /\ ~ch[cur].served
      BY <1>8 DEF StartTimeout, ChanInv, Serving
    <2>2. Told(r)
      BY <1>0, <2>1 DEF Told, Channel
    <2>3. ch' = [ch EXCEPT ![cur] = r] /\ pc' = "chans"
      BY <1>8 DEF StartTimeout, CloseChannel
    <2> HIDE DEF r
    <2> QED
      BY <2>1, <2>2, <2>3, OneChannel DEF Serving
  <1>9. CASE StartShell
    <2> DEFINE r == [[ch[cur] EXCEPT !.start = "taken"] EXCEPT !.served = TRUE]
    <2>1. cur \in Chans /\ ch[cur].start \in {"shell", "tty", "exec"}
      BY <1>9 DEF StartShell, ChanInv, Serving
    <2>2. Told(r) /\ r.served /\ r.st = "open"
      BY <1>0, <1>9, <2>1 DEF StartShell, ChanInv, Serving, Told, Channel
    <2>3. ch' = [ch EXCEPT ![cur] = r] /\ pc' = "shell" /\ cur' = cur /\ bound' = cur
      BY <1>0, <1>9, <2>1 DEF StartShell, Rebind
    <2> HIDE DEF r
    <2>4. ch'[cur'].served /\ ch'[cur'].st = "open"
      BY <2>1, <2>2, <2>3 DEF ChanInv
    <2> QED
      BY <2>1, <2>2, <2>3, <2>4, OneChannel
  <1>10. CASE SendExitStatus
    <2> DEFINE r == [ch[cur] EXCEPT !.st = "closed"]
    <2>1. cur \in Chans /\ ch[cur].served
      BY <1>10 DEF SendExitStatus, ChanInv, Serving
    <2>2. Told(r)
      BY <1>0, <2>1 DEF Told, Channel
    <2>3. ch' = [ch EXCEPT ![cur] = r] /\ pc' = "chans"
      BY <1>10 DEF SendExitStatus, CloseChannel
    <2> HIDE DEF r
    <2> QED
      BY <2>1, <2>2, <2>3, OneChannel DEF Serving
  <1>11. ASSUME NEW c \in Chans, AnswerRequest(c) PROVE ChanInv'
    <2> DEFINE a == Answered(c, Head(ch[c].reqs))
               r == [a EXCEPT !.reqs = Tail(ch[c].reqs)]
    <2>1. ch[c].rq = "run" /\ Head(ch[c].reqs) \in Requests /\ Tail(ch[c].reqs) \in Seq(Requests)
      BY <1>0, <1>11, HeadTailProperties DEF AnswerRequest, Channel
    <2>2. Told(a) /\ a.served = ch[c].served /\ a.rq = "run" /\ a.st = ch[c].st
      BY <1>0, <2>1, AnsweredTold
    <2>3. ch' = [ch EXCEPT ![c] = r] /\ UNCHANGED <<pc, cur, bound>>
      BY <1>0, <1>11, <2>1, AnsweredTold DEF AnswerRequest
    <2> HIDE DEF a
    <2>5. /\ r \in Channel /\ r.st = a.st /\ r.rq = "run" /\ r.yes = a.yes /\ r.started = a.started
          /\ r.start = a.start /\ r.served = ch[c].served /\ r.late = a.late
      BY <2>1, <2>2 DEF Told, Channel
    <2> HIDE DEF r
    <2>4. Told(r) /\ r.served = ch[c].served /\ r.st = ch[c].st
      BY <2>2, <2>5 DEF Told
    <2> QED
      BY <2>3, <2>4, ServedStays
  <1>12. ASSUME NEW c \in Chans, RequestsEnd(c) \/ RequestPanics(c) PROVE ChanInv'
    <2> DEFINE r == CloseStart(ch[c])
    <2>1. ch[c].rq = "run"
      BY <1>12 DEF RequestsEnd, RequestPanics
    <2>2. Told(r) /\ r.served = ch[c].served /\ r.st = ch[c].st
      BY <1>0, <2>1, ClosedTold
    <2>3. ch' = [ch EXCEPT ![c] = r] /\ UNCHANGED <<pc, cur, bound>>
      BY <1>12 DEF RequestsEnd, RequestPanics
    <2> HIDE DEF r
    <2> QED
      BY <2>2, <2>3, ServedStays
  <1>13. ASSUME NEW c \in Chans, OfferChannel(c) PROVE ChanInv'
    <2>1. PICK s \in {"session", "tunnel"} : ch' = [ch EXCEPT ![c].st = s]
      BY <1>13 DEF OfferChannel
    <2> DEFINE r == [ch[c] EXCEPT !.st = s]
    <2>2. Told(r) /\ r.served = ch[c].served /\ ch[c].st # "open"
      BY <1>0, <1>13 DEF OfferChannel, Told, Channel
    <2>3. ch' = [ch EXCEPT ![c] = r] /\ UNCHANGED <<pc, cur, bound>>
      BY <1>13, <2>1 DEF OfferChannel
    <2> HIDE DEF r
    <2> QED
      BY <2>2, <2>3, ServedStays
  <1>14. ASSUME NEW c \in Chans, SendRequest(c) PROVE ChanInv'
    <2>1. PICK q \in Requests : ch' = [ch EXCEPT ![c].reqs = Append(@, q)]
      BY <1>14 DEF SendRequest
    <2> DEFINE r == [ch[c] EXCEPT !.reqs = Append(@, q)]
    <2>2. Append(ch[c].reqs, q) \in Seq(Requests)
      BY <1>0, AppendProperties DEF Channel
    <2>3. Told(r) /\ r.served = ch[c].served /\ r.st = ch[c].st
      BY <1>0, <1>14, <2>2 DEF SendRequest, Told, Channel
    <2>4. ch' = [ch EXCEPT ![c] = r] /\ UNCHANGED <<pc, cur, bound>>
      BY <1>14, <2>1 DEF SendRequest
    <2> HIDE DEF r
    <2> QED
      BY <2>3, <2>4, ServedStays
  <1>15. ASSUME NEW c \in Chans, CloseByPeer(c) PROVE ChanInv'
    <2> DEFINE r == [ch[c] EXCEPT !.peer = FALSE]
    <2>1. Told(r) /\ r.served = ch[c].served /\ r.st = ch[c].st
      BY <1>0 DEF Told, Channel
    <2>2. ch' = [ch EXCEPT ![c] = r] /\ UNCHANGED <<pc, cur, bound>>
      BY <1>15 DEF CloseByPeer
    <2> HIDE DEF r
    <2> QED
      BY <2>1, <2>2, ServedStays
  <1>16. CASE ShellWrites \/ PressKey \/ Disconnect \/ ReadDeadline \/ WriteDeadline
    BY <1>16, <1>q DEF ShellWrites, PressKey, Disconnect, ReadDeadline, WriteDeadline
  <1>17. CASE Done \/ UNCHANGED vars
    BY <1>17, <1>q DEF Done, vars
  <1> QED
    BY <1>1, <1>2, <1>3, <1>4, <1>5, <1>6, <1>7, <1>8, <1>9, <1>10, <1>11, <1>12, <1>13,
       <1>14, <1>15, <1>16, <1>17 DEF Next, Handler, Client, Goroutine

\* AcceptedIsServed for every number of channels and requests: what the request
\* goroutine answers, the start it puts in, the start timer and the deferred
\* close of serveSession never leave a client that was told yes with nothing,
\* unless the timer had given the channel up.
THEOREM AcceptedAreServed == Spec => []AcceptedIsServed
  <1>1. ChanInv => AcceptedIsServed
    <2> SUFFICES ASSUME ChanInv, NEW c \in Chans
                 PROVE  /\ ch[c].yes <= 1
                        /\ ch[c].st = "closed" /\ ch[c].yes = 1 => ch[c].served \/ ch[c].late
      BY DEF AcceptedIsServed
    <2>1. Told(ch[c]) /\ ch[c].yes \in {0, 1}
      BY DEF ChanInv, Told, Channel
    <2> QED
      BY <2>1 DEF Told
  <1> QED
    BY <1>1, InitChans, NextChans, PTL DEF Spec

\* ShellOnItsChannel for every number of channels and requests: the start timer
\* of serveSession, the requests that arrive late and the channel served next
\* never get into each other's way.
THEOREM ShellsKeepTheirChannel == Spec => []ShellOnItsChannel
  <1>1. ChanInv => ShellOnItsChannel
    <2> SUFFICES ASSUME ChanInv PROVE ShellOnItsChannel
      OBVIOUS
    <2>1. ASSUME pc \in {"shell", "read", "exit"}
          PROVE  bound = cur /\ ch[cur].st = "open" /\ ch[cur].yes = 1 /\ ch[cur].start = "taken"
      <3>1. bound = cur /\ cur \in Chans /\ ch[cur].st = "open" /\ ch[cur].served
        BY <2>1 DEF ChanInv, Serving
      <3>2. Told(ch[cur])
        BY <3>1 DEF ChanInv
      <3> QED
        BY <3>1, <3>2 DEF Told, Channel
    <2>2. ASSUME NEW c \in Chans
          PROVE  ~(ch[c].late /\ (ch[c].served \/ ch[c].start = "taken"))
      BY DEF ChanInv, Told
    <2> QED
      BY <2>1, <2>2 DEF ShellOnItsChannel
  <1> QED
    BY <1>1, InitChans, NextChans, PTL DEF Spec

-----------------------------------------------------------------------------
(* The terminal.                                                           *)

Terminal == [cooked : BOOLEAN, line : Nat, pending : Nat, prevCR : BOOLEAN, eof : BOOLEAN,
             keys : Seq(Keys), seen : Seq(Keys), lines : Nat, flushed : Nat, lost : BOOLEAN]

\* Where a line ends in what was typed, apart from lines that were cut.
LineEnds(s) ==
  {i \in 1..Len(s) : s[i] \in {"cr", "ctrlC"} \/ (s[i] = "lf" /\ (i = 1 \/ s[i-1] # "cr"))}

\* Whether the key typed last is a CR.
EndsInCR(s) == Len(s) > 0 /\ s[Len(s)] = "cr"

\* prevCR remembers the last key, and the lines handed over are the ends in
\* what was typed and the lines that were cut.
Cooking(t) ==
  /\ t \in Terminal
  /\ t.line < MaxCooked
  /\ t.cooked => /\ t.prevCR <=> EndsInCR(t.seen)
                 /\ t.lines = Cardinality(LineEnds(t.seen)) + t.flushed

\* One more key adds at most one end, the place of that key.
LEMMA LineEndsAppend ==
  ASSUME NEW s \in Seq(Keys), NEW k \in Keys
  PROVE  LET n == Cardinality(LineEnds(s))
             m == Cardinality(LineEnds(Append(s, k)))
         IN /\ n \in Nat /\ m \in Nat
            /\ m = IF k \in {"cr", "ctrlC"} \/ (k = "lf" /\ ~EndsInCR(s)) THEN n + 1 ELSE n
            /\ EndsInCR(Append(s, k)) <=> k = "cr"
  <1> DEFINE t == Append(s, k)
             p == Len(s) + 1
             E == LineEnds(s)
  <1>1. /\ Len(s) \in Nat /\ Len(t) = p /\ t[p] = k
        /\ \A i \in 1..Len(s) : t[i] = s[i]
    BY AppendProperties, LenProperties
  <1>2. E \in SUBSET (1..Len(s)) /\ IsFiniteSet(E) /\ p \notin E
    <2>1. E \in SUBSET (1..Len(s))
      BY DEF LineEnds
    <2>2. IsFiniteSet(1..Len(s))
      <3>1. 1 \in Int /\ Len(s) \in Int
        BY <1>1
      <3> QED
        BY <3>1, FS_Interval
    <2>3. IsFiniteSet(E)
      BY <2>1, <2>2, FS_Subset
    <2> QED
      BY <1>1, <2>1, <2>3
  <1> HIDE DEF t
  <1>3. \A i \in 1..Len(s) : i \in LineEnds(t) <=> i \in E
    BY <1>1 DEF LineEnds
  <1>a. p \in 1..Len(t) /\ (p = 1 <=> Len(s) = 0) /\ p - 1 = Len(s)
    BY <1>1
  <1>b. Len(s) > 0 => t[p - 1] = s[Len(s)]
    BY <1>1
  <1>c. EndsInCR(s) <=> p # 1 /\ t[p - 1] = "cr"
    BY <1>1, <1>a, <1>b DEF EndsInCR
  <1> HIDE DEF p
  <1>d. p \in LineEnds(t) <=>
          t[p] \in {"cr", "ctrlC"} \/ (t[p] = "lf" /\ (p = 1 \/ t[p - 1] # "cr"))
    BY <1>a DEF LineEnds
  <1>4. p \in LineEnds(t) <=> k \in {"cr", "ctrlC"} \/ (k = "lf" /\ ~EndsInCR(s))
    BY <1>1, <1>c, <1>d
  <1>5. LineEnds(t) \subseteq 1..p
    BY <1>1 DEF LineEnds
  <1>8. \A i \in 1..p : i = p \/ i \in 1..Len(s)
    BY <1>1 DEF p
  <1> HIDE DEF E
  <1>6. CASE p \in LineEnds(t)
    <2>1. LineEnds(t) = E \cup {p}
      BY <1>1, <1>2, <1>3, <1>5, <1>6, <1>8
    <2> QED
      BY <2>1, <1>1, <1>2, <1>4, <1>6, FS_AddElement, FS_CardinalityType DEF EndsInCR, t, E, p
  <1>7. CASE p \notin LineEnds(t)
    <2>1. LineEnds(t) = E
      BY <1>1, <1>2, <1>3, <1>5, <1>7, <1>8
    <2> QED
      BY <2>1, <1>1, <1>2, <1>4, <1>7, FS_CardinalityType DEF EndsInCR, t, E, p
  <1> QED
    BY <1>6, <1>7

\* A terminal whose lines and typed keys are those of another one.
LEMMA CookingKept ==
  ASSUME NEW t, Cooking(t), NEW v \in Terminal, v.line = t.line, v.cooked = t.cooked,
         v.seen = t.seen, v.lines = t.lines, v.flushed = t.flushed,
         t.cooked => v.prevCR = t.prevCR
  PROVE  Cooking(v)
  BY DEF Cooking

LEMMA NoTTYCooking ==
  /\ Cooking(NoTTY)
  /\ \A b \in BOOLEAN : Cooking([NoTTY EXCEPT !.cooked = b])
  <1>1. LineEnds(<<>>) = {} /\ ~EndsInCR(<<>>)
    BY DEF LineEnds, EndsInCR
  <1>2. MaxCooked \in Nat \ {0}
    BY SshLimits
  <1>3. Cardinality(LineEnds(<<>>)) = 0 /\ 0 < MaxCooked
    BY <1>1, <1>2, FS_EmptySet
  <1>4. ASSUME NEW t \in Terminal, t.line = 0, t.prevCR = FALSE, t.seen = <<>>, t.lines = 0,
               t.flushed = 0
        PROVE  Cooking(t)
    BY <1>1, <1>3, <1>4 DEF Cooking
  <1>5. <<>> \in Seq(Keys)
    OBVIOUS
  <1>6. Cooking(NoTTY)
    BY <1>4, <1>5 DEF NoTTY, Terminal
  <1>7. ASSUME NEW b \in BOOLEAN PROVE Cooking([NoTTY EXCEPT !.cooked = b])
    BY <1>4, <1>5 DEF NoTTY, Terminal
  <1> QED
    BY <1>6, <1>7

\* A key of a terminal: it ends a line or not, and may cut one.
LEMMA OneKey ==
  ASSUME NEW t, Cooking(t), t.cooked, NEW k \in Keys, NEW v \in Terminal,
         v.seen = Append(t.seen, k), v.prevCR <=> k = "cr", v.line < MaxCooked,
         NEW cut \in {0, 1}, v.flushed = t.flushed + cut,
         v.lines = t.lines + cut
                   + IF k \in {"cr", "ctrlC"} \/ (k = "lf" /\ ~t.prevCR) THEN 1 ELSE 0
  PROVE  Cooking(v)
  <1>1. t.seen \in Seq(Keys) /\ t.lines \in Nat /\ t.flushed \in Nat /\ t.prevCR \in BOOLEAN
    BY DEF Cooking, Terminal
  <1> DEFINE n == Cardinality(LineEnds(t.seen))
             m == Cardinality(LineEnds(Append(t.seen, k)))
  <1>2. /\ n \in Nat /\ m \in Nat
        /\ m = IF k \in {"cr", "ctrlC"} \/ (k = "lf" /\ ~EndsInCR(t.seen)) THEN n + 1 ELSE n
        /\ EndsInCR(Append(t.seen, k)) <=> k = "cr"
    BY <1>1, LineEndsAppend
  <1>3. t.lines = n + t.flushed /\ (t.prevCR <=> EndsInCR(t.seen))
    BY DEF Cooking
  <1> HIDE DEF n, m
  <1>4. v.lines = m + v.flushed
    BY <1>1, <1>2, <1>3
  <1> QED
    BY <1>2, <1>4 DEF Cooking, m

\* endLine and Printable, field by field.
LEMMA EndLineFacts ==
  ASSUME NEW u \in Terminal
  PROVE  LET v == endLine(u)
         IN /\ v \in Terminal /\ v.line = 0 /\ v.lines = u.lines + 1 /\ v.pending = u.pending + 1
            /\ v.flushed = u.flushed /\ v.seen = u.seen /\ v.prevCR = u.prevCR
            /\ v.cooked = u.cooked /\ v.keys = u.keys
  <1> DEFINE w == [[u EXCEPT !.line = 0] EXCEPT !.pending = u.pending + 1]
             v == [w EXCEPT !.lines = u.lines + 1]
  <1>1. u.pending + 1 \in Nat /\ u.lines + 1 \in Nat
    BY DEF Terminal
  <1>2. /\ w \in Terminal /\ w.line = 0 /\ w.lines = u.lines /\ w.pending = u.pending + 1
        /\ w.flushed = u.flushed /\ w.seen = u.seen /\ w.prevCR = u.prevCR
        /\ w.cooked = u.cooked /\ w.keys = u.keys
    BY <1>1 DEF Terminal
  <1>3. endLine(u) = v
    BY DEF endLine
  <1> HIDE DEF w
  <1>4. /\ v \in Terminal /\ v.line = 0 /\ v.lines = u.lines + 1 /\ v.pending = u.pending + 1
        /\ v.flushed = u.flushed /\ v.seen = u.seen /\ v.prevCR = u.prevCR
        /\ v.cooked = u.cooked /\ v.keys = u.keys
    BY <1>1, <1>2 DEF Terminal
  <1> HIDE DEF v
  <1> QED
    BY <1>3, <1>4

LEMMA PrintableFacts ==
  ASSUME NEW u \in Terminal, u.line < MaxCooked
  PROVE  LET v == Printable(u)
         IN /\ v \in Terminal /\ v.line < MaxCooked
            /\ \E cut \in {0, 1} : v.flushed = u.flushed + cut /\ v.lines = u.lines + cut
            /\ v.seen = u.seen /\ v.prevCR = u.prevCR /\ v.cooked = u.cooked /\ v.keys = u.keys
  <1> DEFINE w == [u EXCEPT !.line = u.line + 1]
             e == endLine(w)
  <1>0. MaxCooked \in Nat \ {0}
    BY SshLimits
  <1>1. /\ w \in Terminal /\ w.lines = u.lines /\ w.flushed = u.flushed /\ w.seen = u.seen
        /\ w.prevCR = u.prevCR /\ w.cooked = u.cooked /\ w.keys = u.keys /\ w.line = u.line + 1
    BY DEF Terminal
  <1> HIDE DEF w
  <1>2. /\ e \in Terminal /\ e.line = 0 /\ e.lines = w.lines + 1 /\ e.flushed = w.flushed
        /\ e.seen = w.seen /\ e.prevCR = w.prevCR /\ e.cooked = w.cooked /\ e.keys = w.keys
    BY <1>1, EndLineFacts
  <1> HIDE DEF e
  <1>3. CASE u.line + 1 >= MaxCooked
    <2> DEFINE x == [e EXCEPT !.flushed = e.flushed + 1]
    <2>3. e.flushed + 1 \in Nat
      BY <1>2 DEF Terminal
    <2>1. /\ x \in Terminal /\ x.line = 0 /\ x.lines = e.lines /\ x.flushed = e.flushed + 1
          /\ x.seen = e.seen /\ x.prevCR = e.prevCR /\ x.cooked = e.cooked /\ x.keys = e.keys
      BY <1>2, <2>3 DEF Terminal
    <2>2. Printable(u) = x
      BY <1>3 DEF Printable, e, w
    <2> HIDE DEF x
    <2> QED
      BY <1>0, <1>1, <1>2, <2>1, <2>2
  <1>4. CASE ~(u.line + 1 >= MaxCooked)
    <2>1. Printable(u) = w
      BY <1>4 DEF Printable, w
    <2>2. w.line < MaxCooked /\ u.flushed + 0 = u.flushed /\ u.lines + 0 = u.lines
      BY <1>0, <1>1, <1>4 DEF Terminal
    <2> QED
      BY <1>1, <2>1, <2>2
  <1> QED
    BY <1>3, <1>4

LEMMA CookKeeps ==
  ASSUME NEW t, Cooking(t), t.cooked, NEW k \in Keys
  PROVE  Cooking(cook(t, k)) /\ cook(t, k).keys = t.keys /\ cook(t, k).cooked
  <1> DEFINE u == [[t EXCEPT !.prevCR = (k = "cr")] EXCEPT !.seen = Append(t.seen, k)]
             n == IF u.line > 0 THEN u.line - 1 ELSE u.line
             d == [u EXCEPT !.line = n]
             e == [u EXCEPT !.eof = (t.line = 0)]
  <1>0. t \in Terminal /\ t.line < MaxCooked /\ MaxCooked \in Nat \ {0}
    BY SshLimits DEF Cooking
  <1>1. Append(t.seen, k) \in Seq(Keys)
    BY <1>0, AppendProperties DEF Terminal
  <1>2. /\ u \in Terminal /\ u.seen = Append(t.seen, k) /\ (u.prevCR <=> k = "cr")
        /\ u.line = t.line /\ u.lines = t.lines /\ u.flushed = t.flushed
        /\ u.cooked = t.cooked /\ u.keys = t.keys
    BY <1>0, <1>1 DEF Terminal
  <1>3. cook(t, k) = CASE k = "cr"    -> endLine(u)
                       [] k = "lf"    -> IF t.prevCR THEN u ELSE endLine(u)
                       [] k = "del"   -> d
                       [] k = "ctrlC" -> endLine(u)
                       [] k = "ctrlD" -> e
                       [] OTHER       -> Printable(u)
    BY DEF cook
  <1> HIDE DEF u
  <1>a. n \in Nat /\ n < MaxCooked
    BY <1>0, <1>2 DEF Terminal
  <1> HIDE DEF n
  <1>4. /\ d \in Terminal /\ d.line < MaxCooked /\ d.seen = u.seen /\ d.prevCR = u.prevCR
        /\ d.lines = u.lines /\ d.flushed = u.flushed /\ d.cooked = u.cooked /\ d.keys = u.keys
    BY <1>a, <1>2 DEF Terminal
  <1>5. /\ e \in Terminal /\ e.line < MaxCooked /\ e.seen = u.seen /\ e.prevCR = u.prevCR
        /\ e.lines = u.lines /\ e.flushed = u.flushed /\ e.cooked = u.cooked /\ e.keys = u.keys
    BY <1>0, <1>2 DEF Terminal
  <1>6. /\ t.lines + 0 = t.lines /\ t.lines + 0 + 0 = t.lines /\ t.lines + 0 + 1 = t.lines + 1
        /\ t.flushed + 0 = t.flushed
        /\ t.lines + 1 + 0 = t.lines + 1
    BY <1>0 DEF Terminal
  <1> HIDE DEF d, e
  <1>7. CASE k \in {"cr", "ctrlC"} \/ (k = "lf" /\ ~t.prevCR)
    <2>1. cook(t, k) = endLine(u)
      BY <1>3, <1>7
    <2> DEFINE v == endLine(u)
    <2>2. /\ v \in Terminal /\ v.line = 0 /\ v.lines = u.lines + 1 /\ v.flushed = u.flushed
          /\ v.seen = u.seen /\ v.prevCR = u.prevCR /\ v.cooked = u.cooked /\ v.keys = u.keys
      BY <1>2, EndLineFacts
    <2> HIDE DEF v
    <2>3. v.line < MaxCooked /\ v.flushed = t.flushed + 0 /\ v.lines = t.lines + 0 + 1
      BY <1>0, <1>2, <1>6, <2>2
    <2>4. Cooking(v)
      BY <1>2, <1>7, <2>2, <2>3, OneKey
    <2> QED
      BY <1>2, <2>1, <2>2, <2>4 DEF v
  <1>8. CASE k = "lf" /\ t.prevCR
    <2>1. cook(t, k) = u
      BY <1>3, <1>8
    <2> QED
      BY <1>0, <1>2, <1>6, <1>8, <2>1, OneKey
  <1>9. CASE k = "del"
    <2>1. cook(t, k) = d
      BY <1>3, <1>9
    <2> QED
      BY <1>0, <1>2, <1>4, <1>6, <1>9, <2>1, OneKey
  <1>10. CASE k = "ctrlD"
    <2>1. cook(t, k) = e
      BY <1>3, <1>10
    <2> QED
      BY <1>0, <1>2, <1>5, <1>6, <1>10, <2>1, OneKey
  <1>11. CASE k = "char"
    <2>1. cook(t, k) = Printable(u)
      BY <1>3, <1>11
    <2> DEFINE v == Printable(u)
    <2>2. /\ v \in Terminal /\ v.line < MaxCooked
          /\ v.seen = u.seen /\ v.prevCR = u.prevCR /\ v.cooked = u.cooked /\ v.keys = u.keys
      BY <1>0, <1>2, PrintableFacts
    <2>3. PICK cut \in {0, 1} : v.flushed = u.flushed + cut /\ v.lines = u.lines + cut
      BY <1>0, <1>2, PrintableFacts
    <2>4. t.lines + cut + 0 = t.lines + cut
      BY <1>0 DEF Terminal
    <2> HIDE DEF v
    <2>5. v.flushed = t.flushed + cut /\ v.lines = t.lines + cut + 0
      BY <1>2, <2>3, <2>4
    <2>6. Cooking(v)
      BY <1>2, <1>11, <2>2, <2>5, OneKey
    <2> QED
      BY <1>2, <2>1, <2>2, <2>6 DEF v
  <1> QED
    BY <1>7, <1>8, <1>9, <1>10, <1>11 DEF Keys

TTYInv == Cooking(tty)

LEMMA NextTTY == TTYInv /\ [Next]_vars => TTYInv'
  <1> SUFFICES ASSUME Cooking(tty), [Next]_vars PROVE Cooking(tty')
    BY DEF TTYInv
  <1>0. tty \in Terminal
    BY DEF Cooking
  <1>1. CASE UNCHANGED tty
    BY <1>1
  <1>2. CASE StartShell
    BY <1>2, NoTTYCooking DEF StartShell
  <1>3. CASE SendExitStatus
    BY <1>3, NoTTYCooking DEF SendExitStatus
  <1>4. CASE ReadKey
    <2>1. tty.keys \in Seq(Keys) /\ tty.keys # <<>>
      BY <1>0, <1>4 DEF ReadKey, Terminal
    <2>2. Head(tty.keys) \in Keys /\ Tail(tty.keys) \in Seq(Keys) /\ <<>> \in Seq(Keys)
      BY <2>1, HeadTailProperties
    <2>3. CASE tty.cooked
      <3> DEFINE k == cook(tty, Head(tty.keys))
      <3>1. Cooking(k) /\ k \in Terminal /\ k.keys = tty.keys
        BY <2>2, <2>3, CookKeeps DEF Cooking
      <3> DEFINE lost == tty.lost \/ (tty.cooked /\ Echoes(tty, Head(tty.keys)) /\ MuxWrite(net).failed)
                 u == [[k EXCEPT !.keys = Tail(k.keys)] EXCEPT !.lost = lost]
      <3>2. tty' = u \/ tty' = [u EXCEPT !.keys = <<>>]
        BY <1>4, <2>3, Zenon DEF ReadKey
      <3>4. lost \in BOOLEAN /\ Tail(k.keys) \in Seq(Keys)
        BY <2>2, <3>1
      <3> HIDE DEF k, lost
      <3>5. /\ u \in Terminal /\ u.line = k.line /\ u.cooked = k.cooked /\ u.seen = k.seen
            /\ u.lines = k.lines /\ u.flushed = k.flushed /\ u.prevCR = k.prevCR
        BY <3>1, <3>4 DEF Terminal
      <3> HIDE DEF u
      <3>3. /\ tty' \in Terminal /\ tty'.line = k.line /\ tty'.cooked = k.cooked
            /\ tty'.seen = k.seen /\ tty'.lines = k.lines /\ tty'.flushed = k.flushed
            /\ tty'.prevCR = k.prevCR
        BY <2>2, <3>2, <3>5 DEF Terminal
      <3> QED
        BY <3>1, <3>3, CookingKept
    <2>4. CASE ~tty.cooked
      <3>1. tty' = RawKey(tty)
        BY <1>4, <2>4 DEF ReadKey
      <3>2. /\ tty' \in Terminal /\ tty'.line = tty.line /\ tty'.cooked = tty.cooked
            /\ tty'.seen = tty.seen /\ tty'.lines = tty.lines /\ tty'.flushed = tty.flushed
        BY <1>0, <2>2, <3>1 DEF RawKey, Terminal
      <3> QED
        BY <2>4, <3>2, CookingKept
    <2> QED
      BY <2>3, <2>4
  <1>5. CASE ReadReturns
    <2>1. CASE tty.pending > 0 /\ tty' = [tty EXCEPT !.pending = @ - 1]
      <3>1. tty.pending - 1 \in Nat
        BY <1>0, <2>1 DEF Terminal
      <3>2. /\ tty' \in Terminal /\ tty'.line = tty.line /\ tty'.cooked = tty.cooked
            /\ tty'.seen = tty.seen /\ tty'.lines = tty.lines /\ tty'.flushed = tty.flushed
            /\ tty'.prevCR = tty.prevCR
        BY <1>0, <2>1, <3>1 DEF Terminal
      <3> QED
        BY <3>2, CookingKept
    <2>2. CASE ~tty.cooked /\ tty' = [tty EXCEPT !.prevCR = FALSE]
      <3>2. /\ tty' \in Terminal /\ tty'.line = tty.line /\ tty'.cooked = tty.cooked
            /\ tty'.seen = tty.seen /\ tty'.lines = tty.lines /\ tty'.flushed = tty.flushed
        BY <1>0, <2>2 DEF Terminal
      <3> QED
        BY <2>2, <3>2, CookingKept
    <2> QED
      BY <1>5, <2>1, <2>2 DEF ReadReturns
  <1>6. CASE PressKey
    <2>1. PICK k \in Keys : tty' = [tty EXCEPT !.keys = Append(tty.keys, k)]
      BY <1>6 DEF PressKey
    <2>2. Append(tty.keys, k) \in Seq(Keys)
      BY <1>0, AppendProperties DEF Terminal
    <2>3. /\ tty' \in Terminal /\ tty'.line = tty.line /\ tty'.cooked = tty.cooked
          /\ tty'.seen = tty.seen /\ tty'.lines = tty.lines /\ tty'.flushed = tty.flushed
          /\ tty'.prevCR = tty.prevCR
      BY <1>0, <2>1, <2>2 DEF Terminal
    <2> QED
      BY <2>3, CookingKept
  <1> QED
    BY <1>1, <1>2, <1>3, <1>4, <1>5, <1>6, Zenon
    DEF Next, Handler, Client, Goroutine, NoHostKey, Tarpit, HoldOpen, Handshake, HandshakeFails,
        RejectChannel, AcceptChannel, ChannelsEnd, NothingStarted, StartTimeout, ReadLine,
        ReadFails, ShellEnds, ShellWrites, AuthFails, AuthSucceeds, Disconnect, ReadDeadline,
        WriteDeadline, OfferChannel, SendRequest, CloseByPeer, AnswerRequest, RequestsEnd,
        RequestPanics, Done, vars

\* EnterIsOneLine for every sequence of keys and every bound on a line: the
\* cooked terminal hands over one line for CR, LF or both, one for Ctrl-C, and
\* one where a line reaches maxCookedLine, and nothing else.
THEOREM EntersAreOneLine == Spec => []EnterIsOneLine
  <1>1. Init => TTYInv
    BY NoTTYCooking DEF Init, TTYInv
  <1>2. TTYInv => EnterIsOneLine
    <2> SUFFICES ASSUME Cooking(tty) PROVE EnterIsOneLine
      BY DEF TTYInv
    <2>1. DOMAIN tty.seen = 1..Len(tty.seen)
      BY LenProperties DEF Cooking, Terminal
    <2> DEFINE ends == {i \in DOMAIN tty.seen :
                          \/ tty.seen[i] \in {"cr", "ctrlC"}
                          \/ tty.seen[i] = "lf" /\ (i = 1 \/ tty.seen[i-1] # "cr")}
    <2>2. LineEnds(tty.seen) = ends
      BY <2>1, Zenon DEF LineEnds
    <2>3. (tty.cooked => tty.lines = Cardinality(LineEnds(tty.seen)) + tty.flushed) /\ tty.line < MaxCooked
      BY DEF Cooking
    <2> QED
      BY <2>2, <2>3, Zenon DEF EnterIsOneLine
  <1> QED
    BY <1>1, <1>2, NextTTY, PTL DEF Spec

=============================================================================
