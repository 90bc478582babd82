----------------------------- MODULE Admission -----------------------------
(***************************************************************************)
(* The connection server of internal/server: every accepted connection is  *)
(* a goroutine running Server.handle, and the goroutines of all listeners  *)
(* share the process-wide connLimiter, one per-source table per listener,  *)
(* the shed counter behind the rate-limited notice, and the event log.     *)
(*                                                                         *)
(* A connection's pc follows Server.handle and Session.handle:             *)
(*                                                                         *)
(*   start -> header -> source -> [scan ->] record -> session              *)
(*         -> running -> ending -> return -> done                          *)
(*                                                                         *)
(* with early exits to "shed" (a cap refused it), to "return" (a bad PROXY *)
(* header, a bare-connect scan) and to "panicking".  What Go's defer stack *)
(* will undo is held[c]; the unwinding actions pop it last-in first-out.   *)
(* The main goroutine's shutdown (run in cmd/sweetty/main.go) runs beside  *)
(* them.  Time is abstract: a timeout may fire whenever it is armed.       *)
(***************************************************************************)
EXTENDS Naturals, Sequences, FiniteSets, FiniteSetsExt

CONSTANTS Listeners,       \* the bound ports (a Server each)
          Conns,           \* connections, each accepted at most once
          Addrs,           \* network addresses of peers and sources
          MaxConns,        \* maxConns
          MaxConnsPerIP,   \* maxConnsPerIP
          TrustedPeers,    \* addresses peerTrusted accepts a header from
          ProxyListeners,  \* listeners with ProxyProtocol set
          ClientFirst,     \* listeners whose protocol is ClientFirst
          Recording        \* whether RecordDir is set

ASSUME CapsAssumption == MaxConns \in Nat /\ MaxConnsPerIP \in Nat
ASSUME SetsAssumption == /\ IsFiniteSet(Conns)
                         /\ Listeners # {} /\ Addrs # {}
                         /\ TrustedPeers \subseteq Addrs
                         /\ Recording \in BOOLEAN

VARIABLES pc,        \* where each connection's goroutine is
          port,      \* the listener that accepted it
          peer,      \* the address of its immediate peer
          src,       \* the source it is attributed to, once known
          held,      \* what its deferred calls still have to give back
          global,    \* tokens in globalConns.ch
          conns,     \* Server.conns: live connections per source (absent = 0)
          shedN,     \* Server.shedN
          recent,    \* time.Since(shedLast) < shedLogInterval
          owed,      \* the count a goroutine is about to put in a notice
          trail,     \* the events logged for each connection, in file order
          listening, \* listeners whose socket is open
          logger,    \* "open", or "closed" once Logger.Close ran
          main,      \* the main goroutine: "up", "stopping", "exited"
          shed,      \* history: connections shed on each listener
          told       \* history: sheds that logged notices account for

connVars == <<pc, port, peer, src, held>>
capVars  == <<global, conns>>
shedVars == <<shedN, recent, owed, shed, told>>
mainVars == <<listening, logger, main>>
vars == <<pc, port, peer, src, held, global, conns, shedN, recent, owed, trail,
          listening, logger, main, shed, told>>

-----------------------------------------------------------------------------
(* Types.                                                                  *)

Resources == {"conn", "global", "source", "rec"}
Setup     == {"header", "source", "scan", "record", "session"}
Unwinding == {"return", "panicking"}
Phases    == {"absent", "start", "shed", "notice", "running", "ending", "done"}
             \cup Setup \cup Unwinding
Events    == {"PORT_SCAN", "SESSION_START", "PANIC", "SESSION_END", "RECOVERED"}

TypeOK ==
  /\ pc \in [Conns -> Phases]
  /\ port \in [Conns -> Listeners]
  /\ peer \in [Conns -> Addrs]
  /\ src \in [Conns -> Addrs]
  /\ held \in [Conns -> SUBSET Resources]
  /\ global \in Nat
  /\ conns \in [Listeners -> [Addrs -> Nat]]
  /\ shedN \in [Listeners -> Nat]
  /\ recent \in [Listeners -> BOOLEAN]
  /\ owed \in [Conns -> Nat]
  /\ trail \in [Conns -> Seq(Events)]
  /\ listening \subseteq Listeners
  /\ logger \in {"open", "closed"}
  /\ main \in {"up", "stopping", "exited"}
  /\ shed \in [Listeners -> Nat]
  /\ told \in [Listeners -> Nat]

\* What port, peer and src are while no goroutine has them.
NoPort == CHOOSE l \in Listeners : TRUE
NoAddr == CHOOSE a \in Addrs : TRUE

Init ==
  /\ pc = [c \in Conns |-> "absent"]
  /\ port = [c \in Conns |-> NoPort]
  /\ peer = [c \in Conns |-> NoAddr]
  /\ src = [c \in Conns |-> NoAddr]
  /\ held = [c \in Conns |-> {}]
  /\ global = 0
  /\ conns = [l \in Listeners |-> [a \in Addrs |-> 0]]
  /\ shedN = [l \in Listeners |-> 0]
  /\ recent = [l \in Listeners |-> FALSE]
  /\ owed = [c \in Conns |-> 0]
  /\ trail = [c \in Conns |-> <<>>]
  /\ listening = Listeners
  /\ logger = "open"
  /\ main = "up"
  /\ shed = [l \in Listeners |-> 0]
  /\ told = [l \in Listeners |-> 0]

-----------------------------------------------------------------------------
(* Helpers.                                                                *)

Goto(c, from, to) == pc[c] = from /\ pc' = [pc EXCEPT ![c] = to]

\* Logger.Log: one line under the lock; after Close it does nothing.
Log(c, e) == trail' = IF logger = "open"
                      THEN [trail EXCEPT ![c] = Append(@, e)]
                      ELSE trail

\* Fault: ReadHeader believes a header from any peer.
TrustsAnyPeer(c) == port[c] \in ProxyListeners

\* peerTrusted, on a listener that reads PROXY headers at all.
Trusts(c) == port[c] \in ProxyListeners /\ peer[c] \in TrustedPeers

-----------------------------------------------------------------------------
(* Accepting and shedding.                                                 *)

\* accept: a connection arrives on an open listener and gets a goroutine.
Accept(c, l, a) ==
  /\ l \in listening
  /\ Goto(c, "absent", "start")
  /\ port' = [port EXCEPT ![c] = l]
  /\ peer' = [peer EXCEPT ![c] = a]
  /\ src'  = [src EXCEPT ![c] = a]
  /\ held' = [held EXCEPT ![c] = {"conn"}]
  /\ UNCHANGED <<capVars, shedVars, trail, mainVars>>

\* The process-wide cap: a non-blocking send on globalConns.ch ...
Admit(c) ==
  /\ Goto(c, "start", "header")
  /\ global' = global + 1
  /\ held' = [held EXCEPT ![c] = @ \cup {"global"}]
  /\ UNCHANGED <<port, peer, src, conns, shedVars, trail, mainVars>>

\* ... and its default case: the connection is shed.
Refuse(c) ==
  /\ Goto(c, "start", "shed")
  /\ shed' = [shed EXCEPT ![port[c]] = @ + 1]
  /\ UNCHANGED <<port, peer, src, held, capVars, shedN, recent, owed, told, trail, mainVars>>

\* Fault: the cap is off by one.
TryAcquireOneMore(c) ==
  \/ global <= MaxConns /\ Admit(c)
  \/ global > MaxConns /\ Refuse(c)

TryAcquire(c) ==
  \/ global < MaxConns /\ Admit(c)
  \/ global >= MaxConns /\ Refuse(c)

\* noteShed, under Server.mu, within shedLogInterval of the last notice: count.
CountShed(c) ==
  /\ Goto(c, "shed", "return")
  /\ shedN' = [shedN EXCEPT ![port[c]] = @ + 1]
  /\ UNCHANGED <<port, peer, src, held, capVars, recent, owed, shed, told, trail, mainVars>>

\* noteShed when a notice is due: take n, the whole count, and start over.
TakeNotice(c, n) ==
  /\ Goto(c, "shed", "notice")
  /\ recent' = [recent EXCEPT ![port[c]] = TRUE]
  /\ owed' = [owed EXCEPT ![c] = n]
  /\ shedN' = [shedN EXCEPT ![port[c]] = 0]
  /\ UNCHANGED <<port, peer, src, held, capVars, shed, told, trail, mainVars>>

\* Fault: the count is taken before this shed is added to it.
NoteShedStale(c) ==
  \/ recent[port[c]] /\ CountShed(c)
  \/ ~recent[port[c]] /\ TakeNotice(c, shedN[port[c]])

NoteShed(c) ==
  \/ recent[port[c]] /\ CountShed(c)
  \/ ~recent[port[c]] /\ TakeNotice(c, shedN[port[c]] + 1)

\* The "shed %d connection(s)" notice, written after Server.mu is released.
LogNotice(c) ==
  /\ Goto(c, "notice", "return")
  /\ told' = IF logger = "open" THEN [told EXCEPT ![port[c]] = @ + owed[c]] ELSE told
  /\ owed' = [owed EXCEPT ![c] = 0]
  /\ UNCHANGED <<port, peer, src, held, capVars, shedN, recent, shed, trail, mainVars>>

\* shedLogInterval passes without a notice.
ShedIntervalOver(l) ==
  /\ recent[l]
  /\ recent' = [recent EXCEPT ![l] = FALSE]
  /\ UNCHANGED <<connVars, capVars, shedN, owed, shed, told, trail, mainVars>>

-----------------------------------------------------------------------------
(* Setting a connection up.                                                *)

\* The PROXY header is malformed or late: the connection is dropped.
HeaderBad(c) ==
  /\ Goto(c, "header", "return")
  /\ UNCHANGED <<port, peer, src, held, capVars, shedVars, trail, mainVars>>

\* The connection is attributed to a: its peer, or the source a header names.
Attribute(c, a) ==
  /\ Goto(c, "header", "source")
  /\ src' = [src EXCEPT ![c] = a]
  /\ UNCHANGED <<port, peer, held, capVars, shedVars, trail, mainVars>>

\* A header is read from a trusted peer only; it may be absent, or carry no
\* address, and then the peer stands.
ReadHeader(c) ==
  \/ Trusts(c) /\ HeaderBad(c)
  \/ Trusts(c) /\ \E a \in Addrs : Attribute(c, a)
  \/ Attribute(c, peer[c])

\* Server.acquire, under Server.mu: a slot of the source ...
AdmitSource(c) ==
  /\ Goto(c, "source", IF port[c] \in ClientFirst THEN "scan" ELSE "record")
  /\ conns' = [conns EXCEPT ![port[c]][src[c]] = @ + 1]
  /\ held' = [held EXCEPT ![c] = @ \cup {"source"}]
  /\ UNCHANGED <<port, peer, src, global, shedVars, trail, mainVars>>

\* ... or none left: the connection is shed.
RefuseSource(c) ==
  /\ Goto(c, "source", "shed")
  /\ shed' = [shed EXCEPT ![port[c]] = @ + 1]
  /\ UNCHANGED <<port, peer, src, held, capVars, shedN, recent, owed, told, trail, mainVars>>

AcquireSource(c) ==
  \/ conns[port[c]][src[c]] < MaxConnsPerIP /\ AdmitSource(c)
  \/ conns[port[c]][src[c]] >= MaxConnsPerIP /\ RefuseSource(c)

\* The bare-connect check of a ClientFirst protocol: a first byte within
\* scanGrace ...
FirstByte(c) ==
  /\ Goto(c, "scan", "record")
  /\ UNCHANGED <<port, peer, src, held, capVars, shedVars, trail, mainVars>>

\* Fault: the release of the source slot is deferred only after the check.
BareScanLeaks(c) ==
  /\ Goto(c, "scan", "return")
  /\ Log(c, "PORT_SCAN")
  /\ held' = [held EXCEPT ![c] = @ \ {"source"}]
  /\ UNCHANGED <<port, peer, src, capVars, shedVars, mainVars>>

\* ... or a PORT_SCAN event and no session.
BareScan(c) ==
  /\ Goto(c, "scan", "return")
  /\ Log(c, "PORT_SCAN")
  /\ UNCHANGED <<port, peer, src, held, capVars, shedVars, mainVars>>

\* record.New succeeds when RecordDir is set ...
Record(c) ==
  /\ Recording
  /\ Goto(c, "record", "session")
  /\ held' = [held EXCEPT ![c] = @ \cup {"rec"}]
  /\ UNCHANGED <<port, peer, src, capVars, shedVars, trail, mainVars>>

\* ... or there is no recorder: none is configured, or it could not start.
NoRecord(c) ==
  /\ Goto(c, "record", "session")
  /\ UNCHANGED <<port, peer, src, held, capVars, shedVars, trail, mainVars>>

\* A panic anywhere in the setup path unwinds the goroutine.
SetupPanic(c) ==
  /\ pc[c] \in Setup
  /\ pc' = [pc EXCEPT ![c] = "panicking"]
  /\ UNCHANGED <<port, peer, src, held, capVars, shedVars, trail, mainVars>>

-----------------------------------------------------------------------------
(* The session.                                                            *)

\* Session.handle up to protocol.Handle.
SessionStart(c) ==
  /\ Goto(c, "session", "running")
  /\ Log(c, "SESSION_START")
  /\ UNCHANGED <<port, peer, src, held, capVars, shedVars, mainVars>>

\* protocol.Handle returns ...
HandlerReturns(c) ==
  /\ Goto(c, "running", "ending")
  /\ UNCHANGED <<port, peer, src, held, capVars, shedVars, trail, mainVars>>

\* Fault: a panic in the protocol is recovered only by Server.handle.
HandlerPanicsUnguarded(c) ==
  /\ Goto(c, "running", "panicking")
  /\ UNCHANGED <<port, peer, src, held, capVars, shedVars, trail, mainVars>>

\* ... or panics, which the session's deferred function recovers and logs.
HandlerPanics(c) ==
  /\ Goto(c, "running", "ending")
  /\ Log(c, "PANIC")
  /\ UNCHANGED <<port, peer, src, held, capVars, shedVars, mainVars>>

\* The deferred LogSessionEnd.
SessionEnd(c) ==
  /\ Goto(c, "ending", "return")
  /\ Log(c, "SESSION_END")
  /\ UNCHANGED <<port, peer, src, held, capVars, shedVars, mainVars>>

-----------------------------------------------------------------------------
(* Unwinding: the deferred calls of Server.handle, last registered first.  *)

\* rec.Close.
CloseRecorder(c) ==
  /\ pc[c] \in Unwinding
  /\ "rec" \in held[c]
  /\ held' = [held EXCEPT ![c] = @ \ {"rec"}]
  /\ UNCHANGED <<pc, port, peer, src, capVars, shedVars, trail, mainVars>>

\* Fault: the last connection of a source leaves its entry behind.
ReleaseSourceKeepsLast(c) ==
  LET l == port[c]
      s == src[c]
  IN
  /\ pc[c] \in Unwinding
  /\ "source" \in held[c] /\ "rec" \notin held[c]
  /\ conns' = [conns EXCEPT ![l][s] = IF @ <= 1 THEN @ ELSE @ - 1]
  /\ held' = [held EXCEPT ![c] = @ \ {"source"}]
  /\ UNCHANGED <<pc, port, peer, src, global, shedVars, trail, mainVars>>

\* Server.release, under Server.mu; the entry is deleted when it reaches 0.
ReleaseSource(c) ==
  LET l == port[c]
      s == src[c]
  IN
  /\ pc[c] \in Unwinding
  /\ "source" \in held[c] /\ "rec" \notin held[c]
  /\ conns' = [conns EXCEPT ![l][s] = IF @ <= 1 THEN 0 ELSE @ - 1]
  /\ held' = [held EXCEPT ![c] = @ \ {"source"}]
  /\ UNCHANGED <<pc, port, peer, src, global, shedVars, trail, mainVars>>

\* Fault: the release is a plain last statement, which a panic skips.
ReleaseGlobalInline(c) ==
  /\ pc[c] = "return"
  /\ "global" \in held[c] /\ held[c] \cap {"rec", "source"} = {}
  /\ global > 0
  /\ global' = global - 1
  /\ held' = [held EXCEPT ![c] = @ \ {"global"}]
  /\ UNCHANGED <<pc, port, peer, src, conns, shedVars, trail, mainVars>>

\* globalConns.release.
ReleaseGlobal(c) ==
  /\ pc[c] \in Unwinding
  /\ "global" \in held[c] /\ held[c] \cap {"rec", "source"} = {}
  /\ global > 0
  /\ global' = global - 1
  /\ held' = [held EXCEPT ![c] = @ \ {"global"}]
  /\ UNCHANGED <<pc, port, peer, src, conns, shedVars, trail, mainVars>>

\* conn.Close; the locals of the goroutine are gone.
Close(c) ==
  /\ held[c] = {"conn"}
  /\ held' = [held EXCEPT ![c] = {}]
  /\ port' = [port EXCEPT ![c] = NoPort]
  /\ peer' = [peer EXCEPT ![c] = NoAddr]
  /\ src' = [src EXCEPT ![c] = NoAddr]
  /\ UNCHANGED <<capVars, shedVars, mainVars>>

CloseConn(c) ==
  /\ Goto(c, "return", "done")
  /\ Close(c)
  /\ UNCHANGED trail

\* The deferred recover of Server.handle logs the panic first.
RecoverAndClose(c) ==
  /\ Goto(c, "panicking", "done")
  /\ Close(c)
  /\ Log(c, "RECOVERED")

-----------------------------------------------------------------------------
(* Shutdown: the main goroutine after SIGTERM or SIGINT.                   *)

Signal ==
  /\ main = "up"
  /\ main' = "stopping"
  /\ UNCHANGED <<connVars, capVars, shedVars, trail, listening, logger>>

\* Server.Close of one listener: its accept loop ends.
CloseListener(l) ==
  /\ main = "stopping"
  /\ l \in listening
  /\ listening' = listening \ {l}
  /\ UNCHANGED <<connVars, capVars, shedVars, trail, logger, main>>

\* The deferred Logger.Close of run.
CloseLogger ==
  /\ main = "stopping"
  /\ listening = {}
  /\ logger = "open"
  /\ logger' = "closed"
  /\ UNCHANGED <<connVars, capVars, shedVars, trail, listening, main>>

\* run returns and the process ends, whatever its goroutines are doing.
Exit ==
  /\ main = "stopping"
  /\ logger = "closed"
  /\ main' = "exited"
  /\ UNCHANGED <<connVars, capVars, shedVars, trail, listening, logger>>

-----------------------------------------------------------------------------
(* The specification.                                                      *)

\* The steps a connection's goroutine takes by itself.
Handle(c) ==
  \/ TryAcquire(c) \/ NoteShed(c) \/ LogNotice(c)
  \/ ReadHeader(c) \/ AcquireSource(c)
  \/ FirstByte(c) \/ BareScan(c) \/ Record(c) \/ NoRecord(c)
  \/ SessionStart(c) \/ HandlerReturns(c) \/ HandlerPanics(c) \/ SessionEnd(c)
  \/ CloseRecorder(c) \/ ReleaseSource(c) \/ ReleaseGlobal(c)
  \/ CloseConn(c) \/ RecoverAndClose(c)

Shutdown == (\E l \in Listeners : CloseListener(l)) \/ CloseLogger \/ Exit

Next ==
  /\ main # "exited"
  /\ \/ \E c \in Conns, l \in Listeners, a \in Addrs : Accept(c, l, a)
     \/ \E c \in Conns : Handle(c)
     \/ \E c \in Conns : SetupPanic(c)
     \/ \E l \in Listeners : ShedIntervalOver(l)
     \/ Signal
     \/ Shutdown

\* The Go scheduler runs every goroutine, and every wait of Server.handle and
\* of the session is bounded by a deadline.  Nothing obliges a client to
\* connect, a handler to panic, or an operator to stop the process.
Fairness ==
  /\ \A c \in Conns : WF_vars(main # "exited" /\ Handle(c))
  /\ \A l \in Listeners : WF_vars(main # "exited" /\ ShedIntervalOver(l))
  /\ WF_vars(main # "exited" /\ Shutdown)

Spec == Init /\ [][Next]_vars
FairSpec == Spec /\ Fairness

-----------------------------------------------------------------------------
(* Properties.                                                             *)

GlobalHolders == {c \in Conns : "global" \in held[c]}

SourceHolders(l, a) ==
  {c \in Conns : "source" \in held[c] /\ port[c] = l /\ src[c] = a}

\* The counters tell the truth: globalConns.ch holds one token for every
\* connection between its tryAcquire and its deferred release, and
\* Server.conns counts, per listener and source, exactly the connections
\* between acquire and the deferred release.  No early return, shed or panic
\* leaks or double-frees a slot.
SlotAccounting ==
  /\ global = Cardinality(GlobalHolders)
  /\ \A l \in Listeners, a \in Addrs : conns[l][a] = Cardinality(SourceHolders(l, a))

\* A peer that may not present a PROXY header cannot hold more than
\* maxConnsPerIP connections on a listener, whatever header it sends: it can
\* neither rotate a forged source past the cap nor be counted as another.
UntrustedPeerCapped ==
  \A l \in Listeners, a \in Addrs \ TrustedPeers :
    Cardinality({c \in Conns : /\ "source" \in held[c]
                               /\ port[c] = l /\ peer[c] = a}) <= MaxConnsPerIP

\* The whole records: a bare scan, a session (SESSION_END after SESSION_START
\* even when the handler panicked), a recovered setup panic, or nothing (shed,
\* bad header).
Whole == {<<>>, <<"PORT_SCAN">>, <<"RECOVERED">>,
          <<"SESSION_START", "SESSION_END">>,
          <<"SESSION_START", "PANIC", "SESSION_END">>}

\* What the log says of a connection that is over, while the log is open, is a
\* whole record: a scan never opens a session, and no session ends twice or not
\* at all.  When the log was closed, or the process ended, under a running
\* connection, its record is a whole one cut off at its end: nothing is missing
\* in the middle, and no later event is there without the ones before it.
RecordIsWhole ==
  \A c \in Conns :
    /\ logger = "open" /\ pc[c] = "done" => trail[c] \in Whole
    /\ trail[c] \in Whole \cup {<<"SESSION_START">>, <<"SESSION_START", "PANIC">>}

\* Every shed connection is in exactly one place: about to be counted, in
\* shedN, in the hands of the goroutine writing the notice, or in a notice.
\* Concurrent sheds of the two caps never lose or repeat one.
ShedAccounting ==
  logger = "open" =>
    \A l \in Listeners :
      LET On(S) == {c \in Conns : port[c] = l /\ pc[c] \in S} IN
      shed[l] = told[l] + shedN[l] + Cardinality(On({"shed"}))
                + MapThenSumSet(LAMBDA c : owed[c], On({"notice"}))

\* A connection is shed only when the cap that refuses it is really full of
\* live connections at that moment, never because of stale counts.
ShedOnlyWhenFull ==
  [][\A c \in Conns :
       pc'[c] = "shed" =>
         \/ pc[c] = "shed"
         \/ pc[c] = "start" /\ Cardinality(GlobalHolders) = MaxConns
         \/ /\ pc[c] = "source"
            /\ Cardinality(SourceHolders(port[c], src[c])) = MaxConnsPerIP]_vars

\* The process-wide limiter, and an entry of a per-source table, as abstract caps.
GlobalLimiter == INSTANCE Limiter WITH
                   Procs <- Conns, Cap <- MaxConns, holders <- GlobalHolders

SourceLimiter(l, a) == INSTANCE Limiter WITH
                         Procs <- Conns, Cap <- MaxConnsPerIP,
                         holders <- SourceHolders(l, a)

\* Both limiters implement the abstract cap, the process-wide one and every
\* entry of every per-source table: a slot is taken only while one is free, and
\* one at a time.
LimitersAreCaps ==
  /\ GlobalLimiter!Spec
  /\ \A l \in Listeners, a \in Addrs : SourceLimiter(l, a)!Init
  /\ [][\A l \in Listeners, a \in Addrs :
          SourceLimiter(l, a)!Next \/ UNCHANGED SourceHolders(l, a)]_vars

\* Every connection that was accepted gives back everything it took (or the
\* process ends): no tarpit, scan, bad header, shed or panic keeps a socket, a
\* recorder or a slot for ever.
EverythingReturned ==
  \A c \in Conns : held[c] # {} ~> (held[c] = {} \/ main = "exited")

============================================================================
