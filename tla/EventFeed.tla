----------------------------- MODULE EventFeed -----------------------------
(***************************************************************************)
(* The event log and its live feed.  Every goroutine that has something to *)
(* report calls Logger.Log (internal/event), which appends one line to the *)
(* log file under the logger's mutex.  hapwatch, a process of its own, has *)
(* a Logger of its own on the same file: its mutex is another one, and     *)
(* what keeps the two apart is the kernel, which appends one write after   *)
(* the other to a file opened with O_APPEND.  The portal reads the file    *)
(* without any lock: whole, for the log queries (readEntries), and as a    *)
(* tail, for the Server-Sent-Events streams (events in feed.go).           *)
(*                                                                         *)
(* A line is LineBytes bytes <<e, 1>> ... <<e, LineBytes>>, the last one   *)
(* its newline; the kernel makes them visible to a reader one by one, and  *)
(* a full disk or a kill leaves a part of them.  A browser that loses its  *)
(* stream reconnects with the id of the last event it received.            *)
(***************************************************************************)
EXTENDS Naturals, Sequences, FiniteSets

CONSTANTS Events,      \* events, each logged by one goroutine
          Outside,     \* those of them that hapwatch logs
          Clients,     \* browsers with the dashboard open
          MaxStreams,  \* maxConcurrentSSE
          LineBytes,   \* bytes of a line, the newline included
          MaxBreaks,   \* bound: how often streams break
          MaxCrashes,  \* bound: how often the process is killed and restarted
          None         \* no stream, no id, nobody

ASSUME BoundsAssumption ==
  MaxStreams \in Nat /\ LineBytes \in Nat \ {0} /\ MaxBreaks \in Nat /\ MaxCrashes \in Nat
ASSUME NoneAssumption == None \notin Nat /\ None \notin Events
ASSUME OutsideAssumption == Outside \subseteq Events

VARIABLES file,      \* the log file
          pc,        \* each event: "new", "writing", then how Log ended
          mu,        \* the event being written, in this process by the
                     \* goroutine that holds Logger.mu, or None
          logger,    \* "open", or "closed" once Logger.Close ran
          dropped,   \* Logger.dropped of this process
          kills,     \* times the process was killed
          offset,    \* each stream's offset, or None: no stream
          net,       \* the frames on their way to a browser
          got,       \* the frames a browser received
          gate,      \* tokens in Portal.sseGate
          stale,     \* handlers that have not noticed their client is gone
          breaks     \* history: streams that broke

logVars  == <<file, pc, mu, logger, dropped, kills>>
feedVars == <<offset, net, got, gate, stale, breaks>>
vars == <<file, pc, mu, logger, dropped, kills, offset, net, got, gate, stale, breaks>>

Frames == [from : Nat, id : Nat]

\* Types; and the gate of the feed holds one token for every stream that is
\* still open, one whose browser is gone included, never more than it has.
TypeOK ==
  /\ file \in Seq(Events \X (1..LineBytes))
  /\ pc \in [Events -> {"new", "writing", "logged", "dropped", "ignored", "killed"}]
  /\ mu \in Events \cup {None}
  /\ logger \in {"open", "closed"}
  /\ dropped \in Nat /\ kills \in Nat
  /\ offset \in [Clients -> Nat \cup {None}]
  /\ net \in [Clients -> Seq(Frames)]
  /\ got \in [Clients -> Seq(Frames)]
  /\ gate \in 0..MaxStreams
  /\ stale \in Nat /\ gate = stale + Cardinality({c \in Clients : offset[c] # None})
  /\ breaks \in Nat

Init ==
  /\ file = <<>>
  /\ pc = [e \in Events |-> "new"]
  /\ mu = None
  /\ logger = "open"
  /\ dropped = 0 /\ kills = 0
  /\ offset = [c \in Clients |-> None]
  /\ net = [c \in Clients |-> <<>>]
  /\ got = [c \in Clients |-> <<>>]
  /\ gate = 0 /\ stale = 0
  /\ breaks = 0

-----------------------------------------------------------------------------
(* Reading the file.                                                       *)

\* Offsets just past a newline.
LineEnds == {i \in 1..Len(file) : file[i][2] = LineBytes}

Boundaries == {0} \cup LineEnds

\* The bytes of e's line, without the newline.
Text(e) == [k \in 1..(LineBytes - 1) |-> <<e, k>>]

\* readEntries: the lines that parse.  The scanner also returns a last line
\* without a newline; a line that holds more or less than one entry is skipped.
readEntries ==
  {e \in Events :
     \E i \in Boundaries :
       LET j == i + LineBytes - 1 IN
       /\ j <= Len(file)
       /\ SubSeq(file, i + 1, j) = Text(e)
       /\ j = Len(file) \/ j + 1 \in LineEnds}

-----------------------------------------------------------------------------
(* Logger.                                                                 *)

\* The bytes of e that are in the file.
Done(e) == Cardinality({i \in 1..Len(file) : file[i][1] = e})

\* Fault: Log writes without taking the mutex.
LogUnlocked(e) ==
  /\ pc[e] = "new" /\ logger = "open"
  /\ pc' = [pc EXCEPT ![e] = "writing"]
  /\ UNCHANGED <<file, mu, logger, dropped, kills, feedVars>>

\* No goroutine of this process is writing, so its mutex is free.
Unlocked == mu \notin Events \ Outside

\* Log takes the mutex of its process and starts to write once no other write
\* is going on; the file is open.
Log(e) ==
  /\ pc[e] = "new" /\ mu = None /\ (e \in Outside \/ logger = "open")
  /\ mu' = e
  /\ pc' = [pc EXCEPT ![e] = "writing"]
  /\ UNCHANGED <<file, logger, dropped, kills, feedVars>>

\* Log after Close: the file is nil and nothing is written.
LogClosed(e) ==
  /\ pc[e] = "new" /\ e \notin Outside /\ Unlocked /\ logger = "closed"
  /\ pc' = [pc EXCEPT ![e] = "ignored"]
  /\ UNCHANGED <<file, mu, logger, dropped, kills, feedVars>>

\* The next byte reaches the file; the mutex is released after the last one.
WriteByte(e) ==
  LET k == Done(e) + 1 IN
  /\ pc[e] = "writing"
  /\ file' = Append(file, <<e, k>>)
  /\ pc' = [pc EXCEPT ![e] = IF k = LineBytes THEN "logged" ELSE @]
  /\ mu' = IF k = LineBytes THEN None ELSE mu
  /\ UNCHANGED <<logger, dropped, kills, feedVars>>

\* The write fails (disk full): what was written stays, the loss is counted.
WriteFails(e) ==
  /\ pc[e] = "writing"
  /\ pc' = [pc EXCEPT ![e] = "dropped"]
  /\ dropped' = IF e \in Outside THEN dropped ELSE dropped + 1
  /\ mu' = None
  /\ UNCHANGED <<file, logger, kills, feedVars>>

\* Logger.Close waits for the mutex.
Close ==
  /\ Unlocked /\ logger = "open"
  /\ logger' = "closed"
  /\ UNCHANGED <<file, pc, mu, dropped, kills, feedVars>>

-----------------------------------------------------------------------------
(* The streams.                                                            *)

\* What the browser sends as Last-Event-ID.
LastEventID(c) == IF got[c] = <<>> THEN None ELSE got[c][Len(got[c])].id

\* Fault: a resumed stream starts one line late.
ResumeNext(c) ==
  LET id == LastEventID(c) IN
  IF id = None \/ \A i \in LineEnds : i <= id THEN Len(file)
  ELSE CHOOSE i \in LineEnds : i > id /\ \A j \in LineEnds : j > id => i <= j

\* Where a new stream starts: at the id it resumes from, while that is within
\* the file, else at the end of the file.
Resume(c) ==
  LET id == LastEventID(c) IN
  IF id # None /\ id <= Len(file) THEN id ELSE Len(file)

\* Fault: the gate is not tried before the stream opens.
ConnectUngated(c) ==
  /\ offset[c] = None
  /\ gate' = gate + 1
  /\ offset' = [offset EXCEPT ![c] = Resume(c)]
  /\ UNCHANGED <<logVars, net, got, stale, breaks>>

\* The browser connects or reconnects and there is room at the gate; when
\* there is none it is answered 503 and nothing changes.
Connect(c) ==
  /\ offset[c] = None
  /\ gate < MaxStreams
  /\ gate' = gate + 1
  /\ offset' = [offset EXCEPT ![c] = Resume(c)]
  /\ UNCHANGED <<logVars, net, got, stale, breaks>>

\* Where the next complete line after offset o ends.
NextEnd(o) == CHOOSE i \in LineEnds : i > o /\ \A j \in LineEnds : j > o => i <= j

\* Fault: the offset is where the reader is, a partial line included.
EmitPastPartial(c) ==
  /\ offset[c] # None
  /\ \E i \in LineEnds : i > offset[c]
  /\ offset' = [offset EXCEPT ![c] = Len(file)]
  /\ net' = [net EXCEPT ![c] = Append(@, [from |-> offset[c], id |-> Len(file)])]
  /\ UNCHANGED <<logVars, got, gate, stale, breaks>>

\* Fault: a line is sent only once another byte follows it.
EmitOneBehind(c) ==
  /\ offset[c] # None
  /\ \E i \in LineEnds : i > offset[c] /\ i < Len(file)
  /\ LET id == NextEnd(offset[c]) IN
     /\ offset' = [offset EXCEPT ![c] = id]
     /\ net' = IF id = offset[c] + 1 THEN net
               ELSE [net EXCEPT ![c] = Append(@, [from |-> offset[c], id |-> id])]
  /\ UNCHANGED <<logVars, got, gate, stale, breaks>>

\* A tick of the handler finds a complete line: it is sent with the offset past
\* it as its id, unless nothing but the newline is left of it.
Emit(c) ==
  /\ offset[c] # None
  /\ \E i \in LineEnds : i > offset[c]
  /\ LET id == NextEnd(offset[c]) IN
     /\ offset' = [offset EXCEPT ![c] = id]
     /\ net' = IF id = offset[c] + 1 THEN net
               ELSE [net EXCEPT ![c] = Append(@, [from |-> offset[c], id |-> id])]
  /\ UNCHANGED <<logVars, got, gate, stale, breaks>>

\* The browser dispatches an event and remembers its id.
Receive(c) ==
  /\ net[c] # <<>>
  /\ got' = [got EXCEPT ![c] = Append(@, Head(net[c]))]
  /\ net' = [net EXCEPT ![c] = Tail(@)]
  /\ UNCHANGED <<logVars, offset, gate, stale, breaks>>

\* The connection breaks: frames on their way are lost and the handler has yet
\* to notice.
Break(c) ==
  /\ breaks < MaxBreaks
  /\ offset[c] # None
  /\ offset' = [offset EXCEPT ![c] = None]
  /\ net' = [net EXCEPT ![c] = <<>>]
  /\ stale' = stale + 1
  /\ breaks' = breaks + 1
  /\ UNCHANGED <<logVars, got, gate>>

\* Fault: a handler notices that its client is gone only when it has a line
\* to send.
HandlerEndsOnLine ==
  /\ stale > 0 /\ mu # None
  /\ stale' = stale - 1
  /\ gate' = gate - 1
  /\ UNCHANGED <<logVars, offset, net, got, breaks>>

\* The handler returns and gives its token back.
HandlerEnds ==
  /\ stale > 0
  /\ stale' = stale - 1
  /\ gate' = gate - 1
  /\ UNCHANGED <<logVars, offset, net, got, breaks>>

-----------------------------------------------------------------------------
(* The process.                                                            *)

\* hapwatch is killed in the middle of a write.
WatcherKilled ==
  /\ mu \in Outside
  /\ pc' = [pc EXCEPT ![mu] = "killed"]
  /\ mu' = None
  /\ UNCHANGED <<file, logger, dropped, kills, feedVars>>

\* The process is killed, or exits, and is started again: New opens the same
\* file for appending.  hapwatch runs on.
Restart ==
  /\ kills < MaxCrashes
  /\ kills' = kills + 1
  /\ pc' = [e \in Events |-> IF pc[e] = "writing" /\ e \notin Outside THEN "killed" ELSE pc[e]]
  /\ mu' = IF mu \in Outside THEN mu ELSE None
  /\ logger' = "open"
  /\ dropped' = 0
  /\ offset' = [c \in Clients |-> None]
  /\ net' = [c \in Clients |-> <<>>]
  /\ gate' = 0 /\ stale' = 0
  /\ UNCHANGED <<file, got, breaks>>

Next ==
  \/ \E e \in Events : Log(e) \/ LogClosed(e) \/ WriteByte(e) \/ WriteFails(e)
  \/ Close \/ Restart \/ WatcherKilled \/ HandlerEnds
  \/ \E c \in Clients : Connect(c) \/ Emit(c) \/ Receive(c) \/ Break(c)

\* The ticker runs every stream, the network delivers what it does not lose,
\* and a started write goes on.  Nothing obliges anybody to log or to connect,
\* the disk to fill or the process to end.
Fairness ==
  /\ \A c \in Clients : WF_vars(Emit(c)) /\ WF_vars(Receive(c))
  /\ \A e \in Events : WF_vars(WriteByte(e))
  /\ WF_vars(HandlerEnds)

Spec == Init /\ [][Next]_vars
FairSpec == Spec /\ Fairness

-----------------------------------------------------------------------------
(* Properties.                                                             *)

\* A failed write or a kill costs at most two entries, its own and the one
\* that is then appended to its remains; without them no entry is lost, and
\* concurrent writers, in this process and in hapwatch, never mix their lines.
TornWriteCost ==
  LET lost == {e \in Events : pc[e] \in {"logged", "dropped", "killed"}} \ readEntries IN
  Cardinality(lost) <=
    2 * (Cardinality({e \in Events : pc[e] = "killed"})
         + Cardinality({e \in Events : pc[e] = "dropped"}))

\* What a browser has received, and what is on its way to it, is a stretch of
\* the file without gap, repetition or reordering, over every break,
\* reconnection and restart: each frame starts where the one before it ended.
StreamHasNoGap ==
  \A c \in Clients :
    LET f == got[c] \o net[c] IN
    /\ \A i \in 1..(Len(f) - 1) : f[i + 1].from = f[i].id
    /\ offset[c] # None /\ f # <<>> => f[Len(f)].id = offset[c]

\* Every frame ends a line, and every frame but a browser's first is one line
\* of the file, from its first byte.
FramesAreLines ==
  \A c \in Clients :
    LET f == got[c] \o net[c] IN
    \A i \in 1..Len(f) :
      /\ f[i].id \in LineEnds
      /\ i > 1 => f[i].from \in Boundaries
      /\ ~\E j \in LineEnds : f[i].from < j /\ j < f[i].id

\* A connected browser catches up with the log or loses its stream.
CatchesUp ==
  \A c \in Clients :
    offset[c] # None ~>
      (offset[c] = None \/ (net[c] = <<>> /\ \A i \in LineEnds : i <= offset[c]))

\* A gate that is full, one place of it with a stream whose browser is gone,
\* has room again: dead streams shut the feed for a time and never for good,
\* even when nothing more is logged.
GateReopens == (gate = MaxStreams /\ stale > 0) ~> gate < MaxStreams

============================================================================
