# A TLA+ model of sweetty

sweetty is a low-to-medium interaction honeypot in Go: one process listens on
the ports of telnet, ssh, ftp, http and https services, answers every client as
a believable machine, lets persistent guessers into an inert shell, and writes
what happens to one event log, which a portal serves to the operator. These
modules model the parts of it whose correctness depends on concurrency, on
failure, or on long sequences of legal calls. Paths below are relative to the
repository's source tree.

## 1. Inventory

| component (source) | state | operations | talks to |
|---|---|---|---|
| connection server (`internal/server/server.go`) | process-wide `globalConns` channel; per listener `conns`, `shedN`, `shedLast` under `Server.mu` | accept, tryAcquire/release, acquire/release, noteShed, PROXY header, bare-scan check, Close | event log, recorder, protocols |
| session (`internal/server/session.go`) | deadline, output capture, counters | handle with its panic guard, ReadLine, Write, CaptureOutput, Log* helpers | protocol handlers, event log |
| process (`cmd/sweetty/main.go`) | listeners, signal channel | start, shutdown | everything |
| PROXY parser (`internal/proxyproto`) | none | Parse | server |
| event log (`internal/event/event.go`) | file, mutex, dropped counter | New, Log, Close, PortScan | written by every goroutine and by a second process (`hapwatch`, which opens the same file O_APPEND); read by the portal without the mutex |
| recorder (`internal/record`) | cast file, size cap | New, Close, output | session |
| portal feed (`internal/portal/feed.go`, `portal.go`) | `sseGate`; one offset per stream | readEntries, events (SSE), queries | reads the log file; browsers |
| portal analysis (`analyze.go`, `overview.go`, `honeytokens.go`, `payloads.go`) | none | folds over entries | feed |
| portal pages, replay, console | none of its own | HTML, cast replay, reverse proxy | browsers |
| session filesystem (`internal/vfs/session.go`) | per shell: overlay, tombstones, bytes, cwd; process-wide `globalOverlayBytes` | Stat, ReadDir, WriteFile, Mkdir, Remove, Chdir, Release | shell |
| base filesystem (`internal/vfs/load.go`) | read-only tree | load | overlay |
| shell (`internal/shell`) | env, last exit code, depth, expansion budget, capture buffer, crontab; a second shell on a pivot host | parse, expand, substitute, run, redirection, commands, interactive programs | session, filesystem |
| persona (`internal/persona`) | identity; `bruteForce.src` table under its mutex | AcceptFrom/consider, LoadOrCreate/Save | telnet, ssh |
| telnet, ssh, ftp (`internal/proto/*`) | attempts on a connection; the IAC filter's reader; ssh channels with a request goroutine each, a start timer, a terminal discipline | login dialogue, option negotiation, channels, Cisco style | persona, session, shell |
| http, https (`internal/proto/http`, `https`) | `wpTries`, `wpBroken`, `wpAdminHits`, `wpRevealLogged` under `Protocol.mu` | one request per connection, WordPress trap, exploit bridge | session, shell |
| HAProxy watcher (`internal/haproxy`) | cooldown table | poll, report | event log |
| config, geo, fakehost, util, seccomp, guardrail tests | read-only data or test code | | |

What is hard, and what correct means there:

* **Slots.** Goroutines of all listeners share two caps and leave `handle` by a
  dozen paths (shed, bad header, scan, setup panic, handler panic, return).
  Each slot is given back exactly once, a connection is refused only when the
  cap is full, and no header moves an untrusted peer past its cap.
* **The log.** One file, many writers, torn writes, a full disk, kills; the
  portal reads it while it is written. Loss is bounded, lines never mix, and a
  stream that breaks resumes without gap or repetition.
* **The overlay.** Byte accounting over any sequence of overwrites, moves and
  removals, with a process-wide counter that is added to first and checked
  afterwards; lookups through links and tombstones.
* **The login policy.** One table for all sources and two services.
* **The web trap.** Overlapping requests of one source between methods that
  each take the mutex on their own; a shell that may panic while output is
  captured.
* **The shell.** A line may run lines: substitutions, `sh -c`, decoded base64,
  files, a shell on a second host. One expansion budget, one substitution count
  and one depth hold all of it, and a panic anywhere is recovered by the
  innermost line with capture, depth and overlays as they were.
* **ssh.** A start timer against a late request, request goroutines of channels
  already over, two deadlines armed by one layer and met by another, CR and LF
  split between reads. What was accepted is served, Enter is one line, and
  everything ends.
* **telnet.** A filter that keeps no state between reads, under a deadline that
  may strike after any byte.

`PROJECT.json` lists every hazard at its line with the properties aimed at it.

## 2. Modules

| module | models | notes |
|---|---|---|
| `Limiter` | what a concurrency cap promises | abstract; implemented by both caps of `Admission` |
| `Admission` | `Server.accept`, `handle`, `Session.handle`, the limiter, `run`'s shutdown | the core |
| `Quota` | what a shared byte quota promises | abstract; implemented by `Overlay` |
| `Overlay` | `vfs.Session`, `reserveOverlay`, the shell's mutation commands | |
| `EventFeed` | `event.Logger`, `readEntries`, the SSE stream, the browser's EventSource | browser and network are external |
| `Login` | login loops of telnet, ssh, ftp, Cisco style; `AcceptFrom` and `consider` | |
| `Telnet` | `iacReader`, and `Session.ReadLine` behind it | client and deadline are external |
| `WebTrap` | the http handler, WordPress trap, exploit bridge | |
| `ShellParse` | the grammar of `parse.go` over tokens | operators only |
| `ShellPrograms` | every program of the shell as a script of effects | operators only |
| `Shell` | the interpreter: lines, expansion, substitutions, pipelines, panics, pivot | performs the scripts |
| `Ssh` | one ssh connection: handler, channels, request goroutines, terminal, deadlines | the ssh library is external |
| `AdmissionProofs`, `OverlayProofs`, `EventFeedProofs`, `LoginProofs`, `TelnetProofs`, `WebTrapProofs`, `SshProofs`, `ShellProofs` | theorems | section 4 |
| `MC*` | small instances | only constants and symmetry sets |

Definitions named "Fault: ..." sit before the definition they distort. They are
used by no specification; each is a plausible bug that some property must
notice (the `mutants` of `PROJECT.json`).

### Admission
`pc[c]` is the goroutine's place in `Server.handle` and `Session.handle`, `held[c]`
what its deferred calls will still undo; the unwinding actions pop it in Go's
last-in first-out order. Each action is one critical section or one call:
`TryAcquire` is the non-blocking send, `NoteShed` the section under `Server.mu`,
`LogNotice` the write after it was released. `SetupPanic` may strike anywhere
between the process-wide cap and the session, `HandlerPanics` inside the protocol.
`Log` here is the call and whether the file was open; that a write may fail is
`EventFeed`'s matter. The PROXY parser appears by its outcomes: an error, no
address, or an address. Time is abstract: `recent` says whether the last notice is
within `shedLogInterval`, and a timeout may fire whenever it is armed. Each
connection is accepted once, which bounds the history counters.

The per-source table belongs to a `Server`, that is to one listener
(`server.go:33`), so a source may hold `maxConnsPerIP` connections on each
port. Sheds counted after the last notice wait in `shedN` for the next shed;
when none comes, they are never reported. `ShedAccounting` shows that they are
kept, not that they are told.

### Overlay
A path is a sequence of names, a file its length. `child` and `lookup` are the
source's resolution: a tombstone on any prefix hides, the overlay (keyed by the
path as written) replaces, links are followed at most `maxLinkDepth` deep, a
relative one from the directory of the path as written (`Target`). Targets with
`..`, which the manifests do not have, are left out. Both
recursions, down a path and into a link, are recursive functions.
`WriteFile` is one step up to the atomic add; when the ceiling is exceeded the
roll-back is a step of its own, and so is the removal that ends `mv`, so other
sessions see the counter in between. As in the source, `mv` removes its source
even if the copy was refused.

### EventFeed
The file is a sequence of bytes `<<event, k>>`; byte `LineBytes` is the newline.
Bytes become visible one by one. `WriteFails` leaves what was written and counts the
loss, `Restart` is a kill, or an exit, at any moment and reopens the file for
appending. `Outside` are the events of hapwatch, a process with a `Logger` and a
mutex of its own on the same file. That two processes do not mix their bytes is not
the code's doing: the file is opened with O_APPEND (`event.go:66`) and each line is
one `Write`, and the model takes it from the kernel that such writes come one after
the other (`Log` waits for `mu`, whoever holds it). What the code's own mutex adds
is within one process: `Close`, and the count of losses. `WatcherKilled` tears a
line of hapwatch, and `Restart` leaves it running. A stream sends frames `[from,
id]`; the id is the offset just past the line, and it is what the browser sends back
on its reconnect. A handler whose client is gone keeps its place at the gate until
it notices.

After a torn write the next line is appended to the remains and is lost too,
and only the first of the two is in `dropped` although `event.go:109` sets out
to count every loss; `TornWriteCost` states the exact price. Entries carry a
time taken before the lock (`event.go:92`), so the file order need not be the
order of the stamps; the model identifies an entry with its place in the file.

### Login
A connection is a record of its dialogue. `Considered` is the part of
`AcceptFrom` that decides whether `consider` sees the credential; `Untracked`,
`Remembered`, `Cracks` and `Fails` are `consider`'s ends, each under the mutex.
The random draw is nondeterministic. `tries` is only compared with `AfterTries`
and stops there; the minimum time since the first attempt is the set `aged`.

### Telnet
`rd` is the `Read` in progress: where in a command it is, what it has put in the
buffer, how many commands it has seen. `Receive` gives it one byte; it returns at
a newline, when the buffer is full, at one of its two limits, or when the
connection's read fails, and then it forgets where it was, as the code does.
`buf` is the `bufio.Reader` with its pending error, and `TakeByte`, `PeekByte`
and `TakeError` are `ReadLine`. Bytes of one alphabet stand for verbs, options
and data alike, so a command cut in two really is taken for data. `Says` and
`LinesOf`, two recursive functions over the places of a stream, are the reference:
what a whole byte stream says by RFC 854, and which lines it has.

### WebTrap
A request goes through `respond`, the trap's methods and the log one step at a
time, since each method takes `Protocol.mu` for itself. `KeepsOut`, `BreaksIn`
and `ComesBack` are the ends of `wpLetIn`. `capture` holds the connections
whose `Session.capture` is set: the exploit bridge sets it and a deferred call
restores it, after a panic too.

### Shell
One goroutine with an explicit call stack: `k` holds the work still to be done,
innermost first, and a step performs its head. Frames called "end..." are the
returns of calls that restore something (the depth, the capture buffer, the overlay
of a pivoted shell); `Recover` cuts the stack at the innermost line, as `runLine`'s
deferred function does. `ShellPrograms` gives every program as the script of its
effects in the order of the code: print, slow output, prompt, log, write to the
overlay, run a line, open a nested shell. `mode` is who drives the shell: a
terminal, an ssh exec, or the HTTP bridge under `CaptureOutput`. A text is a name
and a length, which is what the budgets and the branches look at; a line is given as
its tokens, so the tokenizer is left out. `$((...))` is one value: `evalArith` runs
no line, and neither its value nor its recursion (`shell.go:501-570`) is modelled.
That recursion is under no limit of the shell's (not `execDepth`, not the expansion
budget); what bounds it is the length of the expression, which is at most a line.
What a report command prints is one abstract value.

### Ssh
The handler goroutine, one request goroutine for each accepted channel, the
transport with its two deadlines, and `cookedTTY`. A deadline is "armed" or
"passed"; `SessionWrite` arms it, `MuxWrite` meets whatever is there.
`RequestPanics` may strike a request goroutine. The library hands channels and
requests over in order and ends them when the transport dies. Input that waits
for the reader is a number of lines: that `ReadLine` itself cuts at
`maxLineBytes`, the same length as the terminal's bound, and so may see an empty
line behind a full one, is left out. What a shell does
between two reads is `Shell`'s matter; here it writes, reads a line or returns.

### How they fit together
`Admission` runs a session whose protocol is opaque; `Login`, `Telnet`, `Ssh` and
`WebTrap` are what happens inside. Their shells are `Shell`, whose overlay writes
are `Overlay`'s commands. `Admission`'s log writes are `EventFeed`'s `Log`. What
one module assumes of another is a property of that other: `Ssh`'s fairness of
the shell is `Shell`'s `SessionEnds`; `Admission`'s fairness of a handler is
`HandlerEnds` of `Ssh`; the bridge of `WebTrap` neither sleeps nor waits because
of `BridgeIsSilent`; and a shell gives its overlay back (`OverlaysReleased`),
which is the `Release` of `Overlay`.

## 3. Runs

All bounds are constants of the `.cfg` files.

| run | shows | bounds, and why they are enough |
|---|---|---|
| `admission` | `SlotAccounting`, `UntrustedPeerCapped`, `RecordIsWhole`, `ShedAccounting`, `ShedOnlyWhenFull`; both caps implement `Limiter` (`LimitersAreCaps`) | 3 connections, 2 process slots, 1 per source, 2 addresses of which 1 is a trusted proxy: either cap can be full while a third connection arrives, and two sheds race for one notice. Symmetric in the connections |
| `admission_live` | `EverythingReturned` | 2 connections, 2 listeners, 1 slot; no symmetry |
| `overlay` | `BytesExact`, `ListingAgrees`, `TakesEffect`, `RemovedStaysGone` | a directory with a file, a relative link to the file and a free name, and a link to the directory through which file and relative link are reached too; budget of 2 entries and 3 bytes of at most 2 a file, so that every refusal occurs |
| `overlay_pool` | `PoolAccounting`, `EntriesBounded`; the sessions implement `Quota` (`QuotaSpec`) | 2 sessions of 2 bytes under a ceiling of 3; each has 2 free names and a file of the base to remove against a budget of 1 entry, so that tombstones lead beyond it |
| `feed` | `TornWriteCost`, `StreamHasNoGap`, `FramesAreLines`, `CatchesUp`, `GateReopens`; the gate counts its streams (`TypeOK`) | 3 events of 3 bytes (a first, a middle and a newline byte), one of them of hapwatch, 2 breaks, 1 kill, a gate of 1 that the browser's own stale stream can occupy |
| `login` | `ShellIsEarned`, `StaysCracked`, `GuesserGetsIn`; attempts and table stay bounded (`TypeOK`) | 2 connections, 2 sources of which 1 is tracked, 2 tries to be eligible, all four services; the real credential, a wrong one of a known account, and one of an unknown account. A factory default, which is let in like the real one, and two tracked sources side by side are left to the proofs |
| `telnet` | `StreamDecoded` | 3 units out of 14 (data, line ends, escapes, whole, partial and oversized commands), 2 bytes per `Read`, so that lines and commands straddle reads; 1 command per read, lines of 3; a deadline or a disconnect after any byte |
| `web_trap` | `WorkBeforeEntry`, `DeepIsEarned`, `HoneytokenOnce`, `ResponseReachesWire`, `DoorStaysOpen` | 2 requests, 3 sources of which 2 are tracked, thresholds of 3 |
| `shell` | `NestingBounded`, `ExpansionBounded`, `CaptureRestored`, `BridgeIsSilent`, `OverlaysReleased`, `SessionEnds` | 2 typed lines out of twenty kinds, which between them reach every program, every kind of word and every way to run a line from a line; depth 3, a budget of 5 bytes where a word has 2, 2 substitutions, 1 panic at any step |
| `shell_subst` | violation, see findings | as `shell`, without panics |
| `ssh` | `AcceptedIsServed`, `ShellOnItsChannel`, `EnterIsOneLine`, `HandlerEnds` | 2 channels, so that one is served while the last one's goroutine runs; 3 requests, 2 keys, a line bound of 2, 1 panic |
| `ssh_echo` | violation, see findings | as `ssh` |

Deadlock is not checked in `Admission` (every connection may be done and the
process has exited) and in `EventFeed` (every event is logged and nobody
connects); the other systems run for ever, or stutter in their last state.

### Fairness
* `Admission`: weak fairness of each goroutine's own steps, since the Go
  scheduler runs every goroutine and every wait in `handle` and the session is
  bounded by a deadline or the session's maximum lifetime; of the shed interval;
  and of shutdown once it began. Nothing obliges a client to connect, a handler
  to panic, or an operator to send a signal.
* `EventFeed`: weak fairness of a stream's tick, of delivery, of a handler's
  end (its request context is cancelled, `feed.go:184`, whether or not anything is
  logged), and of the bytes of a started write.
  Nobody has to log or to connect, and the disk never has to fill.
* `Login`: weak fairness of the server's answers and of time; strong fairness
  of a lucky draw, whose probability is positive each time it is made.
  `GuesserGetsIn` assumes a source that goes on guessing and is tracked.
* `Shell`: weak fairness of the goroutine; strong fairness of the end of a
  session's lifetime, from which on every read fails (`Session.readDeadline`
  never goes past it). No client has to answer a prompt.
* `Ssh`: weak fairness of the handler, of each request goroutine and of the read
  deadline, which activity cannot push past the session's lifetime.

## 4. Proofs

TLAPS proves these for every value of the constants; the assumptions are the
named `ASSUME`s of the modules (natural caps and thresholds, finite sets of
connections, sources, paths and sessions, a path's directory being a path, a
client's units being sequences of bytes, and that there is a listener, address,
source, service and credential), which TLC evaluates in every run.

`AdmissionProofs`
* `TypeCorrect` (`Spec => []TypeOK`). Inductive as it stands.
* `SlotsAccounted` (`Spec => []SlotAccounting`). Not inductive alone: a release
  must know that its own connection is counted, and a second `Admit` must be
  excluded. `SlotInv` adds `HeldShape` (what a connection holds before each
  acquisition) and `WithinCaps`. Most actions are `KeepsSlots` steps that leave
  counters and holders alone (`QuietSteps`, `KeepsAccounting`); the four that do
  not have a lemma each, by the cardinality theorems for adding and removing
  one element.
* `ShedsAreJust` (`Spec => ShedOnlyWhenFull`). From `SlotInv`: only the two
  refusals lead to "shed" (`ShedByRefusal`); the counter they compared is the
  number of holders and, by `WithinCaps`, at the cap and not above it.
* `CapsRefineLimiter` (`Spec => LimitersAreCaps`). The refinement: under the
  mapping of a cap to the set of connections that hold it, every step is an
  acquire, a release or a stutter. The limiter's guard is on the number of
  holders, the code's on the counter; `SlotInv` makes them one.
* `ForgeryIsCapped` (`Spec => []UntrustedPeerCapped`). `OwnSource`: a connection
  whose peer is not trusted is counted under its peer, whatever its header says;
  its peers' connections are then among the holders of one counter.
* `RecordsAreWhole` (`Spec => []RecordIsWhole`). `TrailInv` says for each `pc`
  which events a connection can have written by then, while the log is open; once
  it is closed no record changes (`ClosedIsSilent`), so each is what it was, a whole
  one cut off at its end (`Cut`).
* `ShedsAreCounted` (`Spec => []ShedAccounting`). `ShedInv`: what a listener has
  shed is what its notices told, what waits in `shedN`, the sheds that are about
  to be counted, and what the notices being written will tell. The last is a sum
  over connections (`Sum`); as many units lie below the graph of the summand
  (`Units`), and changing one summand is adding or removing its column.

`OverlayProofs`
* A sum is the number of cells below a graph (`Cells`); `CellsUpdate` is what
  changing one summand does to it, proved from the cardinality theorems, and
  takes the place of an induction over the sessions or paths.
* `ChargesAreExact` (`Spec => []BytesExact`), `CounterIsExact`
  (`Spec => []PoolAccounting`). `GoodView` is what every operation keeps true of
  one view: the charge is the sum of the lengths, within the ceiling, files
  within the budget, and no path both written and tombstoned. The last conjunct
  is the one that is needed and not asked for: it makes an overlay node visible
  to `Lstat` (`OverlayIsSeen`, from `HiddenByPrefix`), so `WriteFile` never writes
  over a directory of the overlay and `Mkdir` never drops a file's bytes. What
  `lookup` computes is not needed for the bytes. `PoolInv` adds the counter: what
  is held plus what is owed by roll-backs.
* `ListingsAgree` (`Spec => []ListingAgrees`) and `CommandsTakeEffect`
  (`Spec => []TakesEffect`) do need it. `WalkUnfolds` and `LevelUnfolds` show that
  the two recursive functions exist and satisfy their equations, for any number of
  paths and any `maxLinkDepth`; `LookupInduction` is the induction along a path
  inside the one over the nesting of links, by a least counterexample. Then
  `Listed`: the entries `ReadDir` puts together are those `Lstat` finds;
  `WriteIsRead`: the directory a file is written into is reached as before, with the
  fewest nested links that reach it, so the file reads back; `WriteShowsItself`:
  every directory reached after the write was reached before it (`NoDirBelow`,
  `SameDirs`), so nothing but the file appears; `RemovalHides`,
  `RemovalShowsNothing`: a tombstone hides its path and all below it, and brings
  nothing to light.
* `RemovalsLast` (`Spec => RemovedStaysGone`). `Mkdir` is the one operation that
  takes a tombstone away: the directory it puts there is the overlay's own and has
  nothing of the base below it, so what is seen of the base only shrinks.
* `EntriesAreBounded` (`Spec => []EntriesBounded`). A tombstone on a path the base
  does not show is only ever put where an overlay node was, in exchange for it, and
  no other operation adds to nodes and tombstones without asking for room.
* `CounterRefinesQuota` (`Spec => QuotaSpec`). `Moved` is what a step may do to
  the bytes; only a landed write raises them, and then the counter, which is at
  least what is held, is within the ceiling.

`EventFeedProofs`
* `TornWritesCostTwo` (`Spec => []TornWriteCost`). `FileInv` is what the lock and
  the bytes in the file amount to: one writer, here or in hapwatch (`OneWriter`),
  the bytes of an event contiguous and written once (`Contiguous`, `WrittenOnce`),
  as many as its state says (`Progress`), and after a byte comes the next of its
  line, or it is a newline, or its event was torn (`Successors`). An entry that is
  written whole and not read back starts right behind the remains of a torn one
  (`LostIsSpoiled`), and each remains has one byte behind it (`SpoilsOne`): so a
  torn write costs itself and one other.
* `FeedTypeCorrect` (`Spec => []TypeOK`). `FeedTyped` ties the gate's counter to the
  set of open streams, through reconnects that overtake their own stale stream.
* `StreamsHaveNoGap` (`Spec => []StreamHasNoGap`), `FramesAreWholeLines`
  (`Spec => []FramesAreLines`). `StreamInv`: the frames received, those on their way
  and the offset of the stream are one stretch of the file; every one ends at a
  line's end and has none inside.

`LoginProofs`
* `LoginTypeCorrect` (`Spec => []TypeOK`), with attempts and table bounded.
* `ShellsAreEarned` (`Spec => []ShellIsEarned`). `EarnInv`: below the threshold a
  source's wrong guesses are at least its recorded tries plus its dialogues about
  to be counted, so the attempt that makes it eligible was paid for by itself.
* `CracksLast` (`Spec => StaysCracked`). `MemoryInv`: what is noted, or about to
  be noted, as a brute-forced accept is in `accepted`.

`TelnetProofs`
* `StreamIsDecoded` (`Spec => []StreamDecoded`), for any units and limits. The
  reader sees one byte at a time and forgets where it was when a `Read` returns;
  `Says` reads a whole stream. So `Decoded` is stated over everything that could
  still come: for every continuation `t`, what the bytes so far and `t` say is what
  was delivered, then what the command begun (`Pending`) and `t` say. `TelnetInv`
  adds `Lined`: the reader's output is what `ReadLine` took and what is buffered,
  the lines are those of what it took, and a CR taken last is still to be looked
  behind, or the next byte is neither LF nor NUL. As in the property, the first part
  holds until a command is cut in two, the second until a read fails.
* `FromUnfolds` and `LinesUnfold` show that the two recursive functions exist and
  satisfy their equations, by counting up the prefixes (`CountUp`). `SaidBehind`:
  what stands before a place does not change what is said behind it. From them,
  `Says` one command at a time (`SaysData`, `SaysTwo`, `SaysOption`, `SaysSub`); a
  subnegotiation's body is one with its IACs in pairs (`Quiet`). `ByteSteps` is the
  reader's step for one byte, and `ReturnsBetween`: a `Read` that ends without
  cutting a command ends between two commands, which is where forgetting is safe.

`WebTrapProofs`
* `WebTypeCorrect` (`Spec => []TypeOK`).
* `EntryIsPaidFor` (`Spec => []WorkBeforeEntry`). `WorkInv` adds: while the
  POSTs of a source are below the threshold, they are at least its recorded
  tries plus its requests logged and not yet decided. At the attempt that opens
  the door one such request exists, so the POSTs have reached the threshold.
* `RevealsInOrder` (`Spec => []DeepIsEarned`). `RevealInv` ties the number of
  first reveals granted to `wpAdminHits`.
* `DoorNeverCloses` (`Spec => DoorStaysOpen`). `DoorInv`: who is, or is about to
  be, logged as accepted is in `wpBroken`.
* `HoneytokenLoggedOnce` (`Spec => []HoneytokenOnce`). `TokenInv`: a source enters
  `wpRevealLogged` with exactly one request in hand, before its reveal goes out.
* `ResponsesReachWire` (`Spec => []ResponseReachesWire`). `CaptureInv`: output is
  captured only while the injected command runs.

`SshProofs`
* `AcceptedAreServed` (`Spec => []AcceptedIsServed`). `Told` is what is true of one
  channel: when its request goroutine still runs, yes was said once if and only if
  the start was handed over; the start channel is closed only by the goroutine's
  end; and a closed session channel was served, timed out, or never said yes.
  `ChanInv` adds which channel the handler is at.
* `ShellsKeepTheirChannel` (`Spec => []ShellOnItsChannel`), from the same invariant:
  a start that is taken was handed over by the channel the handler waits at, and
  the IO is bound to it before the shell runs.
* `EntersAreOneLine` (`Spec => []EnterIsOneLine`). `TTYInv`: the lines handed over
  are the line ends among the keys typed plus the lines cut at the bound, and
  `prevCR` says that the last key was a CR.

`ShellProofs`
* All follow from `ShellInvariant` (`Spec => []Inv`), an invariant on the call
  stack `k`. `Shape`: which frame may follow which, so that what expanded words
  return to is a frame that takes them, a substitution's end lies directly under its
  line, and a shell's end is at the bottom. `Shells`: a frame belongs to the shell
  whose end comes next (`OwnerIn`); a shell's `depth` is the number of its lines on
  the stack; its capture flag is set only while a substitution of it has not ended
  (`Diverted`); and what runs, runs inside a line (`InLine`), which is where a panic
  is caught. `Recover` cuts the stack there, and all of this must still hold of what
  is left.
* The programs' scripts enter by one fact each: no frame of a script ends a call, a
  pivot is only where a host can be reached from the first shell, and a password is
  followed by its log entry with nothing but output in between (`Script`, `Told`;
  `CommandScript` covers every program of `runCommand`, `InteractiveScript` those of
  `runInteractive`). So a panic may strike in any of them. What a line's statements
  and words are is not used: the theorems hold for any lines, also such as no
  tokenizer yields.
* `ShellTypeCorrect` (`TypeOK`), `NestingIsBounded` (`NestingBounded`, counted for
  each shell), `ExpansionIsBounded` (`ExpansionBounded`: taken plus left is at most
  the budget), `CaptureIsRestored` (`CaptureRestored`), `BridgesAreSilent`
  (`BridgeIsSilent`, by `Bridged`: the session captures until only the shell's end is
  left), `SecretsAreLogged` (`SecretsLogged`, by `Owes`: a secret read and not
  logged has its log entry ahead on the stack), `OverlaysAreReleased`
  (`OverlaysReleased`: overlays held are shells on the stack).

Only model-checked: the liveness properties (`EverythingReturned`, `CatchesUp`,
`GateReopens`, `GuesserGetsIn`, `SessionEnds`, `HandlerEnds`), since the prover does
not handle fairness. Every safety property of a passing run is a theorem. Proved and
in no run: the type invariants of `Admission`, `WebTrap` and `Shell`, and
`SecretsLogged`.

## 5. Findings

Places where a comment says something else than the code does; each has a run
whose counterexample shows it.

1. **A substitution is run twice** (`shell_subst`). `runStatement` expands a
   statement of one stage to see whether its program is interactive
   (`shell.go:265`) and, when it is not, expands it again for the pipeline
   (`:275`). Downloads and events of a `$(...)` are logged twice, and the budget
   is charged twice. `cmdSub` is described as working "the way bash does".
2. **The echo dies after a pause** (`ssh_echo`). `Session.Write` arms a write
   deadline (`session.go:168`) that nothing clears, and `cookedTTY` echoes
   without arming it again (`ssh.go:385`): a client that thinks for longer than
   the deadline types into a dead terminal, which `ssh.go:314` sets out to avoid.

Met on the way and stated as what the code does:
* Shutdown ends the process under running sessions, whatever `Server.Close` says
  of them: their records lack their end.
* A yes to a shell or exec request that comes just as the start timer fires is not
  honoured: the `select` at `ssh.go:277` may take either, and the channel is closed.
* `rm` of a directory leaves what was written below it in the overlay; `mkdir` of
  the same path removes the tombstone and it is back (what the base had there is
  not). Tombstones of the base's files, and directories made where one was, are
  outside `maxOverlayEntries`. `mv` loses its file when
  the copy is refused.
* A stream that broke before it carried any event gave the browser no id, so the
  reconnect starts at the end of the file.
* `wpTrackCap` bounds `wpTries` only, not `wpBroken`, `wpAdminHits` or
  `wpRevealLogged`.
* `busybox wget`, `sudo wget` and `/usr/bin/wget`, and interactive programs in a
  pipeline, reach `runCommand`, which does not have them, although
  `shell.go:648-651` and `:671-674` speak of a re-dispatch.
* `head`, `tail`, `grep` and `cp` read the bait images without a honeytoken event;
  `ls` of a missing path exits with 0; a prompt whose `ok` is ignored logs an
  empty credential after a disconnect; the editor sets the idle timeout to
  five minutes and leaves it there; a recovered panic leaves the
  last exit code as it was.
* `iacReader.Read` returns only at LF, a full buffer or an error, so an Enter sent
  as CR NUL or as a bare CR waits there for an LF or the idle deadline, which is
  what `session.go:237-241` set out to avoid. A command cut in two by an error
  has its rest taken for data, and a CR whose LF comes after a failed read is
  followed by an empty line.
* `LoadOrCreate` renames its file into place without an fsync.

## 6. Not modelled

* Personas: generation is random data. Persistence runs once, before anyone
  connects, and its crash behaviour rests on the file system.
* The HAProxy watcher: a process of its own with one sequential loop. Its writes
  to the log are in `EventFeed`.
* The 4 MB bound of `readEntries`' scanner (`feed.go:44`) and its error; a panic of
  the shell outside every line (in a prompt or a welcome text), which
  `Session.handle` catches as any handler's.
* The portal's analysis and overview: pure folds over the entries of a file.
* The base tree, pages and templates, recordings' format, the tokenizer's
  characters, the byte grammar of the PROXY header, texts of programs, TLS and
  the ssh handshake (Go's libraries), geo lookup, configuration, seccomp, test
  support: data, I/O, or read-only after start-up.

## 7. Plan

1. `PersonaStore`: LoadOrCreate under kills; a restart presents the identity a
   client has seen, under a stated model of the file system.
2. `HapWatch`: poll, threshold, cooldown, lost polls.
3. `Verdict`: the scoring of `analyze.go` as operators over bounded inputs.
