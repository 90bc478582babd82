------------------------------ MODULE WebTrap ------------------------------
(***************************************************************************)
(* The HTTP honeypot of internal/proto/http: one request per connection,   *)
(* and one Protocol, with the tables of the WordPress break-in trap, for   *)
(* all connections of a listener.  A source whose login POSTs persist is   *)
(* let in; once in, its wp-admin views are answered with a first and then  *)
(* a deep reveal, and the first of them is logged as a honeytoken.  A      *)
(* recognised exploit runs its command in the inert shell with the         *)
(* session's output captured, and is answered on the wire afterwards.      *)
(*                                                                         *)
(* Every method of the trap takes Protocol.mu for itself, so requests of   *)
(* one source interleave between wpAdminReveal, wpLogReveal and the log.   *)
(***************************************************************************)
EXTENDS Naturals, FiniteSets

CONSTANTS Conns,         \* connections, reused once answered
          Sources,       \* source addresses
          BreakInAfter,  \* wpBreakInAfter
          DeepAfter,     \* wpDeepAfter
          TrackCap       \* wpTrackCap

ASSUME TrapAssumption ==
  BreakInAfter \in Nat \ {0} /\ DeepAfter \in Nat \ {0} /\ TrackCap \in Nat
ASSUME WebSetsAssumption ==
  IsFiniteSet(Conns) /\ IsFiniteSet(Sources) /\ Sources # {}

VARIABLES req,             \* each connection's request: how far it is (pc), its
                           \* source, what it asks for and what it is to get
          capture,         \* connections whose Session.capture is set
          wpTries,         \* Protocol.wpTries (0: no entry)
          wpBroken,        \* Protocol.wpBroken
          wpAdminHits,     \* Protocol.wpAdminHits, counted up to DeepAfter
          wpRevealLogged,  \* Protocol.wpRevealLogged
          posts,           \* history: login POSTs of a source, up to BreakInAfter
          entered,         \* history: sources logged "accepted (brute-forced)"
          firsts,          \* history: first reveals granted to a source
          tokens           \* history: HONEYTOKEN events of a source

trapVars == <<wpTries, wpBroken, wpAdminHits, wpRevealLogged>>
pastVars == <<posts, entered, firsts, tokens>>
vars == <<req, capture, wpTries, wpBroken, wpAdminHits, wpRevealLogged,
          posts, entered, firsts, tokens>>

\* A POST of /wp-login.php, a view below /wp-admin, a request that carries a
\* command, and everything that is answered from a template.
Asks == {"login", "admin", "exploit", "page"}

NoSource == CHOOSE s \in Sources : TRUE
Idle == [pc |-> "idle", src |-> NoSource, asks |-> "page", gets |-> "none"]

Steps == {"idle", "respond", "credential", "reveal", "token", "shell", "write"}
Answers == {"none", "refused", "accepted", "first", "deep"}

TypeOK ==
  /\ req \in [Conns -> [pc : Steps, src : Sources, asks : Asks, gets : Answers]]
  /\ capture \subseteq Conns
  /\ wpTries \in [Sources -> 0..(BreakInAfter - 1)]
  /\ wpBroken \subseteq Sources
  /\ wpAdminHits \in [Sources -> 0..DeepAfter]
  /\ wpRevealLogged \subseteq Sources
  /\ posts \in [Sources -> 0..BreakInAfter]
  /\ entered \subseteq Sources
  /\ firsts \in [Sources -> Nat]
  /\ tokens \in [Sources -> Nat]

Init ==
  /\ req = [c \in Conns |-> Idle]
  /\ capture = {}
  /\ wpTries = [s \in Sources |-> 0]
  /\ wpBroken = {}
  /\ wpAdminHits = [s \in Sources |-> 0]
  /\ wpRevealLogged = {}
  /\ posts = [s \in Sources |-> 0]
  /\ entered = {}
  /\ firsts = [s \in Sources |-> 0]
  /\ tokens = [s \in Sources |-> 0]

-----------------------------------------------------------------------------
(* Handle.                                                                 *)

UpTo(n, max) == IF n < max THEN n + 1 ELSE n

At(c, pc, asks) == req[c].pc = pc /\ req[c].asks = asks

\* The request's next step, and what it is to get.
To(c, pc, gets) == req' = [req EXCEPT ![c].pc = pc, ![c].gets = gets]

\* Handle up to respond: the request is read and logged, with its body.
Request(c, s, asks) ==
  /\ req[c].pc = "idle"
  /\ req' = [req EXCEPT ![c] = [pc |-> "respond", src |-> s, asks |-> asks, gets |-> "none"]]
  /\ posts' = IF asks = "login" THEN [posts EXCEPT ![s] = UpTo(@, BreakInAfter)] ELSE posts
  /\ UNCHANGED <<capture, trapVars, entered, firsts, tokens>>

\* A route that only has a page, a redirection or an error to give.
Template(c) ==
  /\ At(c, "respond", "page")
  /\ To(c, "write", "none")
  /\ UNCHANGED <<capture, trapVars, pastVars>>

\* Handle's last statements: the delay and the write, if the client still is
\* there; then the connection closes.
Write(c) ==
  /\ req[c].pc = "write"
  /\ req' = [req EXCEPT ![c] = Idle]
  /\ UNCHANGED <<capture, trapVars, pastVars>>

-----------------------------------------------------------------------------
(* The exploit bridge.                                                     *)

\* runRCE logs the exec; CaptureOutput diverts what the shell prints.
RunRCE(c) ==
  /\ At(c, "respond", "exploit")
  /\ To(c, "shell", "none")
  /\ capture' = capture \cup {c}
  /\ UNCHANGED <<trapVars, pastVars>>

\* RunOnceCaptured returns its output.
RCEReturns(c) ==
  /\ At(c, "shell", "exploit")
  /\ To(c, "write", "none")
  /\ capture' = capture \ {c}
  /\ UNCHANGED <<trapVars, pastVars>>

\* Fault: capture is restored by a plain statement, which a panic skips.
RCEPanicsInline(c) ==
  /\ At(c, "shell", "exploit")
  /\ To(c, "write", "none")
  /\ UNCHANGED <<capture, trapVars, pastVars>>

\* The shell panics: capture is restored by a deferred call, and runRCE
\* recovers so that the response is written all the same.
RCEPanics(c) ==
  /\ At(c, "shell", "exploit")
  /\ To(c, "write", "none")
  /\ capture' = capture \ {c}
  /\ UNCHANGED <<trapVars, pastVars>>

-----------------------------------------------------------------------------
(* The WordPress trap.                                                     *)

Tracked == {s \in Sources : wpTries[s] > 0}

\* wpLetIn when the source stays out: the table is full, or its attempt counts.
KeepsOut(c) ==
  LET s == req[c].src IN
  /\ s \notin wpBroken
  /\ \/ s \notin Tracked /\ Cardinality(Tracked) >= TrackCap /\ UNCHANGED wpTries
     \/ /\ s \in Tracked \/ Cardinality(Tracked) < TrackCap
        /\ wpTries[s] + 1 < BreakInAfter
        /\ wpTries' = [wpTries EXCEPT ![s] = @ + 1]
  /\ To(c, "credential", "refused")
  /\ UNCHANGED <<wpBroken, wpAdminHits, wpRevealLogged>>

\* Fault: attempts on the listener are added up over the sources.
BreaksInTogether(c) ==
  LET s == req[c].src IN
  /\ s \notin wpBroken
  /\ s \in Tracked \/ Cardinality(Tracked) < TrackCap
  /\ \E t \in Sources : wpTries[t] + 1 >= BreakInAfter
  /\ wpTries' = [wpTries EXCEPT ![s] = 0]
  /\ wpBroken' = wpBroken \cup {s}
  /\ To(c, "credential", "accepted")
  /\ UNCHANGED <<wpAdminHits, wpRevealLogged>>

\* Fault: the door opens for this request, which nobody remembers.
BreaksInForgotten(c) ==
  LET s == req[c].src IN
  /\ s \notin wpBroken
  /\ s \in Tracked \/ Cardinality(Tracked) < TrackCap
  /\ wpTries[s] + 1 >= BreakInAfter
  /\ wpTries' = [wpTries EXCEPT ![s] = 0]
  /\ To(c, "credential", "accepted")
  /\ UNCHANGED <<wpBroken, wpAdminHits, wpRevealLogged>>

\* wpLetIn at the attempt that opens the door: the source moves from one
\* table to the other.
BreaksIn(c) ==
  LET s == req[c].src IN
  /\ s \notin wpBroken
  /\ s \in Tracked \/ Cardinality(Tracked) < TrackCap
  /\ wpTries[s] + 1 >= BreakInAfter
  /\ wpTries' = [wpTries EXCEPT ![s] = 0]
  /\ wpBroken' = wpBroken \cup {s}
  /\ To(c, "credential", "accepted")
  /\ UNCHANGED <<wpAdminHits, wpRevealLogged>>

\* wpLetIn of a source that is in.
ComesBack(c) ==
  /\ req[c].src \in wpBroken
  /\ To(c, "credential", "accepted")
  /\ UNCHANGED trapVars

wpLetIn(c) ==
  /\ At(c, "respond", "login")
  /\ KeepsOut(c) \/ BreaksIn(c) \/ ComesBack(c)
  /\ UNCHANGED <<capture, pastVars>>

\* LogCredentialResult.
LogCredential(c) ==
  /\ req[c].pc = "credential"
  /\ To(c, "write", req[c].gets)
  /\ entered' = IF req[c].gets = "accepted" THEN entered \cup {req[c].src} ELSE entered
  /\ UNCHANGED <<capture, trapVars, posts, firsts, tokens>>

\* wpAdminReveal of a source that is not in: it is sent to the login page.
Bounce(c) ==
  /\ At(c, "respond", "admin")
  /\ req[c].src \notin wpBroken
  /\ To(c, "write", "refused")
  /\ UNCHANGED <<capture, trapVars, pastVars>>

\* Fault: the deep reveal comes one view late.
depthLate(s) == IF wpAdminHits[s] >= DeepAfter THEN "deep" ELSE "first"

\* What the view after wpAdminHits[s] others shows.
depth(s) == IF wpAdminHits[s] + 1 >= DeepAfter THEN "deep" ELSE "first"

\* wpAdminReveal of a source that is in.
wpAdminReveal(c) ==
  LET s == req[c].src IN
  /\ At(c, "respond", "admin")
  /\ s \in wpBroken
  /\ wpAdminHits' = [wpAdminHits EXCEPT ![s] = UpTo(@, DeepAfter)]
  /\ To(c, "reveal", depth(s))
  /\ firsts' = IF depth(s) = "first" THEN [firsts EXCEPT ![s] = @ + 1] ELSE firsts
  /\ UNCHANGED <<capture, wpTries, wpBroken, wpRevealLogged, posts, entered, tokens>>

\* Fault: the honeytoken is logged for every first reveal.
wpLogRevealEach(c) ==
  /\ req[c].pc = "reveal"
  /\ To(c, IF req[c].gets = "first" THEN "token" ELSE "write", req[c].gets)
  /\ wpRevealLogged' = wpRevealLogged \cup {req[c].src}
  /\ UNCHANGED <<capture, wpTries, wpBroken, wpAdminHits, pastVars>>

\* wpLogReveal: whoever marks the source first is the one to log it.
wpLogReveal(c) ==
  /\ req[c].pc = "reveal"
  /\ To(c, IF req[c].src \in wpRevealLogged THEN "write" ELSE "token", req[c].gets)
  /\ wpRevealLogged' = wpRevealLogged \cup {req[c].src}
  /\ UNCHANGED <<capture, wpTries, wpBroken, wpAdminHits, pastVars>>

LogHoneytoken(c) ==
  /\ req[c].pc = "token"
  /\ To(c, "write", req[c].gets)
  /\ tokens' = [tokens EXCEPT ![req[c].src] = @ + 1]
  /\ UNCHANGED <<capture, trapVars, posts, entered, firsts>>

-----------------------------------------------------------------------------

Respond(c) ==
  \/ Template(c) \/ RunRCE(c) \/ RCEReturns(c) \/ RCEPanics(c)
  \/ wpLetIn(c) \/ LogCredential(c)
  \/ Bounce(c) \/ wpAdminReveal(c) \/ wpLogReveal(c) \/ LogHoneytoken(c)
  \/ Write(c)

Next ==
  \E c \in Conns :
    \/ \E s \in Sources, asks \in Asks : Request(c, s, asks)
    \/ Respond(c)

Spec == Init /\ [][Next]_vars

-----------------------------------------------------------------------------
(* Properties.                                                             *)

\* A source is let in only by its own work, BreakInAfter login POSTs of its
\* own, and what it was let in for no longer takes up room in the table of
\* tries, which stays within its cap.
WorkBeforeEntry ==
  /\ \A s \in wpBroken : posts[s] = BreakInAfter /\ s \notin Tracked
  /\ Cardinality(Tracked) <= TrackCap

\* Once the log has called a source's login accepted, the trap never treats
\* it as an outsider again: no later login of it is refused and no later view
\* of wp-admin bounced.
DoorStaysOpen ==
  [][\A c \in Conns :
       req[c].pc = "respond" /\ req[c].src \in entered => req'[c].gets # "refused"]_vars

\* A source gets the first reveal DeepAfter - 1 times and the deep one from
\* then on, however its views overlap.
DeepIsEarned ==
  /\ \A s \in Sources : firsts[s] < DeepAfter
  /\ \A c \in Conns : req[c].gets = "deep" => firsts[req[c].src] = DeepAfter - 1

\* The honeytoken of a source is logged once: by the time any reveal goes out
\* it is in the log, or in the hands of exactly one request about to log it.
HoneytokenOnce ==
  \A s \in Sources :
    LET telling == {c \in Conns : req[c].pc = "token" /\ req[c].src = s} IN
    /\ tokens[s] + Cardinality(telling) = IF s \in wpRevealLogged THEN 1 ELSE 0
    /\ \A c \in Conns : req[c].src = s /\ req[c].pc = "write" /\ req[c].gets \in {"first", "deep"}
                          => s \in wpRevealLogged

\* Whatever the injected command did, the response is written to the wire
\* and not into a capture buffer nobody reads any more.
ResponseReachesWire == \A c \in Conns : req[c].pc = "write" => c \notin capture

============================================================================
