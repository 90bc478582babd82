------------------------------- MODULE Login -------------------------------
(***************************************************************************)
(* The login dialogues and the credential policy behind them.  Telnet and  *)
(* SSH connections ask the one Persona of the process, AcceptFrom, which   *)
(* knows the real credentials and, when enabled, the brute-force policy of *)
(* persona/bruteforce.go with its table of sources.  FTP refuses           *)
(* everything and the Cisco style of telnet takes one credential without   *)
(* judging it.  Connections of one source run side by side, so a verdict   *)
(* is reached, and logged, between the steps of others.                    *)
(*                                                                         *)
(* A credential is a user and password pair; which ones are real, factory  *)
(* defaults, or at least name an account that exists is given.             *)
(***************************************************************************)
EXTENDS Naturals, FiniteSets

CONSTANTS Conns,         \* connections, reused once closed
          Sources,       \* source addresses
          Creds,         \* credentials a client may offer
          RealCreds,     \* the ones Accept accepts
          KnownCreds,    \* the ones whose user passes knownUser
          DefaultCreds,  \* isApplianceDefaultCred
          Enabled,       \* BruteForceConfig.Enabled (p.bf # nil)
          Appliance,     \* isAppliance
          AfterTries,    \* BruteForceConfig.AfterTries
          MaxSources,    \* maxBruteSources
          Protos,        \* services with a login dialogue
          Tries          \* login attempts per connection of each of them

ASSUME PolicyAssumption ==
  /\ AfterTries \in Nat \ {0} /\ MaxSources \in Nat
  /\ Enabled \in BOOLEAN /\ Appliance \in BOOLEAN
  /\ RealCreds \subseteq KnownCreds /\ DefaultCreds \subseteq KnownCreds
  /\ KnownCreds \subseteq Creds
  /\ Protos \subseteq {"telnet", "cisco", "ssh", "ftp"}
  /\ Tries \in [Protos -> Nat \ {0}]

ASSUME PopulationAssumption ==
  /\ Protos # {} /\ Sources # {} /\ Creds # {}
  /\ IsFiniteSet(Conns) /\ IsFiniteSet(Sources)

VARIABLES conn,      \* each connection: where its dialogue is (pc), its service,
                     \* its source, the attempts it has used, the credential
                     \* it offers and the verdict on it
          table,     \* sources with an entry in bruteForce.src
          tries,     \* srcAuth.tries; only compared with AfterTries, so it stops there
          aged,      \* sources whose first attempt is at least After ago
          accepted,  \* srcAuth.accepted
          guesses,   \* history: wrong credentials a source offered, counted to AfterTries
          noted      \* history: <<source, credential>> logged "accepted (brute-forced)"

policyVars == <<table, tries, aged, accepted>>
vars == <<conn, table, tries, aged, accepted, guesses, noted>>

NoProto == CHOOSE p \in Protos : TRUE
NoSource == CHOOSE s \in Sources : TRUE
NoCred == CHOOSE k \in Creds : TRUE

\* A connection that is over; its goroutine's variables are gone.
Closed == [pc |-> "closed", proto |-> NoProto, from |-> NoSource, used |-> 0,
           cred |-> NoCred, verdict |-> "none"]

\* Types; no prompt is shown beyond the attempts a service allows, and the table
\* keeps within its bound and nothing of a source that is not in it.
TypeOK ==
  /\ conn \in [Conns -> [pc : {"closed", "prompt", "deciding", "decided", "shell", "cli"},
                         proto : Protos, from : Sources,
                         used : {n \in Nat : \E p \in Protos : n < Tries[p]}, cred : Creds,
                         verdict : {"none", "rejected", "accepted", "brute"}]]
  /\ table \subseteq Sources
  /\ tries \in [Sources -> 0..AfterTries]
  /\ aged \subseteq Sources
  /\ accepted \in [Sources -> SUBSET Creds]
  /\ guesses \in [Sources -> 0..AfterTries]
  /\ noted \subseteq Sources \X Creds
  /\ \A c \in Conns : conn[c].pc \in {"prompt", "deciding"} => conn[c].used < Tries[conn[c].proto]
  /\ Cardinality(table) <= MaxSources
  /\ \A s \in Sources \ table : tries[s] = 0 /\ accepted[s] = {} /\ s \notin aged

Init ==
  /\ conn = [c \in Conns |-> Closed]
  /\ table = {}
  /\ tries = [s \in Sources |-> 0]
  /\ aged = {}
  /\ accepted = [s \in Sources |-> {}]
  /\ guesses = [s \in Sources |-> 0]
  /\ noted = {}

-----------------------------------------------------------------------------
(* The policy.                                                             *)

Bump(n) == IF n < AfterTries THEN n + 1 ELSE n

\* The credentials AcceptFrom hands to consider.
Considered(k) ==
  /\ Enabled
  /\ k \in KnownCreds \ RealCreds
  /\ ~(Appliance /\ k \in DefaultCreds)

Verdict(c, v) ==
  /\ conn' = [conn EXCEPT ![c].pc = "decided", ![c].verdict = v]
  /\ UNCHANGED <<guesses, noted>>

\* AcceptFrom without consider: the real credential, a factory default of an
\* appliance, or an account that does not exist.
Outright(c) ==
  /\ ~Considered(conn[c].cred)
  /\ Verdict(c, IF \/ conn[c].cred \in RealCreds
                   \/ Enabled /\ Appliance /\ conn[c].cred \in DefaultCreds
                THEN "accepted" ELSE "rejected")
  /\ UNCHANGED policyVars

\* consider, the table being full: the source is not tracked.
Untracked(c) ==
  /\ Considered(conn[c].cred)
  /\ conn[c].from \notin table /\ Cardinality(table) >= MaxSources
  /\ Verdict(c, "rejected")
  /\ UNCHANGED policyVars

\* consider, a credential that cracked this source before.
Remembered(c) ==
  /\ Considered(conn[c].cred)
  /\ conn[c].from \in table /\ conn[c].cred \in accepted[conn[c].from]
  /\ Verdict(c, "brute")
  /\ UNCHANGED policyVars

\* The attempt is counted against its source, which is entered in the table.
Counted(c) ==
  LET s == conn[c].from IN
  /\ Considered(conn[c].cred)
  /\ conn[c].cred \notin accepted[s]
  /\ s \in table \/ Cardinality(table) < MaxSources
  /\ table' = table \cup {s}
  /\ tries' = [tries EXCEPT ![s] = Bump(@)]
  /\ UNCHANGED aged

\* Fault: enough attempts do, however fast they came.
EligibleAtOnce(c) == Bump(tries[conn[c].from]) >= AfterTries

\* Enough attempts from this source, over enough time.
Eligible(c) == Bump(tries[conn[c].from]) >= AfterTries /\ conn[c].from \in aged

\* Fault: the credential that was let in is not remembered.
CracksForgotten(c) ==
  /\ Counted(c)
  /\ Eligible(c)
  /\ Verdict(c, "brute")
  /\ UNCHANGED accepted

\* consider: the draw lets the source in with what it offered ...
Cracks(c) ==
  /\ Counted(c)
  /\ Eligible(c)
  /\ accepted' = [accepted EXCEPT ![conn[c].from] = @ \cup {conn[c].cred}]
  /\ Verdict(c, "brute")

\* ... or does not, or it is not eligible.
Fails(c) ==
  /\ Counted(c)
  /\ Verdict(c, "rejected")
  /\ UNCHANGED accepted

\* The minimum time since a source's first attempt has passed.
Elapse(s) ==
  /\ s \in table \ aged
  /\ aged' = aged \cup {s}
  /\ UNCHANGED <<conn, table, tries, accepted, guesses, noted>>

-----------------------------------------------------------------------------
(* The dialogues.                                                          *)

\* A client connects and is shown the first prompt.
Start(c, p, s) ==
  /\ conn[c].pc = "closed"
  /\ conn' = [conn EXCEPT ![c].pc = "prompt", ![c].proto = p, ![c].from = s]
  /\ UNCHANGED <<policyVars, guesses, noted>>

\* It names a user and a password.
Offer(c, k) ==
  /\ conn[c].pc = "prompt"
  /\ conn' = [conn EXCEPT ![c].pc = "deciding", ![c].cred = k]
  /\ guesses' = [guesses EXCEPT ![conn[c].from] = IF Considered(k) THEN Bump(@) ELSE @]
  /\ UNCHANGED <<policyVars, noted>>

\* Telnet and SSH ask AcceptFrom, under bruteForce.mu when it considers.
AcceptFrom(c) ==
  /\ conn[c].pc = "deciding" /\ conn[c].proto \in {"telnet", "ssh"}
  /\ Outright(c) \/ Untracked(c) \/ Remembered(c) \/ Cracks(c) \/ Fails(c)

\* FTP refuses; the Cisco CLI does not judge.
NoCheck(c) ==
  /\ conn[c].pc = "deciding" /\ conn[c].proto \in {"ftp", "cisco"}
  /\ Verdict(c, IF conn[c].proto = "ftp" THEN "rejected" ELSE "none")
  /\ UNCHANGED policyVars

\* Fault: the loop runs once more after the last failed attempt.
StruckOneMore(c) ==
  IF conn[c].used < Tries[conn[c].proto]
  THEN [Closed EXCEPT !.pc = "prompt", !.proto = conn[c].proto,
                      !.from = conn[c].from, !.used = conn[c].used + 1]
  ELSE Closed

\* A failed attempt: the next prompt, or the end of the connection.
Struck(c) ==
  IF conn[c].used + 1 < Tries[conn[c].proto]
  THEN [Closed EXCEPT !.pc = "prompt", !.proto = conn[c].proto,
                      !.from = conn[c].from, !.used = conn[c].used + 1]
  ELSE Closed

\* A public key never authenticates and uses up an attempt.
OfferKey(c) ==
  /\ conn[c].pc = "prompt" /\ conn[c].proto = "ssh"
  /\ conn' = [conn EXCEPT ![c] = Struck(c)]
  /\ UNCHANGED <<policyVars, guesses, noted>>

\* LogCredential or LogCredentialResult, then the shell, the Cisco CLI, or a
\* failed attempt.
Report(c) ==
  /\ conn[c].pc = "decided"
  /\ conn' = [conn EXCEPT ![c] = CASE @.verdict \in {"accepted", "brute"} -> [@ EXCEPT !.pc = "shell"]
                                   [] @.verdict = "none" -> [@ EXCEPT !.pc = "cli"]
                                   [] OTHER -> Struck(c)]
  /\ noted' = IF conn[c].verdict = "brute"
              THEN noted \cup {<<conn[c].from, conn[c].cred>>} ELSE noted
  /\ UNCHANGED <<policyVars, guesses>>

\* The client leaves a prompt, a shell or the CLI; nothing more is logged.
Hangup(c) ==
  /\ conn[c].pc \in {"prompt", "shell", "cli"}
  /\ conn' = [conn EXCEPT ![c] = Closed]
  /\ UNCHANGED <<policyVars, guesses, noted>>

Dialogue(c) == AcceptFrom(c) \/ NoCheck(c) \/ Report(c)

Next ==
  \/ \E c \in Conns :
       \/ \E p \in Protos, s \in Sources : Start(c, p, s)
       \/ \E k \in Creds : Offer(c, k)
       \/ OfferKey(c) \/ Hangup(c) \/ Dialogue(c)
  \/ \E s \in Sources : Elapse(s)

\* A lucky draw for source s.
Lucky(s) == \E c \in Conns : conn[c].from = s /\ AcceptFrom(c) /\ Cracks(c)

\* Time passes, the server answers, and a draw whose probability is positive
\* is lucky sooner or later when it is made again and again.
Fairness ==
  /\ \A c \in Conns : WF_vars(Dialogue(c))
  /\ \A s \in Sources : WF_vars(Elapse(s)) /\ SF_vars(Lucky(s))

Spec == Init /\ [][Next]_vars
FairSpec == Spec /\ Fairness

-----------------------------------------------------------------------------
(* Properties.                                                             *)

\* Who has a shell, and by what right: a real credential, a factory default on
\* an appliance, or the policy, and then this source itself offered enough
\* wrong credentials, over enough time: nobody profits from another source's
\* guessing, and with the policy off only the real credential opens.
ShellIsEarned ==
  \A c \in Conns :
    conn[c].pc = "shell" =>
      \/ conn[c].cred \in RealCreds
      \/ Enabled /\ Appliance /\ conn[c].cred \in DefaultCreds
      \/ /\ Enabled /\ conn[c].cred \in KnownCreds
         /\ guesses[conn[c].from] = AfterTries
         /\ conn[c].from \in aged

\* What the log once called a brute-forced accept keeps working for that
\* source, over telnet and ssh alike, whatever happened since.
StaysCracked ==
  [][\A c \in Conns :
       conn[c].pc = "deciding" /\ conn[c].proto \in {"telnet", "ssh"}
         /\ <<conn[c].from, conn[c].cred>> \in noted /\ conn'[c].pc = "decided"
       => conn'[c].verdict \in {"accepted", "brute"}]_vars

\* A source the table tracks, that goes on guessing wrong, is let in.
GuesserGetsIn ==
  \A s \in Sources :
    (/\ []<>(s \in table)
     /\ []<>(\E c \in Conns : /\ conn[c].from = s /\ conn[c].pc = "deciding"
                              /\ conn[c].proto \in {"telnet", "ssh"}
                              /\ Considered(conn[c].cred)))
      => <>(accepted[s] # {})

============================================================================
