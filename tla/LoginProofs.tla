---------------------------- MODULE LoginProofs ----------------------------
(***************************************************************************)
(* Proofs about Login, for any connections, sources and credentials and    *)
(* any policy.                                                             *)
(***************************************************************************)
EXTENDS Login, FiniteSetTheorems, TLAPS

-----------------------------------------------------------------------------
(* Type correctness.                                                       *)

PCs == {"closed", "prompt", "deciding", "decided", "shell", "cli"}
Verdicts == {"none", "rejected", "accepted", "brute"}
Attempts == {n \in Nat : \E p \in Protos : n < Tries[p]}
Dialogues == [pc : PCs, proto : Protos, from : Sources, used : Attempts,
              cred : Creds, verdict : Verdicts]

\* A dialogue within the attempts of its service; a closed one has used none.
Sane(d) == /\ d.pc \in {"prompt", "deciding"} => d.used < Tries[d.proto]
           /\ d.pc = "closed" => d.used = 0

\* TypeOK, in these terms, with what it takes to start a dialogue again.
Typed ==
  /\ conn \in [Conns -> Dialogues]
  /\ \A c \in Conns : Sane(conn[c])
  /\ table \subseteq Sources
  /\ tries \in [Sources -> 0..AfterTries]
  /\ aged \subseteq Sources
  /\ accepted \in [Sources -> SUBSET Creds]
  /\ guesses \in [Sources -> 0..AfterTries]
  /\ noted \subseteq Sources \X Creds
  /\ Cardinality(table) <= MaxSources
  /\ \A s \in Sources \ table : tries[s] = 0 /\ accepted[s] = {} /\ s \notin aged

LEMMA TypedIsTypeOK == Typed => TypeOK
  BY DEF Typed, TypeOK, Dialogues, PCs, Verdicts, Attempts, Sane

LEMMA ClosedTyped ==
  /\ Closed \in Dialogues /\ Closed.pc = "closed" /\ Closed.used = 0
  /\ Sane(Closed)
  <1>1. NoProto \in Protos /\ NoSource \in Sources /\ NoCred \in Creds
    BY PopulationAssumption DEF NoProto, NoSource, NoCred
  <1>2. 0 \in Attempts
    <2>1. Tries[NoProto] \in Nat \ {0}
      BY <1>1, PolicyAssumption
    <2>2. 0 < Tries[NoProto]
      BY <2>1
    <2> QED
      BY <1>1, <2>2 DEF Attempts
  <1> QED
    BY <1>1, <1>2 DEF Closed, Dialogues, PCs, Verdicts, Sane

LEMMA InitTyped == Init => Typed
  <1> SUFFICES ASSUME Init PROVE Typed
    OBVIOUS
  <1>1. Cardinality(table) <= MaxSources
    BY FS_EmptySet, PolicyAssumption DEF Init
  <1>2. conn \in [Conns -> Dialogues] /\ \A c \in Conns : Sane(conn[c])
    BY ClosedTyped DEF Init
  <1> QED
    BY <1>1, <1>2, PolicyAssumption DEF Init, Typed

\* The connection c becomes d; the others stay.
Moves(c, d) ==
  /\ conn' \in [Conns -> Dialogues]
  /\ \A e \in Conns : Sane(conn'[e])
  /\ conn'[c] = d /\ \A e \in Conns \ {c} : conn'[e] = conn[e]

LEMMA ConnMoves ==
  ASSUME Typed, NEW c \in Conns, NEW d \in Dialogues, Sane(d), conn' = [conn EXCEPT ![c] = d]
  PROVE  Moves(c, d)
  BY DEF Typed, Moves

\* A failed attempt leads to a further prompt within the limit, or closes.
LEMMA StruckTyped ==
  ASSUME Typed, NEW c \in Conns
  PROVE  Struck(c) \in Dialogues /\ Sane(Struck(c)) /\ Struck(c).pc \in {"prompt", "closed"}
  <1>1. conn[c] \in Dialogues
    BY DEF Typed
  <1>2. conn[c].proto \in Protos /\ conn[c].from \in Sources /\ conn[c].used \in Nat
    BY <1>1 DEF Dialogues, Attempts
  <1>3. CASE conn[c].used + 1 < Tries[conn[c].proto]
    <2> DEFINE r == [Closed EXCEPT !.pc = "prompt", !.proto = conn[c].proto,
                                   !.from = conn[c].from, !.used = conn[c].used + 1]
    <2>1. conn[c].used + 1 \in Attempts
      BY <1>2, <1>3 DEF Attempts
    <2>2. Struck(c) = r
      BY <1>3 DEF Struck
    <2>3. /\ r \in Dialogues /\ r.pc = "prompt"
          /\ r.used = conn[c].used + 1 /\ r.proto = conn[c].proto
      BY <1>2, <2>1, ClosedTyped DEF Dialogues, PCs
    <2> QED
      BY <1>3, <2>2, <2>3 DEF Sane
  <1>4. CASE ~(conn[c].used + 1 < Tries[conn[c].proto])
    BY <1>4, ClosedTyped DEF Struck
  <1> QED
    BY <1>3, <1>4

\* What each step of a connection makes of it.
LEMMA VerdictFacts ==
  ASSUME Typed, NEW c \in Conns, NEW v \in Verdicts, Verdict(c, v)
  PROVE  /\ Moves(c, conn'[c])
         /\ conn'[c].pc = "decided" /\ conn'[c].verdict = v
         /\ conn'[c].from = conn[c].from /\ conn'[c].cred = conn[c].cred
         /\ UNCHANGED <<guesses, noted>>
  <1> DEFINE d == [[conn[c] EXCEPT !.pc = "decided"] EXCEPT !.verdict = v]
  <1>0. conn[c] \in Dialogues
    BY DEF Typed
  <1>1. conn' = [conn EXCEPT ![c] = d] /\ UNCHANGED <<guesses, noted>>
    BY DEF Verdict
  <1>2. /\ d \in Dialogues /\ d.pc = "decided" /\ d.verdict = v
        /\ d.from = conn[c].from /\ d.cred = conn[c].cred
    BY <1>0 DEF Dialogues, PCs
  <1> HIDE DEF d
  <1>3. Sane(d)
    BY <1>2 DEF Sane
  <1>4. Moves(c, d)
    BY <1>1, <1>2, <1>3, ConnMoves
  <1>5. conn'[c] = d
    BY <1>4 DEF Moves
  <1> QED
    BY <1>1, <1>2, <1>4, <1>5

LEMMA StartFacts ==
  ASSUME Typed, NEW c \in Conns, NEW p \in Protos, NEW s \in Sources, Start(c, p, s)
  PROVE  Moves(c, conn'[c]) /\ conn[c].pc = "closed" /\ conn'[c].pc = "prompt"
  <1> DEFINE d == [[[conn[c] EXCEPT !.pc = "prompt"] EXCEPT !.proto = p] EXCEPT !.from = s]
  <1>0. conn[c] \in Dialogues /\ Sane(conn[c])
    BY DEF Typed
  <1>1. conn[c].pc = "closed" /\ conn' = [conn EXCEPT ![c] = d]
    BY DEF Start
  <1>2. /\ d \in Dialogues /\ d.pc = "prompt" /\ d.proto = p /\ d.used = conn[c].used
    BY <1>0 DEF Dialogues, PCs
  <1> HIDE DEF d
  <1>3. Sane(d)
    BY <1>0, <1>1, <1>2, PolicyAssumption DEF Sane
  <1>4. Moves(c, d)
    BY <1>1, <1>2, <1>3, ConnMoves
  <1>5. conn'[c] = d
    BY <1>4 DEF Moves
  <1> QED
    BY <1>1, <1>2, <1>4, <1>5

LEMMA OfferFacts ==
  ASSUME Typed, NEW c \in Conns, NEW k \in Creds, Offer(c, k)
  PROVE  /\ Moves(c, conn'[c]) /\ conn[c].pc = "prompt"
         /\ conn'[c].pc = "deciding" /\ conn'[c].cred = k /\ conn'[c].from = conn[c].from
  <1> DEFINE d == [[conn[c] EXCEPT !.pc = "deciding"] EXCEPT !.cred = k]
  <1>0. conn[c] \in Dialogues /\ Sane(conn[c])
    BY DEF Typed
  <1>1. conn[c].pc = "prompt" /\ conn' = [conn EXCEPT ![c] = d]
    BY DEF Offer
  <1>2. /\ d \in Dialogues /\ d.pc = "deciding" /\ d.cred = k /\ d.from = conn[c].from
        /\ d.proto = conn[c].proto /\ d.used = conn[c].used
    BY <1>0 DEF Dialogues, PCs
  <1> HIDE DEF d
  <1>3. Sane(d)
    BY <1>0, <1>1, <1>2 DEF Sane
  <1>4. Moves(c, d)
    BY <1>1, <1>2, <1>3, ConnMoves
  <1>5. conn'[c] = d
    BY <1>4 DEF Moves
  <1> QED
    BY <1>1, <1>2, <1>4, <1>5

LEMMA ReportFacts ==
  ASSUME Typed, NEW c \in Conns, Report(c)
  PROVE  /\ Moves(c, conn'[c]) /\ conn[c].pc = "decided"
         /\ conn'[c].pc \in {"shell", "cli", "prompt", "closed"}
         /\ conn'[c].pc = "shell" => /\ conn[c].verdict \in {"accepted", "brute"}
                                     /\ conn'[c].from = conn[c].from /\ conn'[c].cred = conn[c].cred
  <1>0. conn[c] \in Dialogues
    BY DEF Typed
  <1> DEFINE sh == [conn[c] EXCEPT !.pc = "shell"]
             cl == [conn[c] EXCEPT !.pc = "cli"]
  <1>1. /\ sh \in Dialogues /\ sh.pc = "shell" /\ sh.from = conn[c].from /\ sh.cred = conn[c].cred
        /\ cl \in Dialogues /\ cl.pc = "cli"
    BY <1>0 DEF Dialogues, PCs
  <1>2. conn[c].pc = "decided"
        /\ conn' = [conn EXCEPT ![c] = CASE conn[c].verdict \in {"accepted", "brute"} -> sh
                                         [] conn[c].verdict = "none" -> cl
                                         [] OTHER -> Struck(c)]
    BY DEF Report
  <1> HIDE DEF sh, cl
  <1>3. CASE conn[c].verdict \in {"accepted", "brute"}
    <2>1. conn' = [conn EXCEPT ![c] = sh]
      BY <1>2, <1>3
    <2>2. Moves(c, sh)
      BY <1>1, <2>1, ConnMoves DEF Sane
    <2>3. conn'[c] = sh
      BY <2>2 DEF Moves
    <2> QED
      BY <1>1, <1>2, <1>3, <2>2, <2>3
  <1>4. CASE conn[c].verdict = "none"
    <2>1. conn' = [conn EXCEPT ![c] = cl]
      BY <1>2, <1>4
    <2>2. Moves(c, cl)
      BY <1>1, <2>1, ConnMoves DEF Sane
    <2>3. conn'[c] = cl
      BY <2>2 DEF Moves
    <2> QED
      BY <1>1, <1>2, <2>2, <2>3
  <1>5. CASE conn[c].verdict \notin {"accepted", "brute", "none"}
    <2>1. conn' = [conn EXCEPT ![c] = Struck(c)]
      BY <1>2, <1>5
    <2>2. Moves(c, Struck(c))
      BY <2>1, StruckTyped, ConnMoves
    <2>3. conn'[c] = Struck(c)
      BY <2>2 DEF Moves
    <2> QED
      BY <1>2, <2>2, <2>3, StruckTyped
  <1> QED
    BY <1>3, <1>4, <1>5

LEMMA EndFacts ==
  ASSUME Typed, NEW c \in Conns, OfferKey(c) \/ Hangup(c)
  PROVE  /\ Moves(c, conn'[c]) /\ conn[c].pc \in {"prompt", "shell", "cli"}
         /\ conn'[c].pc \in {"prompt", "closed"}
         /\ UNCHANGED <<policyVars, guesses, noted>>
  <1>1. CASE OfferKey(c)
    <2>1. conn[c].pc = "prompt" /\ conn' = [conn EXCEPT ![c] = Struck(c)]
      BY <1>1 DEF OfferKey
    <2>2. Moves(c, Struck(c))
      BY <2>1, StruckTyped, ConnMoves
    <2>3. conn'[c] = Struck(c)
      BY <2>2 DEF Moves
    <2> QED
      BY <1>1, <2>1, <2>2, <2>3, StruckTyped DEF OfferKey
  <1>2. CASE Hangup(c)
    <2>1. conn[c].pc \in {"prompt", "shell", "cli"} /\ conn' = [conn EXCEPT ![c] = Closed]
      BY <1>2 DEF Hangup
    <2>2. Moves(c, Closed)
      BY <2>1, ClosedTyped, ConnMoves
    <2>3. conn'[c] = Closed
      BY <2>2 DEF Moves
    <2> QED
      BY <1>2, <2>1, <2>2, <2>3, ClosedTyped DEF Hangup
  <1> QED
    BY <1>1, <1>2

\* The ends of AcceptFrom, by their verdicts and what they do to the table.
LEMMA AcceptFacts ==
  ASSUME Typed, NEW c \in Conns, AcceptFrom(c)
  PROVE  /\ conn[c].pc = "deciding" /\ conn'[c].pc = "decided"
         /\ Moves(c, conn'[c])
         /\ conn'[c].from = conn[c].from /\ conn'[c].cred = conn[c].cred
         /\ UNCHANGED <<aged, guesses, noted>>
         /\ \/ /\ Outright(c) /\ UNCHANGED <<table, tries, accepted>>
               /\ conn'[c].verdict = IF \/ conn[c].cred \in RealCreds
                                        \/ Enabled /\ Appliance /\ conn[c].cred \in DefaultCreds
                                     THEN "accepted" ELSE "rejected"
            \/ /\ Untracked(c) /\ UNCHANGED <<table, tries, accepted>>
               /\ conn'[c].verdict = "rejected"
            \/ /\ Remembered(c) /\ UNCHANGED <<table, tries, accepted>>
               /\ conn'[c].verdict = "brute"
            \/ /\ Cracks(c) /\ conn'[c].verdict = "brute"
            \/ /\ Fails(c) /\ conn'[c].verdict = "rejected" /\ UNCHANGED accepted
  <1>0. \A v \in Verdicts : Verdict(c, v) =>
          /\ conn'[c].pc = "decided" /\ conn'[c].verdict = v
          /\ Moves(c, conn'[c])
          /\ conn'[c].from = conn[c].from /\ conn'[c].cred = conn[c].cred
          /\ UNCHANGED <<guesses, noted>>
    BY VerdictFacts
  <1>1. CASE Outright(c)
    <2> DEFINE v == IF \/ conn[c].cred \in RealCreds
                       \/ Enabled /\ Appliance /\ conn[c].cred \in DefaultCreds
                    THEN "accepted" ELSE "rejected"
    <2>1. v \in Verdicts
      BY DEF Verdicts
    <2>2. Verdict(c, v) /\ UNCHANGED <<table, tries, aged, accepted>>
      BY <1>1 DEF Outright, policyVars
    <2> QED
      BY <1>0, <1>1, <2>1, <2>2 DEF AcceptFrom
  <1>2. CASE Untracked(c)
    BY <1>0, <1>2 DEF AcceptFrom, Untracked, policyVars, Verdicts
  <1>3. CASE Remembered(c)
    BY <1>0, <1>3 DEF AcceptFrom, Remembered, policyVars, Verdicts
  <1>4. CASE Cracks(c)
    <2>1. Verdict(c, "brute") /\ UNCHANGED aged
      BY <1>4 DEF Cracks, Counted
    <2> QED
      BY <1>0, <1>4, <2>1 DEF AcceptFrom, Verdicts
  <1>5. CASE Fails(c)
    <2>1. Verdict(c, "rejected") /\ UNCHANGED <<aged, accepted>>
      BY <1>5 DEF Fails, Counted
    <2> QED
      BY <1>0, <1>5, <2>1 DEF AcceptFrom, Verdicts
  <1> QED
    BY <1>1, <1>2, <1>3, <1>4, <1>5 DEF AcceptFrom

\* Services that do not ask the policy.
LEMMA NoCheckFacts ==
  ASSUME Typed, NEW c \in Conns, NoCheck(c)
  PROVE  /\ conn[c].pc = "deciding" /\ conn'[c].pc = "decided"
         /\ conn[c].proto \in {"ftp", "cisco"}
         /\ Moves(c, conn'[c]) /\ conn'[c].verdict \in {"rejected", "none"}
         /\ UNCHANGED <<table, tries, aged, accepted, guesses, noted>>
  <1> DEFINE v == IF conn[c].proto = "ftp" THEN "rejected" ELSE "none"
  <1>1. Verdict(c, v) /\ v \in Verdicts
    BY DEF NoCheck, Verdicts
  <1> QED
    BY <1>1, VerdictFacts DEF NoCheck, policyVars

\* An attempt that counts enters its source in the table, if there is room.
LEMMA CountedFacts ==
  ASSUME Typed, NEW c \in Conns, Counted(c)
  PROVE  /\ conn[c].from \in Sources
         /\ table' \subseteq Sources /\ Cardinality(table') <= MaxSources
         /\ table \subseteq table' /\ conn[c].from \in table'
         /\ tries' \in [Sources -> 0..AfterTries]
         /\ \A s \in Sources \ {conn[c].from} :
              tries'[s] = tries[s] /\ (s \in table' => s \in table)
         /\ tries'[conn[c].from] = Bump(tries[conn[c].from])
  <1>1. PICK s \in Sources : s = conn[c].from
    BY DEF Typed, Dialogues
  <1>2. /\ table' = table \cup {s} /\ tries' = [tries EXCEPT ![s] = Bump(@)]
        /\ s \in table \/ Cardinality(table) < MaxSources
    BY <1>1 DEF Counted
  <1>3. IsFiniteSet(table)
    BY PopulationAssumption, FS_Subset DEF Typed
  <1>4. Cardinality(table') <= MaxSources
    <2>1. CASE s \in table
      <3>1. table' = table
        BY <1>2, <2>1
      <3> QED
        BY <3>1 DEF Typed
    <2>2. CASE s \notin table
      <3>1. Cardinality(table') = Cardinality(table) + 1 /\ Cardinality(table) \in Nat
        BY <1>2, <1>3, <2>2, FS_AddElement, FS_CardinalityType
      <3> QED
        BY <1>2, <2>2, <3>1, PolicyAssumption
    <2> QED
      BY <2>1, <2>2
  <1>5. Bump(tries[s]) \in 0..AfterTries
    BY PolicyAssumption DEF Bump, Typed
  <1> QED
    BY <1>1, <1>2, <1>4, <1>5 DEF Typed

LEMMA NextTyped == Typed /\ [Next]_vars => Typed'
  <1> SUFFICES ASSUME Typed, [Next]_vars PROVE Typed'
    OBVIOUS
  \* A move of a connection that leaves the policy and the history alone.
  <1>s. ASSUME NEW c \in Conns, Moves(c, conn'[c]),
               UNCHANGED <<table, tries, aged, accepted, guesses, noted>>
        PROVE  Typed'
    BY <1>s DEF Typed, Moves
  <1>t. \A c \in Conns : conn[c].from \in Sources /\ conn[c].cred \in Creds
    BY DEF Typed, Dialogues
  <1>1. ASSUME NEW c \in Conns, NEW p \in Protos, NEW s \in Sources, Start(c, p, s) PROVE Typed'
    BY <1>s, <1>1, StartFacts DEF Start, policyVars
  <1>2. ASSUME NEW c \in Conns, NEW k \in Creds, Offer(c, k) PROVE Typed'
    <2>1. guesses' \in [Sources -> 0..AfterTries]
      <3>1. \A n \in 0..AfterTries : Bump(n) \in 0..AfterTries
        BY PolicyAssumption DEF Bump
      <3> QED
        BY <1>2, <1>t, <3>1 DEF Offer, Typed
    <2>2. Moves(c, conn'[c]) /\ UNCHANGED <<table, tries, aged, accepted, noted>>
      BY <1>2, OfferFacts DEF Offer, policyVars
    <2> QED
      BY <2>1, <2>2 DEF Typed, Moves
  <1>3. ASSUME NEW c \in Conns, OfferKey(c) \/ Hangup(c) PROVE Typed'
    BY <1>s, <1>3, EndFacts DEF policyVars
  <1>4. ASSUME NEW c \in Conns, AcceptFrom(c) PROVE Typed'
    <2>0. Moves(c, conn'[c]) /\ UNCHANGED <<aged, guesses, noted>>
      BY <1>4, AcceptFacts
    <2>1. CASE UNCHANGED <<table, tries, accepted>>
      BY <1>s, <2>0, <2>1
    <2>2. ASSUME Cracks(c) \/ Fails(c) PROVE Typed'
      <3>1. Counted(c)
        BY <2>2 DEF Cracks, Fails
      <3>2. accepted' \in [Sources -> SUBSET Creds]
            /\ \A s \in Sources \ {conn[c].from} : accepted'[s] = accepted[s]
        BY <1>t, <2>2 DEF Cracks, Fails, Typed
      <3>3. \A s \in Sources \ table' : tries'[s] = 0 /\ accepted'[s] = {} /\ s \notin aged'
        BY <2>0, <3>1, <3>2, CountedFacts DEF Typed
      <3> QED
        BY <2>0, <3>1, <3>2, <3>3, CountedFacts DEF Typed, Moves
    <2> QED
      BY <1>4, <2>1, <2>2, AcceptFacts
  <1>5. ASSUME NEW c \in Conns, NoCheck(c) PROVE Typed'
    BY <1>s, <1>5, NoCheckFacts
  <1>6. ASSUME NEW c \in Conns, Report(c) PROVE Typed'
    <2>1. noted' \subseteq Sources \X Creds
      BY <1>6, <1>t DEF Report, Typed
    <2>2. Moves(c, conn'[c]) /\ UNCHANGED <<table, tries, aged, accepted, guesses>>
      BY <1>6, ReportFacts DEF Report, policyVars
    <2> QED
      BY <2>1, <2>2 DEF Typed, Moves
  <1>7. ASSUME NEW s \in Sources, Elapse(s) PROVE Typed'
    BY <1>7 DEF Elapse, Typed
  <1>8. CASE UNCHANGED vars
    BY <1>8 DEF vars, Typed
  <1> QED
    BY <1>1, <1>2, <1>3, <1>4, <1>5, <1>6, <1>7, <1>8 DEF Next, Dialogue

\* Every reachable state is well typed; no prompt is shown past a service's
\* attempts, and bruteForce.src never outgrows maxBruteSources nor keeps
\* anything of a source it does not track.
THEOREM LoginTypeCorrect == Spec => []TypeOK
  BY InitTyped, NextTyped, TypedIsTypeOK, PTL DEF Spec

-----------------------------------------------------------------------------
(* By what right a source has a shell.                                     *)

\* The wrong credentials of a source that wait for their verdict.
Guessing(s) == {c \in Conns : /\ conn[c].pc = "deciding" /\ conn[c].from = s
                              /\ Considered(conn[c].cred)}

\* What a connection may be let in for.
Earned(d) ==
  \/ d.cred \in RealCreds
  \/ Enabled /\ Appliance /\ d.cred \in DefaultCreds
  \/ Enabled /\ d.cred \in KnownCreds /\ guesses[d.from] = AfterTries /\ d.from \in aged

\* While its guesses are below the threshold they pay for a source's tries
\* and for its dialogues under way; what was accepted once had been paid for;
\* and whoever is in, or is about to be let in, has earned it.
EarnInv ==
  /\ \A s \in Sources : guesses[s] < AfterTries
                          => tries[s] + Cardinality(Guessing(s)) <= guesses[s]
  /\ \A s \in Sources : accepted[s] # {} => guesses[s] = AfterTries /\ s \in aged
  /\ \A c \in Conns :
       \/ conn[c].pc = "shell"
       \/ conn[c].pc = "decided" /\ conn[c].verdict \in {"accepted", "brute"}
       => Earned(conn[c])

LEMMA GuessingFinite ==
  \A s \in Sources :
    /\ IsFiniteSet(Guessing(s)) /\ Cardinality(Guessing(s)) \in Nat
    /\ \A c : /\ Cardinality(Guessing(s) \cup {c})
                   = IF c \in Guessing(s) THEN Cardinality(Guessing(s))
                     ELSE Cardinality(Guessing(s)) + 1
              /\ Cardinality(Guessing(s) \ {c})
                   = IF c \in Guessing(s) THEN Cardinality(Guessing(s)) - 1
                     ELSE Cardinality(Guessing(s))
  <1>1. \A s \in Sources : IsFiniteSet(Guessing(s))
    BY PopulationAssumption, FS_Subset DEF Guessing
  <1> QED
    BY <1>1, FS_CardinalityType, FS_AddElement, FS_RemoveElement

LEMMA InitEarned == Init => EarnInv
  <1> SUFFICES ASSUME Init PROVE EarnInv
    OBVIOUS
  <1>1. \A s \in Sources : Guessing(s) = {}
    BY DEF Init, Guessing, Closed
  <1>2. \A c \in Conns : conn[c].pc = "closed"
    BY DEF Init, Closed
  <1> QED
    BY <1>1, <1>2, FS_EmptySet DEF Init, EarnInv

LEMMA NextEarned == Typed /\ EarnInv /\ [Next]_vars => EarnInv'
  <1> SUFFICES ASSUME Typed, EarnInv, [Next]_vars PROVE EarnInv'
    OBVIOUS
  <1>t. \A c \in Conns : conn[c].from \in Sources /\ conn[c].cred \in Creds
    BY DEF Typed, Dialogues
  <1>n. \A s \in Sources : tries[s] \in Nat /\ guesses[s] \in 0..AfterTries /\ AfterTries \in Nat \ {0}
    BY PolicyAssumption DEF Typed
  \* A step that leaves the guesses of everyone as they are, and the table.
  <1>s. ASSUME NEW c \in Conns, Moves(c, conn'[c]),
               UNCHANGED <<tries, aged, accepted, guesses>>,
               conn[c].pc # "deciding", conn'[c].pc \notin {"deciding", "decided"},
               conn'[c].pc = "shell" => Earned(conn'[c])
        PROVE  EarnInv'
    <2>1. \A s \in Sources : Guessing(s)' = Guessing(s)
      BY <1>s DEF Guessing, Moves, Considered
    <2>2. \A e \in Conns :
            (\/ conn'[e].pc = "shell"
             \/ conn'[e].pc = "decided" /\ conn'[e].verdict \in {"accepted", "brute"})
            => Earned(conn[e])'
      BY <1>s DEF EarnInv, Moves, Earned
    <2> QED
      BY <1>s, <2>1, <2>2 DEF EarnInv
  <1>1. ASSUME NEW c \in Conns, NEW p \in Protos, NEW s \in Sources, Start(c, p, s) PROVE EarnInv'
    BY <1>s, <1>1, StartFacts DEF Start, policyVars
  <1>2. ASSUME NEW c \in Conns, OfferKey(c) \/ Hangup(c) PROVE EarnInv'
    BY <1>s, <1>2, EndFacts DEF policyVars
  <1>3. ASSUME NEW c \in Conns, Report(c) PROVE EarnInv'
    <2>1. UNCHANGED <<tries, aged, accepted, guesses>>
      BY <1>3 DEF Report, policyVars
    <2>2. conn'[c].pc = "shell" => Earned(conn'[c])
      BY <1>3, ReportFacts DEF EarnInv, Earned
    <2> QED
      BY <1>s, <1>3, <2>1, <2>2, ReportFacts
  <1>4. ASSUME NEW c \in Conns, NEW k \in Creds, Offer(c, k) PROVE EarnInv'
    <2>0. PICK s \in Sources : s = conn[c].from
      BY <1>t
    <2>1. /\ Moves(c, conn'[c]) /\ conn[c].pc = "prompt" /\ conn'[c].pc = "deciding"
          /\ conn'[c].cred = k /\ conn'[c].from = s
      BY <1>4, <2>0, OfferFacts
    <2>2. /\ guesses' = [guesses EXCEPT ![s] = IF Considered(k) THEN Bump(@) ELSE @]
          /\ UNCHANGED <<tries, aged, accepted>>
      BY <1>4, <2>0 DEF Offer, policyVars
    <2>3. \A t \in Sources \ {s} : Guessing(t)' = Guessing(t) /\ guesses'[t] = guesses[t]
      BY <2>0, <2>1, <2>2 DEF Guessing, Moves, Considered, Typed
    <2>4. guesses'[s] < AfterTries => tries[s] + Cardinality(Guessing(s)') <= guesses'[s]
      <3>1. CASE Considered(k)
        <4>1. c \notin Guessing(s) /\ Guessing(s)' = Guessing(s) \cup {c}
          BY <2>0, <2>1, <3>1 DEF Guessing, Moves, Considered
        <4>2. Cardinality(Guessing(s)') = Cardinality(Guessing(s)) + 1
              /\ Cardinality(Guessing(s)) \in Nat
          BY <4>1, GuessingFinite
        <4>3. guesses'[s] = Bump(guesses[s])
          BY <2>2, <3>1 DEF Typed
        <4> QED
          BY <1>n, <4>2, <4>3 DEF EarnInv, Bump
      <3>2. CASE ~Considered(k)
        <4>1. Guessing(s)' = Guessing(s) /\ guesses'[s] = guesses[s]
          BY <2>0, <2>1, <2>2, <3>2 DEF Guessing, Moves, Considered, Typed
        <4> QED
          BY <4>1 DEF EarnInv
      <3> QED
        BY <3>1, <3>2
    <2>5. \A t \in Sources : guesses[t] = AfterTries => guesses'[t] = AfterTries
      BY <1>n, <2>2 DEF Bump, Typed
    <2>6. \A t \in Sources :
            guesses'[t] < AfterTries => tries'[t] + Cardinality(Guessing(t)') <= guesses'[t]
      BY <2>2, <2>3, <2>4 DEF EarnInv
    <2>7. \A t \in Sources : accepted'[t] # {} => guesses'[t] = AfterTries /\ t \in aged'
      BY <2>2, <2>5 DEF EarnInv
    <2>8. \A e \in Conns :
            (\/ conn'[e].pc = "shell"
             \/ conn'[e].pc = "decided" /\ conn'[e].verdict \in {"accepted", "brute"})
            => Earned(conn[e])'
      BY <1>t, <2>1, <2>2, <2>5 DEF EarnInv, Moves, Earned
    <2> QED
      BY <2>6, <2>7, <2>8 DEF EarnInv
  \* A verdict: one dialogue less that waits for one.
  <1>v. ASSUME NEW c \in Conns, NEW s \in Sources, s = conn[c].from,
               Moves(c, conn'[c]), conn[c].pc = "deciding", conn'[c].pc = "decided",
               UNCHANGED <<aged, guesses>>,
               conn'[c].verdict \in {"accepted", "brute"} => Earned(conn'[c]),
               tries' \in [Sources -> Nat],
               \A t \in Sources \ {s} : tries'[t] = tries[t],
               tries'[s] <= tries[s] + IF Considered(conn[c].cred) THEN 1 ELSE 0,
               \A t \in Sources : accepted'[t] # {} => guesses[t] = AfterTries /\ t \in aged
        PROVE  EarnInv'
    <2>1. \A t \in Sources \ {s} : Guessing(t)' = Guessing(t)
      BY <1>v DEF Guessing, Moves, Considered
    <2>2. tries'[s] + Cardinality(Guessing(s)') <= tries[s] + Cardinality(Guessing(s))
          /\ Cardinality(Guessing(s)) \in Nat /\ Cardinality(Guessing(s)') \in Nat
      <3>0. Guessing(s)' = Guessing(s) \ {c}
        BY <1>v DEF Guessing, Moves, Considered
      <3>1. c \in Guessing(s) <=> Considered(conn[c].cred)
        BY <1>v DEF Guessing
      <3>2. Cardinality(Guessing(s)') = (IF Considered(conn[c].cred)
                                         THEN Cardinality(Guessing(s)) - 1
                                         ELSE Cardinality(Guessing(s)))
        BY <3>0, <3>1, GuessingFinite
      <3>3. Cardinality(Guessing(s)') \in Nat
        BY <3>0, GuessingFinite, FS_RemoveElement, FS_CardinalityType
      <3>4. Cardinality(Guessing(s)) \in Nat /\ tries[s] \in Nat /\ tries'[s] \in Nat
        BY <1>n, <1>v, GuessingFinite
      <3> QED
        BY <1>v, <3>2, <3>3, <3>4
    <2>3. \A t \in Sources :
            guesses'[t] < AfterTries => tries'[t] + Cardinality(Guessing(t)') <= guesses'[t]
      <3>1. guesses'[s] < AfterTries => tries'[s] + Cardinality(Guessing(s)') <= guesses'[s]
        BY <1>n, <1>v, <2>2 DEF EarnInv
      <3> QED
        BY <1>v, <2>1, <3>1 DEF EarnInv
    <2>4. \A e \in Conns :
            (\/ conn'[e].pc = "shell"
             \/ conn'[e].pc = "decided" /\ conn'[e].verdict \in {"accepted", "brute"})
            => Earned(conn[e])'
      BY <1>v DEF EarnInv, Moves, Earned
    <2> QED
      BY <1>v, <2>3, <2>4 DEF EarnInv
  <1>5. ASSUME NEW c \in Conns, NoCheck(c) PROVE EarnInv'
    <2>1. tries' \in [Sources -> Nat] /\ \A t \in Sources : accepted'[t] # {} => guesses[t] = AfterTries /\ t \in aged
      BY <1>n, <1>5, NoCheckFacts DEF EarnInv, Typed
    <2>2. tries'[conn[c].from] <= tries[conn[c].from] + IF Considered(conn[c].cred) THEN 1 ELSE 0
      BY <1>n, <1>t, <1>5, NoCheckFacts
    <2> QED
      BY <1>v, <1>t, <1>5, <2>1, <2>2, NoCheckFacts
  <1>6. ASSUME NEW c \in Conns, AcceptFrom(c) PROVE EarnInv'
    <2>0. PICK s \in Sources : s = conn[c].from
      BY <1>t
    <2>1. /\ Moves(c, conn'[c]) /\ conn[c].pc = "deciding" /\ conn'[c].pc = "decided"
          /\ UNCHANGED <<aged, guesses>>
          /\ conn'[c].from = s /\ conn'[c].cred = conn[c].cred
      BY <1>6, <2>0, AcceptFacts
    <2>2. CASE UNCHANGED <<table, tries, accepted>> /\ ~Remembered(c) /\ (Outright(c) \/ Untracked(c))
      <3>1. conn'[c].verdict \in {"accepted", "brute"} => Earned(conn'[c])
        <4>1. CASE Outright(c)
          BY <1>6, <2>1, <2>2, <4>1, AcceptFacts DEF Outright, Untracked, Cracks, Fails, Counted, Earned
        <4>2. CASE Untracked(c)
          BY <1>6, <2>2, <4>2, AcceptFacts DEF Outright, Untracked, Cracks, Fails, Counted
        <4> QED
          BY <2>2, <4>1, <4>2
      <3>2. /\ tries' \in [Sources -> Nat] /\ \A t \in Sources : accepted'[t] # {} => guesses[t] = AfterTries /\ t \in aged
            /\ tries'[s] <= tries[s] + IF Considered(conn[c].cred) THEN 1 ELSE 0
        BY <1>n, <2>2 DEF EarnInv, Typed
      <3> QED
        BY <1>v, <2>0, <2>1, <2>2, <3>1, <3>2
    <2>3. CASE UNCHANGED <<table, tries, accepted>> /\ Remembered(c)
      <3>1. Earned(conn'[c])
        BY <2>0, <2>1, <2>3 DEF Remembered, Considered, EarnInv, Earned
      <3>2. /\ tries' \in [Sources -> Nat] /\ \A t \in Sources : accepted'[t] # {} => guesses[t] = AfterTries /\ t \in aged
            /\ tries'[s] <= tries[s] + IF Considered(conn[c].cred) THEN 1 ELSE 0
        BY <1>n, <2>3 DEF EarnInv, Typed
      <3> QED
        BY <1>v, <2>0, <2>1, <2>3, <3>1, <3>2
    <2>4. ASSUME Counted(c)
          PROVE  /\ tries' \in [Sources -> Nat] /\ \A t \in Sources \ {s} : tries'[t] = tries[t]
                 /\ tries'[s] <= tries[s] + IF Considered(conn[c].cred) THEN 1 ELSE 0
                 /\ Considered(conn[c].cred)
      <3>1. /\ tries' \in [Sources -> 0..AfterTries]
            /\ \A t \in Sources \ {s} : tries'[t] = tries[t]
            /\ tries'[s] = Bump(tries[s]) /\ Considered(conn[c].cred)
        BY <2>0, <2>4, CountedFacts DEF Counted
      <3> QED
        BY <1>n, <3>1 DEF Bump
    <2>5. CASE Cracks(c)
      <3>1. Counted(c) /\ Eligible(c)
            /\ accepted' = [accepted EXCEPT ![s] = @ \cup {conn[c].cred}]
        BY <2>0, <2>5 DEF Cracks
      <3>2. guesses[s] = AfterTries /\ s \in aged
        <4>1. c \in Guessing(s)
          BY <2>0, <2>1, <2>4, <3>1 DEF Guessing
        <4>2. Cardinality(Guessing(s)) >= 1
          BY <4>1, GuessingFinite, FS_EmptySet
        <4>3. tries[s] + 1 >= AfterTries /\ s \in aged
          BY <1>n, <2>0, <3>1 DEF Eligible, Bump
        <4>4. ~(guesses[s] < AfterTries)
          BY <1>n, <4>2, <4>3, GuessingFinite DEF EarnInv
        <4> QED
          BY <1>n, <4>3, <4>4
      <3>3. \A t \in Sources : accepted'[t] # {} => guesses[t] = AfterTries /\ t \in aged
        BY <3>1, <3>2 DEF EarnInv, Typed
      <3>4. Earned(conn'[c])
        BY <2>0, <2>1, <2>4, <3>1, <3>2 DEF Earned, Considered
      <3> QED
        BY <1>v, <2>0, <2>1, <2>4, <3>1, <3>3, <3>4
    <2>6. CASE Fails(c) /\ conn'[c].verdict = "rejected"
      <3>1. Counted(c) /\ UNCHANGED accepted
        BY <2>6 DEF Fails
      <3>2. \A t \in Sources : accepted'[t] # {} => guesses[t] = AfterTries /\ t \in aged
        BY <3>1 DEF EarnInv
      <3> QED
        BY <1>v, <2>0, <2>1, <2>4, <2>6, <3>1, <3>2
    <2> QED
      BY <1>6, <2>2, <2>3, <2>5, <2>6, AcceptFacts
  <1>7. ASSUME NEW s \in Sources, Elapse(s) PROVE EarnInv'
    <2>1. UNCHANGED <<conn, tries, accepted, guesses>> /\ aged \subseteq aged'
      BY <1>7 DEF Elapse
    <2>2. \A t \in Sources : Guessing(t)' = Guessing(t)
      BY <2>1 DEF Guessing, Considered
    <2> QED
      BY <2>1, <2>2 DEF EarnInv, Earned
  <1>8. CASE UNCHANGED vars
    <2>1. \A t \in Sources : Guessing(t)' = Guessing(t)
      BY <1>8 DEF vars, Guessing, Considered
    <2> QED
      BY <1>8, <2>1 DEF vars, EarnInv, Earned
  <1> QED
    BY <1>1, <1>2, <1>3, <1>4, <1>5, <1>6, <1>7, <1>8 DEF Next, Dialogue

\* Nobody has a shell on another source's guesses, or before its own have
\* reached the threshold over the time the policy asks for.
THEOREM ShellsAreEarned == Spec => []ShellIsEarned
  <1>1. EarnInv => ShellIsEarned
    BY DEF EarnInv, Earned, ShellIsEarned
  <1> QED
    BY <1>1, InitTyped, NextTyped, InitEarned, NextEarned, PTL DEF Spec

-----------------------------------------------------------------------------
(* What cracked a source once.                                             *)

\* A brute-forced verdict, logged or about to be, is on record in the table.
MemoryInv ==
  /\ \A c \in Conns : conn[c].pc = "decided" /\ conn[c].verdict = "brute"
                        => conn[c].cred \in accepted[conn[c].from] /\ Considered(conn[c].cred)
  /\ \A s \in Sources, k \in Creds :
       <<s, k>> \in noted => k \in accepted[s] /\ Considered(k)

LEMMA InitMemory == Init => MemoryInv
  BY DEF Init, MemoryInv, Closed

\* Nothing that was accepted is forgotten.
LEMMA AcceptedGrows ==
  ASSUME Typed, [Next]_vars
  PROVE  \A s \in Sources : accepted[s] \subseteq accepted'[s]
  <1>1. ASSUME NEW c \in Conns, AcceptFrom(c) PROVE \A s \in Sources : accepted[s] \subseteq accepted'[s]
    <2>1. CASE Cracks(c)
      BY <2>1 DEF Cracks, Typed, Dialogues
    <2> QED
      BY <1>1, <2>1, AcceptFacts
  <1>2. ASSUME NEW c \in Conns,
               \/ \E p \in Protos, s \in Sources : Start(c, p, s)
               \/ \E k \in Creds : Offer(c, k)
               \/ OfferKey(c) \/ Hangup(c) \/ NoCheck(c) \/ Report(c)
        PROVE  accepted' = accepted
    BY <1>2 DEF Start, Offer, OfferKey, Hangup, NoCheck, Report, policyVars
  <1>3. ASSUME NEW s \in Sources, Elapse(s) PROVE accepted' = accepted
    BY <1>3 DEF Elapse
  <1> QED
    BY <1>1, <1>2, <1>3 DEF Next, Dialogue, vars

LEMMA NextMemory == Typed /\ MemoryInv /\ [Next]_vars => MemoryInv'
  <1> SUFFICES ASSUME Typed, MemoryInv, [Next]_vars PROVE MemoryInv'
    OBVIOUS
  <1>t. \A c \in Conns : conn[c].from \in Sources /\ conn[c].cred \in Creds
    BY DEF Typed, Dialogues
  <1>g. \A s \in Sources : accepted[s] \subseteq accepted'[s]
    BY AcceptedGrows
  <1>k. \A k : Considered(k)' = Considered(k)
    BY DEF Considered
  \* A move that takes no connection to a brute-forced verdict.
  <1>s. ASSUME NEW c \in Conns, Moves(c, conn'[c]), UNCHANGED noted,
               conn'[c].pc = "decided" => conn'[c].verdict # "brute"
        PROVE  MemoryInv'
    BY <1>s, <1>t, <1>g, <1>k DEF MemoryInv, Moves
  <1>1. ASSUME NEW c \in Conns, NEW p \in Protos, NEW s \in Sources, Start(c, p, s) PROVE MemoryInv'
    BY <1>s, <1>1, StartFacts DEF Start
  <1>2. ASSUME NEW c \in Conns, NEW k \in Creds, Offer(c, k) PROVE MemoryInv'
    BY <1>s, <1>2, OfferFacts DEF Offer
  <1>3. ASSUME NEW c \in Conns, OfferKey(c) \/ Hangup(c) PROVE MemoryInv'
    BY <1>s, <1>3, EndFacts
  <1>4. ASSUME NEW c \in Conns, NoCheck(c) PROVE MemoryInv'
    BY <1>s, <1>4, NoCheckFacts
  <1>5. ASSUME NEW c \in Conns, AcceptFrom(c) PROVE MemoryInv'
    <2>0. PICK s \in Sources : s = conn[c].from
      BY <1>t
    <2>1. /\ Moves(c, conn'[c]) /\ UNCHANGED noted
          /\ conn'[c].from = s /\ conn'[c].cred = conn[c].cred
      BY <1>5, <2>0, AcceptFacts
    <2>2. CASE conn'[c].verdict # "brute"
      BY <1>s, <2>1, <2>2
    <2>3. CASE Remembered(c) \/ Cracks(c)
      <3>1. conn[c].cred \in accepted'[s] /\ Considered(conn[c].cred)
        <4>1. CASE Remembered(c)
          BY <1>g, <2>0, <4>1 DEF Remembered
        <4>2. CASE Cracks(c)
          BY <2>0, <4>2 DEF Cracks, Counted, Typed
        <4> QED
          BY <2>3, <4>1, <4>2
      <3> QED
        BY <1>t, <1>g, <1>k, <2>1, <3>1 DEF MemoryInv, Moves
    <2> QED
      BY <1>5, <2>2, <2>3, AcceptFacts
  <1>6. ASSUME NEW c \in Conns, Report(c) PROVE MemoryInv'
    <2>1. /\ Moves(c, conn'[c]) /\ conn[c].pc = "decided" /\ conn'[c].pc # "decided"
          /\ noted' = IF conn[c].verdict = "brute"
                      THEN noted \cup {<<conn[c].from, conn[c].cred>>} ELSE noted
      BY <1>6, ReportFacts DEF Report
    <2>2. \A s \in Sources, k \in Creds :
            <<s, k>> \in noted' => k \in accepted'[s] /\ Considered(k)
      BY <1>t, <1>g, <2>1 DEF MemoryInv
    <2> QED
      BY <1>t, <1>g, <1>k, <2>1, <2>2 DEF MemoryInv, Moves
  <1>7. ASSUME NEW s \in Sources, Elapse(s) PROVE MemoryInv'
    BY <1>7, <1>k DEF Elapse, MemoryInv
  <1>8. CASE UNCHANGED vars
    BY <1>8, <1>k DEF vars, MemoryInv
  <1> QED
    BY <1>1, <1>2, <1>3, <1>4, <1>5, <1>6, <1>7, <1>8 DEF Next, Dialogue

\* A credential the log has called brute-forced goes on opening the door to
\* its source, over telnet and ssh alike.
THEOREM CracksLast == Spec => StaysCracked
  <1> DEFINE Lets == \A c \in Conns :
                       conn[c].pc = "deciding" /\ conn[c].proto \in {"telnet", "ssh"}
                         /\ <<conn[c].from, conn[c].cred>> \in noted /\ conn'[c].pc = "decided"
                       => conn'[c].verdict \in {"accepted", "brute"}
  <1>1. Typed /\ MemoryInv /\ [Next]_vars => [Lets]_vars
    <2> SUFFICES ASSUME Typed, MemoryInv, Next, NEW c \in Conns,
                        conn[c].pc = "deciding", conn[c].proto \in {"telnet", "ssh"},
                        <<conn[c].from, conn[c].cred>> \in noted, conn'[c].pc = "decided"
                 PROVE  conn'[c].verdict \in {"accepted", "brute"}
      OBVIOUS
    <2>1. conn[c].from \in Sources /\ conn[c].cred \in Creds
      BY DEF Typed, Dialogues
    <2>2. conn[c].cred \in accepted[conn[c].from] /\ Considered(conn[c].cred)
      BY <2>1 DEF MemoryInv
    <2>3. conn[c].from \in table
      BY <2>1, <2>2 DEF Typed
    <2>4. AcceptFrom(c)
      <3>1. ASSUME NEW d \in Conns, d # c, Moves(d, conn'[d]) PROVE FALSE
        BY <3>1 DEF Moves
      <3>2. ASSUME NEW d \in Conns,
                   \/ \E p \in Protos, s \in Sources : Start(d, p, s)
                   \/ \E k \in Creds : Offer(d, k)
                   \/ OfferKey(d) \/ Hangup(d) \/ NoCheck(d) \/ Report(d) \/ AcceptFrom(d)
            PROVE  Moves(d, conn'[d])
        BY <3>2, StartFacts, OfferFacts, EndFacts, NoCheckFacts, ReportFacts, AcceptFacts
      <3>3. ASSUME \/ \E p \in Protos, s \in Sources : Start(c, p, s)
                   \/ \E k \in Creds : Offer(c, k)
                   \/ OfferKey(c) \/ Hangup(c) \/ NoCheck(c) \/ Report(c)
            PROVE  FALSE
        BY <3>3 DEF Start, Offer, OfferKey, Hangup, NoCheck, Report
      <3>4. ASSUME NEW s \in Sources, Elapse(s) PROVE FALSE
        BY <3>4 DEF Elapse
      <3> QED
        BY <3>1, <3>2, <3>3, <3>4 DEF Next, Dialogue
    <2>5. ~Outright(c) /\ ~Untracked(c) /\ ~Cracks(c) /\ ~Fails(c)
      BY <2>2, <2>3 DEF Outright, Untracked, Cracks, Fails, Counted
    <2> QED
      BY <2>4, <2>5, AcceptFacts
  <1> QED
    BY <1>1, InitTyped, NextTyped, InitMemory, NextMemory, PTL DEF Spec, StaysCracked

============================================================================
