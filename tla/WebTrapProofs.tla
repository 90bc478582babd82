--------------------------- MODULE WebTrapProofs ---------------------------
(***************************************************************************)
(* Proofs about WebTrap, for any number of connections and sources and any *)
(* thresholds.                                                             *)
(***************************************************************************)
EXTENDS WebTrap, FiniteSetTheorems, TLAPS

-----------------------------------------------------------------------------
(* Type correctness.                                                       *)

LEMMA InitTyped == Init => TypeOK
  <1>1. NoSource \in Sources
    BY WebSetsAssumption DEF NoSource
  <1> QED
    BY <1>1, TrapAssumption DEF Init, TypeOK, Idle, Asks, Steps, Answers

LEMMA IdleTyped ==
  /\ Idle.pc = "idle" /\ Idle.asks = "page" /\ Idle.gets = "none"
  /\ Idle.src \in Sources
  BY WebSetsAssumption DEF Idle, NoSource

\* What To does to the requests.
LEMMA ToFacts ==
  ASSUME NEW c \in Conns, NEW pc \in Steps, NEW gets \in Answers,
         req \in [Conns -> [pc : Steps, src : Sources, asks : Asks, gets : Answers]],
         To(c, pc, gets)
  PROVE  /\ req' \in [Conns -> [pc : Steps, src : Sources, asks : Asks, gets : Answers]]
         /\ req'[c].pc = pc /\ req'[c].gets = gets
         /\ req'[c].src = req[c].src /\ req'[c].asks = req[c].asks
         /\ \A d \in Conns \ {c} : req'[d] = req[d]
  <1> DEFINE r == [[req[c] EXCEPT !.pc = pc] EXCEPT !.gets = gets]
  <1>1. req' = [req EXCEPT ![c] = r]
    BY DEF To
  <1>2. r \in [pc : Steps, src : Sources, asks : Asks, gets : Answers]
    OBVIOUS
  <1>3. r.pc = pc /\ r.gets = gets /\ r.src = req[c].src /\ r.asks = req[c].asks
    OBVIOUS
  <1> HIDE DEF r
  <1> QED
    BY <1>1, <1>2, <1>3

LEMMA NextTyped == TypeOK /\ [Next]_vars => TypeOK'
  <1> SUFFICES ASSUME TypeOK, [Next]_vars PROVE TypeOK'
    OBVIOUS
  <1> DEFINE Requests == [Conns -> [pc : Steps, src : Sources, asks : Asks, gets : Answers]]
  <1>0. \A c \in Conns : \A pc \in Steps, gets \in Answers : To(c, pc, gets) => req' \in Requests
    BY ToFacts DEF TypeOK
  <1>t. \A c \in Conns : req[c].src \in Sources /\ req[c].gets \in Answers
    BY DEF TypeOK
  <1>a. {"respond", "credential", "reveal", "token", "shell", "write"} \subseteq Steps
    BY DEF Steps
  <1>b. {"none", "refused", "accepted", "first", "deep"} \subseteq Answers
    BY DEF Answers
  <1>1. ASSUME NEW c \in Conns, NEW s \in Sources, NEW asks \in Asks, Request(c, s, asks)
        PROVE  TypeOK'
    BY <1>1, TrapAssumption DEF Request, TypeOK, Asks, Steps, Answers, UpTo, trapVars
  <1>2. ASSUME NEW c \in Conns, Template(c) PROVE TypeOK'
    BY <1>0, <1>a, <1>b, <1>2 DEF Template, TypeOK, trapVars, pastVars
  <1>3. ASSUME NEW c \in Conns, RunRCE(c) PROVE TypeOK'
    BY <1>0, <1>a, <1>b, <1>3 DEF RunRCE, TypeOK, trapVars, pastVars
  <1>4. ASSUME NEW c \in Conns, RCEReturns(c) \/ RCEPanics(c) PROVE TypeOK'
    BY <1>0, <1>a, <1>b, <1>4 DEF RCEReturns, RCEPanics, TypeOK, trapVars, pastVars
  <1>5. ASSUME NEW c \in Conns, wpLetIn(c) PROVE TypeOK'
    <2>1. CASE KeepsOut(c)
      <3>1. wpTries' \in [Sources -> 0..(BreakInAfter - 1)]
        BY <1>t, <2>1, TrapAssumption DEF KeepsOut, TypeOK
      <3> QED
        BY <1>0, <1>a, <1>b, <1>5, <2>1, <3>1 DEF wpLetIn, KeepsOut, TypeOK, pastVars
    <2>2. CASE BreaksIn(c)
      BY <1>0, <1>t, <1>a, <1>b, <1>5, <2>2, TrapAssumption DEF wpLetIn, BreaksIn, TypeOK, pastVars
    <2>3. CASE ComesBack(c)
      BY <1>0, <1>t, <1>a, <1>b, <1>5, <2>3 DEF wpLetIn, ComesBack, TypeOK, trapVars, pastVars
    <2> QED
      BY <1>5, <2>1, <2>2, <2>3 DEF wpLetIn
  <1>6. ASSUME NEW c \in Conns, LogCredential(c) PROVE TypeOK'
    BY <1>0, <1>t, <1>a, <1>6 DEF LogCredential, TypeOK, trapVars
  <1>7. ASSUME NEW c \in Conns, Bounce(c) PROVE TypeOK'
    BY <1>0, <1>a, <1>b, <1>7 DEF Bounce, TypeOK, trapVars, pastVars
  <1>8. ASSUME NEW c \in Conns, wpAdminReveal(c) PROVE TypeOK'
    BY <1>0, <1>t, <1>a, <1>b, <1>8, TrapAssumption DEF wpAdminReveal, depth, TypeOK, UpTo
  <1>9. ASSUME NEW c \in Conns, wpLogReveal(c) PROVE TypeOK'
    BY <1>0, <1>t, <1>a, <1>9 DEF wpLogReveal, TypeOK, pastVars
  <1>10. ASSUME NEW c \in Conns, LogHoneytoken(c) PROVE TypeOK'
    BY <1>0, <1>t, <1>a, <1>10 DEF LogHoneytoken, TypeOK, trapVars
  <1>11. ASSUME NEW c \in Conns, Write(c) PROVE TypeOK'
    <2>1. Idle \in [pc : Steps, src : Sources, asks : Asks, gets : Answers]
      BY IdleTyped DEF Idle, Steps, Asks, Answers
    <2> QED
      BY <1>11, <2>1 DEF Write, TypeOK, trapVars, pastVars
  <1>12. CASE UNCHANGED vars
    BY <1>12 DEF vars, TypeOK
  <1> QED
    BY <1>1, <1>2, <1>3, <1>4, <1>5, <1>6, <1>7, <1>8, <1>9, <1>10, <1>11, <1>12
       DEF Next, Respond

\* Every table entry and every request is well formed; in particular no
\* source has BreakInAfter or more tries on record, and no view is counted
\* past DeepAfter.
THEOREM WebTypeCorrect == Spec => []TypeOK
  BY InitTyped, NextTyped, PTL DEF Spec

\* A step of a request other than the ones that decide on the trap takes it
\* from where it was and promises it nothing it had not.
LEMMA PlainSteps ==
  ASSUME TypeOK, NEW c \in Conns,
         \/ Template(c) \/ RunRCE(c) \/ RCEReturns(c) \/ RCEPanics(c)
         \/ LogCredential(c) \/ wpLogReveal(c) \/ LogHoneytoken(c)
  PROVE  /\ req'[c].pc \in {"shell", "token", "write"}
         /\ req'[c].gets \in {"none", req[c].gets}
         /\ req'[c].src = req[c].src
         /\ \A d \in Conns \ {c} : req'[d] = req[d]
         /\ UNCHANGED <<wpBroken, wpAdminHits, firsts>>
  <1>1. \A pc \in Steps, gets \in Answers : To(c, pc, gets) =>
          /\ req'[c].pc = pc /\ req'[c].gets = gets /\ req'[c].src = req[c].src
          /\ \A d \in Conns \ {c} : req'[d] = req[d]
    BY ToFacts DEF TypeOK
  <1>2. req[c].gets \in Answers
    BY DEF TypeOK
  <1>3. CASE Template(c) \/ RunRCE(c) \/ RCEReturns(c) \/ RCEPanics(c)
    BY <1>1, <1>3 DEF Template, RunRCE, RCEReturns, RCEPanics, Steps, Answers, trapVars, pastVars
  <1>4. CASE LogCredential(c)
    BY <1>1, <1>2, <1>4 DEF LogCredential, Steps, trapVars
  <1>5. CASE wpLogReveal(c)
    BY <1>1, <1>2, <1>5 DEF wpLogReveal, Steps, pastVars
  <1>6. CASE LogHoneytoken(c)
    BY <1>1, <1>2, <1>6 DEF LogHoneytoken, Steps, trapVars
  <1> QED
    BY <1>3, <1>4, <1>5, <1>6

\* So does a step that decides on the trap, but for what it promises.
LEMMA DecidingSteps ==
  ASSUME TypeOK, NEW c \in Conns
  PROVE  /\ KeepsOut(c) \/ Bounce(c) =>
              req'[c].pc \in {"credential", "write"} /\ req'[c].gets = "refused"
         /\ BreaksIn(c) \/ ComesBack(c) =>
              req'[c].pc = "credential" /\ req'[c].gets = "accepted"
         /\ wpAdminReveal(c) => req'[c].pc = "reveal" /\ req'[c].gets = depth(req[c].src)
         /\ KeepsOut(c) \/ Bounce(c) \/ BreaksIn(c) \/ ComesBack(c) \/ wpAdminReveal(c) =>
              /\ req'[c].src = req[c].src
              /\ \A d \in Conns \ {c} : req'[d] = req[d]
  <1>1. \A pc \in Steps, gets \in Answers : To(c, pc, gets) =>
          /\ req'[c].pc = pc /\ req'[c].gets = gets /\ req'[c].src = req[c].src
          /\ \A d \in Conns \ {c} : req'[d] = req[d]
    BY ToFacts DEF TypeOK
  <1>2. depth(req[c].src) \in Answers
    BY DEF depth, Answers
  <1>3. KeepsOut(c) \/ Bounce(c) => To(c, "credential", "refused") \/ To(c, "write", "refused")
    BY DEF KeepsOut, Bounce
  <1>4. BreaksIn(c) \/ ComesBack(c) => To(c, "credential", "accepted")
    BY DEF BreaksIn, ComesBack
  <1>5. wpAdminReveal(c) => To(c, "reveal", depth(req[c].src))
    BY DEF wpAdminReveal
  <1> QED
    BY <1>1, <1>2, <1>3, <1>4, <1>5 DEF Steps, Answers

-----------------------------------------------------------------------------
(* The reveals.                                                            *)

\* The first reveals granted are what wpAdminHits has counted, up to the
\* threshold, and a deep one is in flight only beyond it.
RevealInv ==
  /\ \A s \in Sources :
       firsts[s] = IF wpAdminHits[s] = DeepAfter THEN DeepAfter - 1 ELSE wpAdminHits[s]
  /\ \A c \in Conns : req[c].gets = "deep" => wpAdminHits[req[c].src] = DeepAfter

LEMMA InitReveals == Init => RevealInv
  BY TrapAssumption DEF Init, RevealInv, Idle

LEMMA NextReveals == TypeOK /\ RevealInv /\ [Next]_vars => RevealInv'
  <1> SUFFICES ASSUME TypeOK, RevealInv, [Next]_vars PROVE RevealInv'
    OBVIOUS
  <1>1. ASSUME NEW c \in Conns, NEW s \in Sources, NEW asks \in Asks, Request(c, s, asks)
        PROVE  RevealInv'
    BY <1>1 DEF Request, TypeOK, RevealInv, trapVars
  <1>2. ASSUME NEW c \in Conns,
               \/ Template(c) \/ RunRCE(c) \/ RCEReturns(c) \/ RCEPanics(c)
               \/ LogCredential(c) \/ wpLogReveal(c) \/ LogHoneytoken(c)
        PROVE  RevealInv'
    <2>1. /\ req'[c].gets \in {"none", req[c].gets} /\ req'[c].src = req[c].src
          /\ \A d \in Conns \ {c} : req'[d] = req[d]
          /\ UNCHANGED <<wpAdminHits, firsts>>
      BY <1>2, PlainSteps
    <2> QED
      BY <2>1 DEF RevealInv
  <1>3. ASSUME NEW c \in Conns, wpLetIn(c) \/ Bounce(c) PROVE RevealInv'
    <2>1. /\ req'[c].gets \in {"refused", "accepted"}
          /\ \A d \in Conns \ {c} : req'[d] = req[d]
      BY <1>3, DecidingSteps DEF wpLetIn
    <2>2. UNCHANGED <<wpAdminHits, firsts>>
      BY <1>3 DEF wpLetIn, KeepsOut, BreaksIn, ComesBack, Bounce, trapVars, pastVars
    <2> QED
      BY <2>1, <2>2 DEF RevealInv
  <1>4. ASSUME NEW c \in Conns, wpAdminReveal(c) PROVE RevealInv'
    <2>0. PICK s \in Sources : s = req[c].src
      BY DEF TypeOK
    <2>1. /\ req'[c].gets = depth(s) /\ req'[c].src = s
          /\ \A d \in Conns \ {c} : req'[d] = req[d]
      BY <1>4, <2>0, DecidingSteps
    <2>2. /\ wpAdminHits' = [wpAdminHits EXCEPT ![s] = UpTo(@, DeepAfter)]
          /\ firsts' = IF depth(s) = "first" THEN [firsts EXCEPT ![s] = @ + 1] ELSE firsts
      BY <1>4, <2>0 DEF wpAdminReveal
    <2>3. /\ wpAdminHits \in [Sources -> 0..DeepAfter] /\ firsts \in [Sources -> Nat]
          /\ \A d \in Conns : req[d].src \in Sources
      BY DEF TypeOK
    <2>4. /\ wpAdminHits'[s] = IF wpAdminHits[s] < DeepAfter THEN wpAdminHits[s] + 1 ELSE DeepAfter
          /\ firsts'[s] = IF wpAdminHits[s] + 1 >= DeepAfter THEN firsts[s] ELSE firsts[s] + 1
          /\ \A t \in Sources \ {s} : wpAdminHits'[t] = wpAdminHits[t] /\ firsts'[t] = firsts[t]
      BY <2>2, <2>3, TrapAssumption DEF UpTo, depth
    <2>5. \A t \in Sources :
            firsts'[t] = IF wpAdminHits'[t] = DeepAfter THEN DeepAfter - 1 ELSE wpAdminHits'[t]
      BY <2>3, <2>4, TrapAssumption DEF RevealInv
    <2>6. req'[c].gets = "deep" => wpAdminHits'[s] = DeepAfter
      BY <2>1, <2>3, <2>4, TrapAssumption DEF depth
    <2>7. \A d \in Conns \ {c} : req'[d].gets = "deep" => wpAdminHits'[req'[d].src] = DeepAfter
      BY <2>1, <2>3, <2>4, TrapAssumption DEF RevealInv
    <2> QED
      BY <2>1, <2>5, <2>6, <2>7 DEF RevealInv
  <1>5. ASSUME NEW c \in Conns, Write(c) PROVE RevealInv'
    <2>1. /\ req'[c].gets = "none" /\ \A d \in Conns \ {c} : req'[d] = req[d]
          /\ UNCHANGED <<wpAdminHits, firsts>>
      BY <1>5, IdleTyped DEF Write, TypeOK, trapVars, pastVars
    <2> QED
      BY <2>1 DEF RevealInv
  <1>6. CASE UNCHANGED vars
    BY <1>6 DEF vars, RevealInv
  <1> QED
    BY <1>1, <1>2, <1>3, <1>4, <1>5, <1>6 DEF Next, Respond

\* However the views of a source overlap, it is granted the first reveal
\* DeepAfter - 1 times and then only the deep one.
THEOREM RevealsInOrder == Spec => []DeepIsEarned
  <1>1. TypeOK /\ RevealInv => DeepIsEarned
    BY TrapAssumption DEF TypeOK, RevealInv, DeepIsEarned
  <1> QED
    BY <1>1, InitTyped, NextTyped, InitReveals, NextReveals, PTL DEF Spec

-----------------------------------------------------------------------------
(* The door.                                                               *)

\* Whoever is, or is about to be, logged as accepted is in wpBroken, and a
\* request that waits for its answer has been promised none.
DoorInv ==
  /\ entered \subseteq wpBroken
  /\ \A c \in Conns :
       /\ req[c].pc = "credential" /\ req[c].gets = "accepted" => req[c].src \in wpBroken
       /\ req[c].pc = "respond" => req[c].gets = "none"

LEMMA InitDoor == Init => DoorInv
  BY DEF Init, DoorInv, Idle

LEMMA NextDoor ==
  TypeOK /\ DoorInv /\ [Next]_vars
    => /\ DoorInv'
       /\ \A d \in Conns : req[d].pc = "respond" /\ req[d].src \in entered
                             => req'[d].gets # "refused"
  <1> DEFINE Kept == /\ DoorInv'
                     /\ \A d \in Conns : req[d].pc = "respond" /\ req[d].src \in entered
                                           => req'[d].gets # "refused"
  <1> SUFFICES ASSUME TypeOK, DoorInv, [Next]_vars PROVE Kept
    OBVIOUS
  <1>1. ASSUME NEW c \in Conns, NEW s \in Sources, NEW asks \in Asks, Request(c, s, asks)
        PROVE  Kept
    <2>1. /\ req'[c].pc = "respond" /\ req'[c].gets = "none"
          /\ \A d \in Conns \ {c} : req'[d] = req[d]
          /\ UNCHANGED <<entered, wpBroken>>
      BY <1>1 DEF Request, TypeOK, trapVars
    <2> QED
      BY <2>1 DEF DoorInv
  <1>2. ASSUME NEW c \in Conns,
               \/ Template(c) \/ RunRCE(c) \/ RCEReturns(c) \/ RCEPanics(c)
               \/ wpLogReveal(c) \/ LogHoneytoken(c)
        PROVE  Kept
    <2>1. /\ req'[c].pc \in {"shell", "token", "write"} /\ req'[c].gets \in {"none", req[c].gets}
          /\ \A d \in Conns \ {c} : req'[d] = req[d]
      BY <1>2, PlainSteps
    <2>2. UNCHANGED <<entered, wpBroken>>
      BY <1>2 DEF Template, RunRCE, RCEReturns, RCEPanics, wpLogReveal, LogHoneytoken,
                  trapVars, pastVars
    <2> QED
      BY <2>1, <2>2 DEF DoorInv
  <1>3. ASSUME NEW c \in Conns, LogCredential(c) PROVE Kept
    <2>1. /\ req'[c].pc \in {"shell", "token", "write"}
          /\ \A d \in Conns \ {c} : req'[d] = req[d]
      BY <1>3, PlainSteps
    <2>2. /\ req[c].pc = "credential" /\ UNCHANGED wpBroken
          /\ entered' = IF req[c].gets = "accepted" THEN entered \cup {req[c].src} ELSE entered
      BY <1>3 DEF LogCredential, trapVars
    <2> QED
      BY <2>1, <2>2 DEF DoorInv
  <1>4. ASSUME NEW c \in Conns, wpLetIn(c) PROVE Kept
    <2>1. /\ req'[c].pc = "credential" /\ req'[c].src = req[c].src
          /\ \A d \in Conns \ {c} : req'[d] = req[d]
      <3>1. PICK gets \in Answers : To(c, "credential", gets)
        BY <1>4 DEF wpLetIn, KeepsOut, BreaksIn, ComesBack, Answers
      <3> QED
        BY <3>1, ToFacts DEF TypeOK, Steps
    <2>2. UNCHANGED entered /\ wpBroken \subseteq wpBroken'
      BY <1>4 DEF wpLetIn, KeepsOut, BreaksIn, ComesBack, trapVars, pastVars
    <2>3. CASE KeepsOut(c)
      <3>1. req'[c].gets = "refused" /\ req[c].src \notin wpBroken
        BY <2>3, DecidingSteps DEF KeepsOut
      <3> QED
        BY <2>1, <2>2, <3>1 DEF DoorInv
    <2>4. CASE BreaksIn(c) \/ ComesBack(c)
      <3>1. req'[c].gets = "accepted" /\ req[c].src \in wpBroken'
        BY <2>4, DecidingSteps DEF BreaksIn, ComesBack, trapVars
      <3> QED
        BY <2>1, <2>2, <3>1 DEF DoorInv
    <2> QED
      BY <1>4, <2>3, <2>4 DEF wpLetIn
  <1>5. ASSUME NEW c \in Conns, wpAdminReveal(c) PROVE Kept
    <2>1. /\ req'[c].pc = "reveal" /\ req'[c].gets \in {"first", "deep"}
          /\ \A d \in Conns \ {c} : req'[d] = req[d]
      BY <1>5, DecidingSteps DEF depth
    <2>2. UNCHANGED <<entered, wpBroken>>
      BY <1>5 DEF wpAdminReveal
    <2> QED
      BY <2>1, <2>2 DEF DoorInv
  <1>6. ASSUME NEW c \in Conns, Bounce(c) PROVE Kept
    <2>1. req[c].src \notin wpBroken /\ UNCHANGED <<entered, wpBroken>>
      BY <1>6 DEF Bounce, trapVars, pastVars
    <2>2. req'[c].pc \in {"credential", "write"} /\ req'[c].gets = "refused"
          /\ \A d \in Conns \ {c} : req'[d] = req[d]
      BY <1>6, DecidingSteps
    <2> QED
      BY <2>1, <2>2 DEF DoorInv
  <1>7. ASSUME NEW c \in Conns, Write(c) PROVE Kept
    <2>1. /\ req'[c].pc = "idle" /\ req'[c].gets = "none"
          /\ \A d \in Conns \ {c} : req'[d] = req[d]
          /\ UNCHANGED <<entered, wpBroken>>
      BY <1>7, IdleTyped DEF Write, TypeOK, trapVars, pastVars
    <2> QED
      BY <2>1 DEF DoorInv
  <1>8. CASE UNCHANGED vars
    BY <1>8 DEF vars, DoorInv
  <1> HIDE DEF Kept
  <1> QED
    BY <1>1, <1>2, <1>3, <1>4, <1>5, <1>6, <1>7, <1>8 DEF Next, Respond

\* A source the log has called accepted is never refused or bounced again.
THEOREM DoorNeverCloses == Spec => DoorStaysOpen
  <1>1. TypeOK /\ DoorInv /\ [Next]_vars
          => [\A c \in Conns : req[c].pc = "respond" /\ req[c].src \in entered
                                 => req'[c].gets # "refused"]_vars
    BY NextDoor
  <1>2. TypeOK /\ DoorInv /\ [Next]_vars => DoorInv'
    BY NextDoor
  <1> QED
    BY <1>1, <1>2, InitTyped, NextTyped, InitDoor, PTL DEF Spec, DoorStaysOpen

-----------------------------------------------------------------------------
(* The price of the door.                                                  *)

\* The login POSTs of a source that are logged and not decided yet.
Trying(s) == {c \in Conns : At(c, "respond", "login") /\ req[c].src = s}

\* While a source's POSTs are below the threshold, they pay for its tries and
\* for its requests under way; and a source that is in has paid in full.
WorkInv ==
  /\ \A s \in wpBroken : posts[s] = BreakInAfter /\ wpTries[s] = 0
  /\ \A s \in Sources : posts[s] < BreakInAfter
                          => wpTries[s] + Cardinality(Trying(s)) <= posts[s]
  /\ Cardinality(Tracked) <= TrackCap

LEMMA TryingFinite ==
  \A s \in Sources :
    /\ IsFiniteSet(Trying(s)) /\ Cardinality(Trying(s)) \in Nat
    /\ \A c : /\ Cardinality(Trying(s) \cup {c})
                   = IF c \in Trying(s) THEN Cardinality(Trying(s)) ELSE Cardinality(Trying(s)) + 1
              /\ Cardinality(Trying(s) \ {c})
                   = IF c \in Trying(s) THEN Cardinality(Trying(s)) - 1 ELSE Cardinality(Trying(s))
  <1>1. \A s \in Sources : IsFiniteSet(Trying(s))
    BY WebSetsAssumption, FS_Subset DEF Trying
  <1> QED
    BY <1>1, FS_CardinalityType, FS_AddElement, FS_RemoveElement

LEMMA TrackedFinite ==
  /\ IsFiniteSet(Tracked) /\ Cardinality(Tracked) \in Nat
  /\ \A s : /\ Cardinality(Tracked \cup {s})
                 = IF s \in Tracked THEN Cardinality(Tracked) ELSE Cardinality(Tracked) + 1
            /\ Cardinality(Tracked \ {s})
                 = IF s \in Tracked THEN Cardinality(Tracked) - 1 ELSE Cardinality(Tracked)
  <1>1. IsFiniteSet(Tracked)
    BY WebSetsAssumption, FS_Subset DEF Tracked
  <1> QED
    BY <1>1, FS_CardinalityType, FS_AddElement, FS_RemoveElement

LEMMA InitWork == Init => WorkInv
  <1> SUFFICES ASSUME Init PROVE WorkInv
    OBVIOUS
  <1>1. Tracked = {} /\ \A s \in Sources : Trying(s) = {}
    BY DEF Init, Tracked, Trying, At, Idle
  <1> QED
    BY <1>1, FS_EmptySet, TrapAssumption DEF Init, WorkInv

LEMMA NextWork == TypeOK /\ WorkInv /\ [Next]_vars => WorkInv'
  <1> SUFFICES ASSUME TypeOK, WorkInv, [Next]_vars PROVE WorkInv'
    OBVIOUS
  <1>0. \A c \in Conns : \A pc \in Steps, gets \in Answers : To(c, pc, gets) =>
          /\ req'[c].pc = pc /\ req'[c].src = req[c].src
          /\ \A d \in Conns \ {c} : req'[d] = req[d]
    BY ToFacts DEF TypeOK
  <1>t. \A c \in Conns : req[c].src \in Sources /\ req[c].gets \in Answers
    BY DEF TypeOK
  <1>s. ASSUME UNCHANGED <<wpTries, wpBroken, posts>>, \A s \in Sources : Trying(s)' = Trying(s)
        PROVE  WorkInv'
    BY <1>s DEF WorkInv, Tracked
  <1>1. ASSUME NEW c \in Conns, NEW s \in Sources, NEW asks \in Asks, Request(c, s, asks)
        PROVE  WorkInv'
    <2>1. CASE asks # "login"
      <3>1. \A t \in Sources : Trying(t)' = Trying(t)
        BY <1>1, <2>1 DEF Request, Trying, At, TypeOK
      <3> QED
        BY <1>s, <1>1, <2>1, <3>1 DEF Request, trapVars
    <2>2. CASE asks = "login"
      <3>1. c \notin Trying(s) /\ Trying(s)' = Trying(s) \cup {c}
        BY <1>1, <2>2 DEF Request, Trying, At, TypeOK
      <3>2. \A t \in Sources \ {s} : Trying(t)' = Trying(t)
        BY <1>1, <2>2 DEF Request, Trying, At, TypeOK
      <3>3. /\ posts' = [posts EXCEPT ![s] = UpTo(@, BreakInAfter)]
            /\ UNCHANGED <<wpTries, wpBroken>>
        BY <1>1, <2>2 DEF Request, trapVars
      <3>4. Cardinality(Trying(s)') = Cardinality(Trying(s)) + 1
        BY <3>1, TryingFinite
      <3>5. posts'[s] < BreakInAfter => wpTries'[s] + Cardinality(Trying(s)') <= posts'[s]
        BY <3>3, <3>4, TryingFinite, TrapAssumption DEF WorkInv, TypeOK, UpTo
      <3>6. \A t \in Sources \ {s} :
              posts'[t] < BreakInAfter => wpTries'[t] + Cardinality(Trying(t)') <= posts'[t]
        BY <3>2, <3>3 DEF WorkInv, TypeOK
      <3>7. \A t \in wpBroken' : posts'[t] = BreakInAfter /\ wpTries'[t] = 0
        BY <3>3, TrapAssumption DEF WorkInv, TypeOK, UpTo
      <3>8. Cardinality(Tracked)' <= TrackCap
        BY <3>3 DEF WorkInv, Tracked
      <3> QED
        BY <3>5, <3>6, <3>7, <3>8 DEF WorkInv
    <2> QED
      BY <2>1, <2>2
  <1>2. ASSUME NEW c \in Conns,
               \/ Template(c) \/ RunRCE(c) \/ RCEReturns(c) \/ RCEPanics(c) \/ LogCredential(c)
               \/ Bounce(c) \/ wpAdminReveal(c) \/ wpLogReveal(c) \/ LogHoneytoken(c) \/ Write(c)
        PROVE  WorkInv'
    <2>1. UNCHANGED <<wpTries, wpBroken, posts>>
      BY <1>2 DEF Template, RunRCE, RCEReturns, RCEPanics, LogCredential, Bounce, wpAdminReveal,
                  wpLogReveal, LogHoneytoken, Write, trapVars, pastVars
    <2>2. ~At(c, "respond", "login")
      BY <1>2 DEF At, Template, RunRCE, RCEReturns, RCEPanics, LogCredential, Bounce,
                  wpAdminReveal, wpLogReveal, LogHoneytoken, Write
    <2>3. /\ req'[c].pc # "respond"
          /\ \A d \in Conns \ {c} : req'[d] = req[d]
      <3>1. CASE Write(c)
        BY <3>1, IdleTyped DEF Write, TypeOK
      <3>2. CASE wpAdminReveal(c)
        BY <1>0, <3>2 DEF wpAdminReveal, depth, Steps, Answers
      <3>3. CASE LogCredential(c) \/ wpLogReveal(c) \/ LogHoneytoken(c)
        BY <1>0, <1>t, <3>3 DEF LogCredential, wpLogReveal, LogHoneytoken, Steps
      <3> QED
        BY <1>0, <1>2, <3>1, <3>2, <3>3
           DEF Template, RunRCE, RCEReturns, RCEPanics, Bounce, Steps, Answers
    <2>4. \A s \in Sources : Trying(s)' = Trying(s)
      BY <2>2, <2>3 DEF Trying, At
    <2> QED
      BY <1>s, <2>1, <2>4
  <1>3. ASSUME NEW c \in Conns, wpLetIn(c) PROVE WorkInv'
    <2>0. PICK s \in Sources : s = req[c].src
      BY <1>t
    <2>1. PICK gets \in Answers : To(c, "credential", gets)
      BY <1>3 DEF wpLetIn, KeepsOut, BreaksIn, ComesBack, Answers
    <2>2. req'[c].pc = "credential" /\ \A d \in Conns \ {c} : req'[d] = req[d]
      BY <1>0, <2>1 DEF Steps
    <2>3. c \in Trying(s) /\ Trying(s)' = Trying(s) \ {c}
      BY <2>0, <1>3, <2>2 DEF wpLetIn, Trying, At
    <2>4. \A t \in Sources \ {s} : Trying(t)' = Trying(t)
      BY <2>0, <1>3, <2>2 DEF wpLetIn, Trying, At
    <2>5. UNCHANGED posts
      BY <1>3 DEF wpLetIn, pastVars
    <2>6. Cardinality(Trying(s)') = Cardinality(Trying(s)) - 1 /\ Cardinality(Trying(s)) \in Nat
      BY <2>0, <2>3, TryingFinite
    <2>7. CASE UNCHANGED <<wpTries, wpBroken>>
      <3>1. posts'[s] < BreakInAfter => wpTries'[s] + Cardinality(Trying(s)') <= posts'[s]
        BY <2>0, <2>5, <2>6, <2>7, TrapAssumption DEF WorkInv, TypeOK
      <3> QED
        BY <2>0, <2>4, <2>5, <2>7, <3>1 DEF WorkInv, Tracked
    <2>8. CASE /\ s \notin wpBroken /\ UNCHANGED wpBroken
               /\ s \in Tracked \/ Cardinality(Tracked) < TrackCap
               /\ wpTries' = [wpTries EXCEPT ![s] = @ + 1]
      <3>1. posts'[s] < BreakInAfter => wpTries'[s] + Cardinality(Trying(s)') <= posts'[s]
        BY <2>0, <2>5, <2>6, <2>8, TrapAssumption DEF WorkInv, TypeOK
      <3>2. Tracked' = Tracked \cup {s}
        BY <2>0, <2>8 DEF Tracked, TypeOK
      <3>3. Cardinality(Tracked') <= TrackCap
        BY <2>8, <3>2, TrackedFinite, TrapAssumption DEF WorkInv
      <3>4. \A t \in wpBroken' : posts'[t] = BreakInAfter /\ wpTries'[t] = 0
        BY <2>5, <2>8 DEF WorkInv, TypeOK
      <3>5. \A t \in Sources \ {s} :
              posts'[t] < BreakInAfter => wpTries'[t] + Cardinality(Trying(t)') <= posts'[t]
        BY <2>4, <2>5, <2>8 DEF WorkInv, TypeOK
      <3> QED
        BY <3>1, <3>3, <3>4, <3>5 DEF WorkInv
    <2>9. CASE /\ wpTries[s] + 1 >= BreakInAfter
               /\ wpTries' = [wpTries EXCEPT ![s] = 0]
               /\ wpBroken' = wpBroken \cup {s}
      <3>1. Cardinality(Trying(s)) >= 1
        BY <2>0, <2>3, TryingFinite, FS_EmptySet
      <3>2. posts[s] = BreakInAfter
        BY <2>0, <2>9, <3>1, <2>6, TrapAssumption DEF WorkInv, TypeOK
      <3>3. Tracked' = Tracked \ {s}
        BY <2>0, <2>9 DEF Tracked, TypeOK
      <3>4. Cardinality(Tracked') <= TrackCap
        BY <3>3, TrackedFinite, TrapAssumption DEF WorkInv
      <3>5. \A t \in wpBroken' : posts'[t] = BreakInAfter /\ wpTries'[t] = 0
        BY <2>0, <2>5, <2>9, <3>2 DEF WorkInv, TypeOK
      <3>6. \A t \in Sources \ {s} :
              posts'[t] < BreakInAfter => wpTries'[t] + Cardinality(Trying(t)') <= posts'[t]
        BY <2>4, <2>5, <2>9 DEF WorkInv, TypeOK
      <3>7. ~(posts'[s] < BreakInAfter)
        BY <2>5, <3>2, TrapAssumption
      <3> QED
        BY <3>4, <3>5, <3>6, <3>7 DEF WorkInv
    <2> QED
      BY <1>3, <2>0, <2>7, <2>8, <2>9 DEF wpLetIn, KeepsOut, BreaksIn, ComesBack, trapVars
  <1>4. CASE UNCHANGED vars
    BY <1>s, <1>4 DEF vars, Trying, At
  <1> QED
    BY <1>1, <1>2, <1>3, <1>4 DEF Next, Respond

\* Nobody is let in for another's work, on any schedule: a source in wpBroken
\* has posted BreakInAfter logins of its own, and the table of tries stays
\* within its cap.
THEOREM EntryIsPaidFor == Spec => []WorkBeforeEntry
  <1>1. TypeOK /\ WorkInv => WorkBeforeEntry
    BY DEF TypeOK, WorkInv, WorkBeforeEntry, Tracked
  <1> QED
    BY <1>1, InitTyped, NextTyped, InitWork, NextWork, PTL DEF Spec

-----------------------------------------------------------------------------
(* The exploit bridge.                                                     *)

\* Output is captured only while the shell runs for its request.
CaptureInv == \A c \in capture : req[c].pc = "shell"

LEMMA NextCapture == TypeOK /\ CaptureInv /\ [Next]_vars => CaptureInv'
  <1> SUFFICES ASSUME TypeOK, CaptureInv, [Next]_vars PROVE CaptureInv'
    OBVIOUS
  <1>0. capture \subseteq Conns
    BY DEF TypeOK
  <1>1. ASSUME NEW c \in Conns, NEW s \in Sources, NEW asks \in Asks, Request(c, s, asks)
        PROVE  CaptureInv'
    <2>1. /\ req[c].pc = "idle" /\ UNCHANGED capture
          /\ \A d \in Conns \ {c} : req'[d] = req[d]
      BY <1>1 DEF Request, TypeOK
    <2> QED
      BY <1>0, <2>1 DEF CaptureInv
  <1>2. ASSUME NEW c \in Conns, Template(c) \/ LogCredential(c) \/ wpLogReveal(c) \/ LogHoneytoken(c)
        PROVE  CaptureInv'
    <2>1. req[c].pc # "shell" /\ UNCHANGED capture
      BY <1>2 DEF Template, LogCredential, wpLogReveal, LogHoneytoken, At
    <2>2. \A d \in Conns \ {c} : req'[d] = req[d]
      BY <1>2, PlainSteps
    <2> QED
      BY <1>0, <2>1, <2>2 DEF CaptureInv
  <1>3. ASSUME NEW c \in Conns, RunRCE(c) PROVE CaptureInv'
    <2>1. capture' = capture \cup {c} /\ To(c, "shell", "none")
      BY <1>3 DEF RunRCE
    <2>2. req'[c].pc = "shell" /\ \A d \in Conns \ {c} : req'[d] = req[d]
      BY <2>1, ToFacts DEF TypeOK, Steps, Answers
    <2> QED
      BY <1>0, <2>1, <2>2 DEF CaptureInv
  <1>4. ASSUME NEW c \in Conns, RCEReturns(c) \/ RCEPanics(c) PROVE CaptureInv'
    <2>1. capture' = capture \ {c}
      BY <1>4 DEF RCEReturns, RCEPanics
    <2>2. \A d \in Conns \ {c} : req'[d] = req[d]
      BY <1>4, PlainSteps
    <2> QED
      BY <1>0, <2>1, <2>2 DEF CaptureInv
  <1>5. ASSUME NEW c \in Conns, wpLetIn(c) \/ Bounce(c) \/ wpAdminReveal(c) PROVE CaptureInv'
    <2>1. req[c].pc = "respond" /\ UNCHANGED capture
      BY <1>5 DEF wpLetIn, Bounce, wpAdminReveal, At
    <2>2. \A d \in Conns \ {c} : req'[d] = req[d]
      BY <1>5, DecidingSteps DEF wpLetIn
    <2> QED
      BY <1>0, <2>1, <2>2 DEF CaptureInv
  <1>6. ASSUME NEW c \in Conns, Write(c) PROVE CaptureInv'
    <2>1. /\ req[c].pc = "write" /\ UNCHANGED capture
          /\ \A d \in Conns \ {c} : req'[d] = req[d]
      BY <1>6 DEF Write, TypeOK
    <2> QED
      BY <1>0, <2>1 DEF CaptureInv
  <1>7. CASE UNCHANGED vars
    BY <1>7 DEF vars, CaptureInv
  <1> QED
    BY <1>1, <1>2, <1>3, <1>4, <1>5, <1>6, <1>7 DEF Next, Respond

\* However the injected command ended, its panic included, the response of
\* Handle goes to the connection and not into the buffer of CaptureOutput.
THEOREM ResponsesReachWire == Spec => []ResponseReachesWire
  <1>1. Init => CaptureInv
    BY DEF Init, CaptureInv
  <1>2. CaptureInv => ResponseReachesWire
    BY DEF CaptureInv, ResponseReachesWire
  <1> QED
    BY <1>1, <1>2, InitTyped, NextTyped, NextCapture, PTL DEF Spec

-----------------------------------------------------------------------------
(* The honeytoken.                                                         *)

\* The requests of a source that are to log its honeytoken.
Telling(s) == {c \in Conns : req[c].pc = "token" /\ req[c].src = s}

\* A source's mark in wpRevealLogged stands for one event, logged or in the
\* hands of one request; and nobody carries a reveal past wpLogReveal without
\* the mark.
TokenInv ==
  /\ \A s \in Sources :
       tokens[s] + Cardinality(Telling(s)) = IF s \in wpRevealLogged THEN 1 ELSE 0
  /\ \A c \in Conns :
       /\ req[c].pc \in {"write", "token"} /\ req[c].gets \in {"first", "deep"}
            => req[c].src \in wpRevealLogged
       /\ req[c].pc = "credential" => req[c].gets \in {"refused", "accepted"}

LEMMA TellingFinite ==
  \A s \in Sources :
    /\ IsFiniteSet(Telling(s)) /\ Cardinality(Telling(s)) \in Nat
    /\ \A c : /\ Cardinality(Telling(s) \cup {c})
                   = IF c \in Telling(s) THEN Cardinality(Telling(s)) ELSE Cardinality(Telling(s)) + 1
              /\ Cardinality(Telling(s) \ {c})
                   = IF c \in Telling(s) THEN Cardinality(Telling(s)) - 1 ELSE Cardinality(Telling(s))
  <1>1. \A s \in Sources : IsFiniteSet(Telling(s))
    BY WebSetsAssumption, FS_Subset DEF Telling
  <1> QED
    BY <1>1, FS_CardinalityType, FS_AddElement, FS_RemoveElement

LEMMA InitTokens == Init => TokenInv
  <1> SUFFICES ASSUME Init PROVE TokenInv
    OBVIOUS
  <1>1. \A s \in Sources : Telling(s) = {}
    BY DEF Init, Telling, Idle
  <1> QED
    BY <1>1, FS_EmptySet DEF Init, TokenInv, Idle

LEMMA NextTokens == TypeOK /\ TokenInv /\ [Next]_vars => TokenInv'
  <1> SUFFICES ASSUME TypeOK, TokenInv, [Next]_vars PROVE TokenInv'
    OBVIOUS
  <1>t. \A c \in Conns : req[c].src \in Sources /\ req[c].gets \in Answers
    BY DEF TypeOK
  <1>0. \A c \in Conns : \A pc \in Steps, gets \in Answers : To(c, pc, gets) =>
          /\ req'[c].pc = pc /\ req'[c].gets = gets /\ req'[c].src = req[c].src
          /\ \A d \in Conns \ {c} : req'[d] = req[d]
    BY ToFacts DEF TypeOK
  <1>s. ASSUME NEW c \in Conns, req[c].pc # "token", req'[c].pc # "token",
               \A d \in Conns \ {c} : req'[d] = req[d],
               UNCHANGED <<tokens, wpRevealLogged>>,
               req'[c].pc = "write" => req'[c].gets \notin {"first", "deep"},
               req'[c].pc = "credential" => req'[c].gets \in {"refused", "accepted"}
        PROVE  TokenInv'
    <2>1. \A s \in Sources : Telling(s)' = Telling(s)
      BY <1>s DEF Telling
    <2> QED
      BY <1>s, <2>1 DEF TokenInv
  <1>1. ASSUME NEW c \in Conns, NEW s \in Sources, NEW asks \in Asks, Request(c, s, asks)
        PROVE  TokenInv'
    <2>1. /\ req[c].pc = "idle" /\ req'[c].pc = "respond"
          /\ \A d \in Conns \ {c} : req'[d] = req[d]
          /\ UNCHANGED <<tokens, wpRevealLogged>>
      BY <1>1 DEF Request, TypeOK, trapVars
    <2> QED
      BY <1>s, <2>1
  <1>2. ASSUME NEW c \in Conns, Template(c) \/ RunRCE(c) \/ RCEReturns(c) \/ RCEPanics(c)
        PROVE  TokenInv'
    <2>1. req[c].pc \in {"respond", "shell"} /\ UNCHANGED <<tokens, wpRevealLogged>>
      BY <1>2 DEF Template, RunRCE, RCEReturns, RCEPanics, At, trapVars, pastVars
    <2>2. To(c, "write", "none") \/ To(c, "shell", "none")
      BY <1>2 DEF Template, RunRCE, RCEReturns, RCEPanics
    <2>3. /\ req'[c].pc \in {"write", "shell"} /\ req'[c].gets = "none"
          /\ \A d \in Conns \ {c} : req'[d] = req[d]
      BY <1>0, <2>2 DEF Steps, Answers
    <2> QED
      BY <1>s, <2>1, <2>3
  <1>3. ASSUME NEW c \in Conns, LogCredential(c) PROVE TokenInv'
    <2>1. /\ req[c].pc = "credential" /\ UNCHANGED <<tokens, wpRevealLogged>>
          /\ To(c, "write", req[c].gets)
      BY <1>3 DEF LogCredential, trapVars
    <2>2. /\ req'[c].pc = "write" /\ req'[c].gets = req[c].gets
          /\ \A d \in Conns \ {c} : req'[d] = req[d]
      BY <1>0, <1>t, <2>1 DEF Steps
    <2>3. req[c].gets \in {"refused", "accepted"}
      BY <2>1 DEF TokenInv
    <2> QED
      BY <1>s, <2>1, <2>2, <2>3
  <1>4. ASSUME NEW c \in Conns, wpLetIn(c) \/ Bounce(c) \/ wpAdminReveal(c) PROVE TokenInv'
    <2>1. req[c].pc = "respond" /\ UNCHANGED <<tokens, wpRevealLogged>>
      BY <1>4 DEF wpLetIn, KeepsOut, BreaksIn, ComesBack, Bounce, wpAdminReveal, At,
                  trapVars, pastVars
    <2>2. /\ req'[c].pc \in {"credential", "reveal", "write"}
          /\ req'[c].pc \in {"credential", "write"} => req'[c].gets \in {"refused", "accepted"}
          /\ \A d \in Conns \ {c} : req'[d] = req[d]
      BY <1>4, DecidingSteps DEF wpLetIn
    <2> QED
      BY <1>s, <2>1, <2>2
  <1>5. ASSUME NEW c \in Conns, wpLogReveal(c) PROVE TokenInv'
    <2>0. PICK s \in Sources : s = req[c].src
      BY <1>t
    <2>1. /\ req[c].pc = "reveal" /\ UNCHANGED tokens
          /\ wpRevealLogged' = wpRevealLogged \cup {s}
          /\ To(c, IF s \in wpRevealLogged THEN "write" ELSE "token", req[c].gets)
      BY <1>5, <2>0 DEF wpLogReveal, pastVars
    <2>2. /\ req'[c].pc = IF s \in wpRevealLogged THEN "write" ELSE "token"
          /\ req'[c].gets = req[c].gets /\ req'[c].src = s
          /\ \A d \in Conns \ {c} : req'[d] = req[d]
      BY <1>0, <1>t, <2>0, <2>1 DEF Steps
    <2>3. \A t \in Sources \ {s} : Telling(t)' = Telling(t)
      BY <2>0, <2>1, <2>2 DEF Telling
    <2>4. tokens'[s] + Cardinality(Telling(s)') = 1
      <3>1. CASE s \in wpRevealLogged
        <4>1. Telling(s)' = Telling(s)
          BY <2>0, <2>1, <2>2, <3>1 DEF Telling
        <4> QED
          BY <2>0, <2>1, <3>1, <4>1 DEF TokenInv
      <3>2. CASE s \notin wpRevealLogged
        <4>1. c \notin Telling(s) /\ Telling(s)' = Telling(s) \cup {c}
          BY <2>0, <2>1, <2>2, <3>2 DEF Telling
        <4>2. Cardinality(Telling(s)') = Cardinality(Telling(s)) + 1
          BY <2>0, <4>1, TellingFinite
        <4>3. tokens[s] + Cardinality(Telling(s)) = 0 /\ tokens[s] \in Nat
          BY <2>0, <3>2 DEF TokenInv, TypeOK
        <4> QED
          BY <2>0, <2>1, <4>2, <4>3, TellingFinite
      <3> QED
        BY <3>1, <3>2
    <2>5. \A t \in Sources :
            tokens'[t] + Cardinality(Telling(t)') = IF t \in wpRevealLogged' THEN 1 ELSE 0
      BY <2>1, <2>3, <2>4 DEF TokenInv
    <2>6. \A d \in Conns :
            /\ req'[d].pc \in {"write", "token"} /\ req'[d].gets \in {"first", "deep"}
                 => req'[d].src \in wpRevealLogged'
            /\ req'[d].pc = "credential" => req'[d].gets \in {"refused", "accepted"}
      BY <2>1, <2>2 DEF TokenInv
    <2> QED
      BY <2>5, <2>6 DEF TokenInv
  <1>6. ASSUME NEW c \in Conns, LogHoneytoken(c) PROVE TokenInv'
    <2>0. PICK s \in Sources : s = req[c].src
      BY <1>t
    <2>1. /\ req[c].pc = "token" /\ UNCHANGED wpRevealLogged
          /\ tokens' = [tokens EXCEPT ![s] = @ + 1]
          /\ To(c, "write", req[c].gets)
      BY <1>6, <2>0 DEF LogHoneytoken, trapVars
    <2>2. /\ req'[c].pc = "write" /\ req'[c].gets = req[c].gets /\ req'[c].src = s
          /\ \A d \in Conns \ {c} : req'[d] = req[d]
      BY <1>0, <1>t, <2>0, <2>1 DEF Steps
    <2>3. c \in Telling(s) /\ Telling(s)' = Telling(s) \ {c}
      BY <2>0, <2>1, <2>2 DEF Telling
    <2>4. \A t \in Sources \ {s} : Telling(t)' = Telling(t)
      BY <2>0, <2>1, <2>2 DEF Telling
    <2>5. Cardinality(Telling(s)') = Cardinality(Telling(s)) - 1
      BY <2>0, <2>3, TellingFinite
    <2>6. tokens'[s] + Cardinality(Telling(s)') = tokens[s] + Cardinality(Telling(s))
      BY <2>0, <2>1, <2>5, TellingFinite DEF TypeOK
    <2>7. \A t \in Sources \ {s} : tokens'[t] = tokens[t]
      BY <2>1 DEF TypeOK
    <2>8. \A t \in Sources :
            tokens'[t] + Cardinality(Telling(t)') = IF t \in wpRevealLogged' THEN 1 ELSE 0
      BY <2>0, <2>1, <2>4, <2>6, <2>7 DEF TokenInv
    <2>9. \A d \in Conns :
            /\ req'[d].pc \in {"write", "token"} /\ req'[d].gets \in {"first", "deep"}
                 => req'[d].src \in wpRevealLogged'
            /\ req'[d].pc = "credential" => req'[d].gets \in {"refused", "accepted"}
      BY <2>0, <2>1, <2>2 DEF TokenInv
    <2> QED
      BY <2>8, <2>9 DEF TokenInv
  <1>7. ASSUME NEW c \in Conns, Write(c) PROVE TokenInv'
    <2>1. /\ req[c].pc = "write" /\ req'[c].pc = "idle"
          /\ \A d \in Conns \ {c} : req'[d] = req[d]
          /\ UNCHANGED <<tokens, wpRevealLogged>>
      BY <1>7, IdleTyped DEF Write, TypeOK, trapVars, pastVars
    <2> QED
      BY <1>s, <2>1
  <1>8. CASE UNCHANGED vars
    BY <1>8 DEF vars, TokenInv, Telling
  <1> QED
    BY <1>1, <1>2, <1>3, <1>4, <1>5, <1>6, <1>7, <1>8 DEF Next, Respond

\* However the views of a source overlap, its honeytoken is logged once, and
\* no reveal goes out before one request has taken it on to log it.
THEOREM HoneytokenLoggedOnce == Spec => []HoneytokenOnce
  <1>1. TokenInv => HoneytokenOnce
    BY DEF TokenInv, HoneytokenOnce, Telling
  <1> QED
    BY <1>1, InitTyped, NextTyped, InitTokens, NextTokens, PTL DEF Spec

============================================================================
