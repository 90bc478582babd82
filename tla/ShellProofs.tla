---------------------------- MODULE ShellProofs ----------------------------
(***************************************************************************)
(* Proofs about Shell, for any lines, depth, budgets and number of panics. *)
(* The work is in the shape of the stack k: which frames follow which,     *)
(* which shell a frame belongs to, and that the programs' scripts contain  *)
(* no frame that ends a call.  What a line's statements and words are is   *)
(* not needed.                                                             *)
(***************************************************************************)
EXTENDS Shell, FiniteSetTheorems, SequenceTheorems, WellFoundedInduction, TLAPS

-----------------------------------------------------------------------------
(* Values and frames.                                                      *)

\* A sequence, of whatever.
IsStack(s) == \E S : s \in Seq(S)

Vals(a) == IsStack(a) /\ \A i \in DOMAIN a : a[i].len \in Nat

RegOK(r) ==
  /\ r = [args |-> r.args, stdin |-> r.stdin, out |-> r.out, code |-> r.code]
  /\ Vals(r.args) /\ r.stdin.len \in Nat /\ r.out.len \in Nat /\ r.code \in 0..255

\* The effects that end with themselves.
Effects == {"say", "slow", "pause", "log", "save", "touch", "copy", "erase", "cron", "quit",
            "return", "returnLast", "output", "echo", "pass", "line", "command", "secret",
            "decode", "idle", "walk"}

Flat(f) ==
  /\ f.do \in Effects
  /\ f.do \in {"return", "output"} => f.code \in 0..255
  /\ f.do = "idle" => f.min \in {5, 10}
  /\ f.do = "walk" => f.count \in 0..(MaxFind + 1)

\* What is typed at a prompt that hides it is logged: after the Secret come
\* only writes and further prompts, and then the event.
LogsIt(f) == f.do = "log" /\ f.ev \in {"CREDENTIAL", "COMMAND"}
Told(s) ==
  \A i \in DOMAIN s : s[i].do = "secret" =>
    \E j \in DOMAIN s : /\ j > i /\ LogsIt(s[j])
                        /\ \A h \in i..(j - 1) : s[h].do \in {"say", "secret"}

\* The scripts of the programs: their branches are at most two deep, and only
\* where a host can be reached there is a pivot.
Script0(s) == IsStack(s) /\ Told(s) /\ \A i \in DOMAIN s : Flat(s[i])
Pivots(s) == IsStack(s) /\ Told(s) /\ \A i \in DOMAIN s : Flat(s[i]) \/ s[i].do = "pivot"

Branch0(f) ==
  \/ f.do = "ask" /\ Script0(f.yes) /\ Script0(f.no) /\ Script0(f.none)
  \/ f.do = "edit" /\ Script0(f.saved) /\ Script0(f.left)
  \/ f.do \in {"ifFile", "ifFull"} /\ Script0(f.then) /\ Script0(f.else)
  \/ f.do = "ifPivot" /\ Pivots(f.then) /\ Script0(f.else)
  \/ f.do = "either" /\ Script0(f.alts[1]) /\ Script0(f.alts[2])
Script1(s) == IsStack(s) /\ Told(s) /\ \A i \in DOMAIN s : Flat(s[i]) \/ Branch0(s[i])

Branch1(f) ==
  \/ f.do = "ask" /\ Script1(f.yes) /\ Script1(f.no) /\ Script1(f.none)
  \/ f.do = "edit" /\ Script1(f.saved) /\ Script1(f.left)
  \/ f.do \in {"ifFile", "ifFull"} /\ Script1(f.then) /\ Script1(f.else)
  \/ f.do = "ifPivot" /\ Pivots(f.then) /\ Script1(f.else)
  \/ f.do = "either" /\ Script1(f.alts[1]) /\ Script1(f.alts[2])
Script(s) == IsStack(s) /\ Told(s) /\ \A i \in DOMAIN s : Flat(s[i]) \/ Branch1(s[i])

\* Frames that end a call, and the frames of the interpreter that do not.
Marks == {"endLine", "endShell", "endCapture", "endOutput", "loop"}
Control == {"stmts", "chain", "toArgs", "toEnv", "toWord", "assigns", "interactive", "single",
            "pipe", "stage", "emit", "feed", "setLast"}

FrameOK(f) ==
  \/ Flat(f) \/ Branch1(f)
  \/ f.do \in {"pivot", "endLine", "endShell", "endOutput", "loop"} \cup Control
  \/ f.do = "lastIs" /\ f.code \in 0..255
  \/ f.do = "expand" /\ f = [do |-> "expand", words |-> f.words, acc |-> f.acc] /\ Vals(f.acc)
  \/ f.do = "endCapture" /\ RegOK(f.reg) /\ f.cap \in BOOLEAN /\ f.buf.len \in Nat

\* Which frame may be followed by which.
Fits(f, g) ==
  /\ f.do = "expand" => g.do \in {"toArgs", "toEnv", "toWord"}
  /\ f.do \in {"toWord", "endCapture"} => g.do = "expand"
  /\ f.do \in {"loop", "endOutput"} => g.do = "endShell"
  /\ g.do = "endCapture" => f.do \in {"endLine", "line"}

\* The stack: a substitution's line that is not begun yet is on top.
Shape(s) ==
  /\ IsStack(s) /\ Told(s)
  /\ \A i \in DOMAIN s : FrameOK(s[i])
  /\ \A i \in DOMAIN s : i < Len(s) => Fits(s[i], s[i + 1])
  /\ s # <<>> => s[Len(s)].do = "endShell"
  /\ \A i \in DOMAIN s : s[i].do = "endOutput" => i = Len(s) - 1
  /\ \A i \in DOMAIN s : i > 2 /\ s[i].do = "endCapture" => s[i - 1].do # "line"

-----------------------------------------------------------------------------
(* The shells and their frames.                                            *)

\* Owner of Shell, in the stack s.
OwnerIn(s, i) == Cardinality({j \in DOMAIN s : s[j].do = "endShell" /\ j >= i})
Lines(s, m) == {i \in DOMAIN s : s[i].do = "endLine" /\ OwnerIn(s, i) = m}

ShellOK(me) ==
  /\ me = [last |-> me.last, quit |-> me.quit, depth |-> me.depth, budget |-> me.budget,
           subs |-> me.subs, cap |-> me.cap, buf |-> me.buf, hop |-> me.hop,
           cron |-> me.cron, env |-> me.env, files |-> me.files,
           taken |-> me.taken, ran |-> me.ran]
  /\ me.last \in 0..255 /\ me.depth \in 0..MaxDepth /\ me.budget \in 0..MaxExpand
  /\ me.taken \in Nat /\ me.taken + me.budget <= MaxExpand
  /\ me.subs \in Nat /\ me.ran \in Nat /\ me.ran <= me.subs /\ me.ran <= MaxSubs
  /\ me.cap \in BOOLEAN /\ me.buf.len \in Nat
  /\ DOMAIN me.env = Vars /\ \A x \in Vars : me.env[x].len \in Nat
  /\ DOMAIN me.files = Files
  /\ \A f \in Files : me.files[f].len \in Int /\ me.files[f].len >= -1

\* Frame i runs in a line of its shell.
InLine(s, i) == \E j \in DOMAIN s : j > i /\ s[j].do = "endLine" /\ OwnerIn(s, j) = OwnerIn(s, i)

\* Output of shell m is diverted by a substitution that has not ended.
Diverted(s, m, i) == \E j \in DOMAIN s : j > i /\ s[j].do = "endCapture" /\ OwnerIn(s, j) = m

\* Frames that run outside a line, too.
Outside == {"loop", "endLine", "endShell", "endOutput", "idle", "slow", "say"}

\* A line outside another one is on top, and nothing was expanded for it yet.
Fresher(s, m, i) == i = 1 /\ s[i].do = "line" /\ m[Len(m)].taken = 0 /\ m[Len(m)].ran = 0

Shells(s, m) ==
  /\ IsStack(m) /\ Len(m) = OwnerIn(s, 1) /\ Len(m) <= 2
  /\ \A i \in DOMAIN m : /\ ShellOK(m[i]) /\ m[i].hop = (i = 1)
                         /\ m[i].depth = Cardinality(Lines(s, i))
                         /\ m[i].cap => Diverted(s, i, 0)
  /\ \A i \in DOMAIN s :
       /\ s[i].do = "pivot" => OwnerIn(s, i) = 1
       /\ s[i].do = "endCapture" /\ s[i].cap => Diverted(s, OwnerIn(s, i), i)
       /\ s[i].do \notin Outside => InLine(s, i) \/ Fresher(s, m, i)

\* The session: a bridge captures until nothing is left to run.
IoOK == io = [alive |-> io.alive, cap |-> io.cap, idle |-> io.idle, wire |-> io.wire,
              slept |-> io.slept, waited |-> io.waited, owed |-> io.owed]
        /\ io.idle \in {5, 10}
Bridged == mode = "bridge" => /\ ~io.wire /\ ~io.slept /\ ~io.waited
                              /\ io.cap \/ \A i \in DOMAIN k : k[i].do = "endShell"
Owes == panics = 0 /\ io.owed => \E j \in DOMAIN k : /\ LogsIt(k[j])
                                                     /\ \A h \in 1..(j - 1) : k[h].do \in {"say", "secret"}

Inv ==
  /\ mode \in {"terminal", "exec", "bridge"} /\ panics \in Nat
  /\ Shape(k) /\ RegOK(reg) /\ Shells(k, sh)
  /\ held = Len(sh) /\ IoOK /\ Bridged /\ Owes

-----------------------------------------------------------------------------
(* Sequences of frames.                                                    *)

LEMMA StackFacts ==
  ASSUME NEW s, IsStack(s)
  PROVE  /\ Len(s) \in Nat /\ DOMAIN s = 1..Len(s) /\ (s = <<>> <=> Len(s) = 0)
         /\ s # <<>> => Head(s) = s[1] /\ 1 \in DOMAIN s /\ Len(s) \in DOMAIN s
  BY DEF IsStack

LEMMA StackCat ==
  ASSUME NEW s, NEW t, IsStack(s), IsStack(t)
  PROVE  /\ IsStack(s \o t) /\ Len(s \o t) = Len(s) + Len(t)
         /\ \A i \in DOMAIN s : (s \o t)[i] = s[i]
         /\ \A i \in DOMAIN t : (s \o t)[Len(s) + i] = t[i]
         /\ \A j \in DOMAIN (s \o t) :
              j \in DOMAIN s \/ (j - Len(s) \in DOMAIN t /\ (s \o t)[j] = t[j - Len(s)])
  <1>1. PICK S, T : s \in Seq(S) /\ t \in Seq(T)
    BY DEF IsStack
  <1>2. s \in Seq(S \cup T) /\ t \in Seq(S \cup T)
    <2>1. \A A, B : \A x \in Seq(A) : x \in Seq(A \cup B)
      OBVIOUS
    <2> QED
      BY <1>1, <2>1
  <1>3. s \o t \in Seq(S \cup T) /\ Len(s \o t) = Len(s) + Len(t)
    BY <1>2
  <1>4. /\ \A i \in 1..Len(s) : (s \o t)[i] = s[i]
        /\ \A i \in 1..Len(t) : (s \o t)[Len(s) + i] = t[i]
    BY <1>2
  <1>5. Len(s) \in Nat /\ Len(t) \in Nat /\ DOMAIN s = 1..Len(s) /\ DOMAIN t = 1..Len(t)
    BY StackFacts
  <1>6. DOMAIN (s \o t) = 1..(Len(s) + Len(t))
    BY <1>3
  <1>7. \A j \in 1..(Len(s) + Len(t)) :
          j \in 1..Len(s) \/ (j - Len(s) \in 1..Len(t) /\ Len(s) + (j - Len(s)) = j)
    BY <1>5
  <1>8. ASSUME NEW j \in DOMAIN (s \o t)
        PROVE  j \in DOMAIN s \/ (j - Len(s) \in DOMAIN t /\ (s \o t)[j] = t[j - Len(s)])
    BY <1>4, <1>5, <1>6, <1>7
  <1> QED
    BY <1>3, <1>4, <1>5, <1>8 DEF IsStack

LEMMA CatBehind ==
  ASSUME NEW s, NEW t, IsStack(s), IsStack(t), NEW i \in DOMAIN t
  PROVE  (s \o t)[Len(s) + i] = t[i]
  <1>1. PICK S, T : s \in Seq(S) /\ t \in Seq(T)
    BY DEF IsStack
  <1>2. \A A, B : \A x \in Seq(A) : x \in Seq(A \cup B) /\ x \in Seq(B \cup A)
    OBVIOUS
  <1>3. s \in Seq(S \cup T) /\ t \in Seq(S \cup T)
    BY <1>1, <1>2
  <1> QED
    BY <1>3

LEMMA ToldCat ==
  ASSUME NEW s, NEW t, IsStack(s), IsStack(t), Told(s), Told(t)
  PROVE  Told(s \o t)
  <1> DEFINE u == s \o t
  <1>1. /\ IsStack(u) /\ Len(u) = Len(s) + Len(t)
        /\ \A i \in DOMAIN s : u[i] = s[i]
        /\ \A i \in DOMAIN t : u[Len(s) + i] = t[i]
        /\ \A j \in DOMAIN u : j \in DOMAIN s \/ (j - Len(s) \in DOMAIN t /\ u[j] = t[j - Len(s)])
    BY StackCat
  <1>2. /\ DOMAIN s = 1..Len(s) /\ DOMAIN t = 1..Len(t) /\ DOMAIN u = 1..(Len(s) + Len(t))
        /\ Len(s) \in Nat /\ Len(t) \in Nat
    BY <1>1, StackFacts
  <1> HIDE DEF u
  <1>3. ASSUME NEW i \in DOMAIN u, u[i].do = "secret"
        PROVE  \E j \in DOMAIN u : /\ j > i /\ LogsIt(u[j])
                                   /\ \A h \in i..(j - 1) : u[h].do \in {"say", "secret"}
    <2>1. CASE i \in DOMAIN s
      <3>1. PICK j \in DOMAIN s : /\ j > i /\ LogsIt(s[j])
                                  /\ \A h \in i..(j - 1) : s[h].do \in {"say", "secret"}
        BY <1>1, <1>3, <2>1 DEF Told
      <3>2. j \in DOMAIN u /\ \A h \in i..(j - 1) : h \in DOMAIN s
        BY <1>2, <2>1, <3>1
      <3> QED
        BY <1>1, <3>1, <3>2
    <2>2. CASE i - Len(s) \in DOMAIN t /\ u[i] = t[i - Len(s)]
      <3> DEFINE n == i - Len(s)
      <3>1. PICK j \in DOMAIN t : /\ j > n /\ LogsIt(t[j])
                                  /\ \A h \in n..(j - 1) : t[h].do \in {"say", "secret"}
        BY <1>3, <2>2 DEF Told
      <3>2. /\ Len(s) + j \in DOMAIN u /\ Len(s) + j > i
            /\ \A h \in i..(Len(s) + j - 1) :
                 h - Len(s) \in n..(j - 1) /\ h - Len(s) \in DOMAIN t /\ Len(s) + (h - Len(s)) = h
        BY <1>2, <2>2, <3>1
      <3>3. LogsIt(u[Len(s) + j])
        BY <1>1, <3>1
      <3> HIDE DEF n
      <3>4. \A h \in i..(Len(s) + j - 1) : u[h].do \in {"say", "secret"}
        BY <1>1, <3>1, <3>2
      <3> DEFINE m == Len(s) + j
      <3>5. m \in DOMAIN u /\ m > i /\ LogsIt(u[m]) /\ \A h \in i..(m - 1) : u[h].do \in {"say", "secret"}
        BY <3>2, <3>3, <3>4
      <3> HIDE DEF m
      <3> QED
        BY <3>5
    <2> QED
      BY <1>1, <2>1, <2>2
  <1>4. Told(u)
    BY <1>3 DEF Told
  <1> QED
    BY <1>4 DEF u

LEMMA ScriptCat ==
  ASSUME NEW s, NEW t
  PROVE  /\ Script0(s) /\ Script0(t) => Script0(s \o t)
         /\ Script1(s) /\ Script1(t) => Script1(s \o t)
         /\ Script(s) /\ Script(t) => Script(s \o t)
  <1>1. ASSUME IsStack(s), IsStack(t), Told(s), Told(t)
        PROVE  /\ IsStack(s \o t) /\ Told(s \o t)
               /\ \A j \in DOMAIN (s \o t) :
                    \/ j \in DOMAIN s /\ (s \o t)[j] = s[j]
                    \/ j - Len(s) \in DOMAIN t /\ (s \o t)[j] = t[j - Len(s)]
    BY <1>1, StackCat, ToldCat
  <1>2. Script0(s) /\ Script0(t) => Script0(s \o t)
    BY <1>1 DEF Script0
  <1>3. Script1(s) /\ Script1(t) => Script1(s \o t)
    BY <1>1 DEF Script1
  <1>4. Script(s) /\ Script(t) => Script(s \o t)
    BY <1>1 DEF Script
  <1> QED
    BY <1>2, <1>3, <1>4

LEMMA Nested ==
  /\ \A s : Script0(s) => Script1(s)
  /\ \A f : Branch0(f) => Branch1(f)
  /\ \A s : Script1(s) => Script(s)
  <1>1. \A s : Script0(s) => Script1(s)
    BY DEF Script0, Script1
  <1>2. \A f : Branch0(f) => Branch1(f)
    BY <1>1 DEF Branch0, Branch1
  <1> QED
    BY <1>1, <1>2 DEF Script1, Script

\* Scripts given frame by frame.
Eff(f) == Flat(f) /\ f.do # "secret"
Eff1(f) == Eff(f) \/ Branch0(f)
Eff2(f) == Eff(f) \/ Branch1(f)

LEMMA BranchKinds ==
  \A f : Branch0(f) \/ Branch1(f) =>
           f.do \in {"ask", "edit", "ifFile", "ifFull", "ifPivot", "either"}
  BY DEF Branch0, Branch1

LEMMA NoSecret ==
  ASSUME NEW s, IsStack(s)
  PROVE  /\ (\A i \in DOMAIN s : Eff(s[i])) => Script0(s)
         /\ (\A i \in DOMAIN s : Eff1(s[i])) => Script1(s)
         /\ (\A i \in DOMAIN s : Eff2(s[i])) => Script(s)
  <1>1. (\A i \in DOMAIN s : s[i].do # "secret") => Told(s)
    BY DEF Told
  <1>2. \A f : Eff1(f) \/ Eff2(f) => f.do # "secret"
    BY BranchKinds DEF Eff, Eff1, Eff2
  <1>3. (\A i \in DOMAIN s : Eff(s[i])) => Script0(s)
    BY <1>1 DEF Script0, Eff
  <1>4. (\A i \in DOMAIN s : Eff1(s[i])) => Script1(s)
    BY <1>1, <1>2 DEF Script1, Eff1, Eff
  <1>5. (\A i \in DOMAIN s : Eff2(s[i])) => Script(s)
    BY <1>1, <1>2 DEF Script, Eff2, Eff
  <1> QED
    BY <1>3, <1>4, <1>5

LEMMA Tuples0 == Script0(<<>>) /\ Script1(<<>>) /\ Script(<<>>)
  <1>1. IsStack(<<>>) /\ DOMAIN <<>> = {}
    BY DEF IsStack
  <1> QED
    BY <1>1 DEF Script0, Script1, Script, Told

LEMMA SeqScript ==
  ASSUME NEW S, NEW s \in Seq(S)
  PROVE  /\ (\A x \in S : Eff(x)) => Script0(s)
         /\ (\A x \in S : Eff1(x)) => Script1(s)
         /\ (\A x \in S : Eff2(x)) => Script(s)
  <1>1. IsStack(s) /\ \A i \in DOMAIN s : s[i] \in S
    BY DEF IsStack
  <1> QED
    BY <1>1, NoSecret

LEMMA Tuples1 ==
  ASSUME NEW a
  PROVE  /\ Eff(a) => Script0(<<a>>)
         /\ Eff1(a) => Script1(<<a>>)
         /\ Eff2(a) => Script(<<a>>)
  <1> DEFINE s == <<a>>
             S == {a}
  <1>1. s \in Seq(S) /\ \A x \in S : x = a
    OBVIOUS
  <1> HIDE DEF s, S
  <1>2. /\ Eff(a) => Script0(s)
        /\ Eff1(a) => Script1(s)
        /\ Eff2(a) => Script(s)
    BY <1>1, SeqScript
  <1> QED
    BY <1>2 DEF s

LEMMA Tuples2 ==
  ASSUME NEW a, NEW b
  PROVE  /\ Eff(a) /\ Eff(b) => Script0(<<a, b>>)
         /\ Eff1(a) /\ Eff1(b) => Script1(<<a, b>>)
         /\ Eff2(a) /\ Eff2(b) => Script(<<a, b>>)
  <1> DEFINE s == <<a, b>>
             S == {a, b}
  <1>1. s \in Seq(S) /\ \A x \in S : x = a \/ x = b
    OBVIOUS
  <1> HIDE DEF s, S
  <1>2. /\ Eff(a) /\ Eff(b) => Script0(s)
        /\ Eff1(a) /\ Eff1(b) => Script1(s)
        /\ Eff2(a) /\ Eff2(b) => Script(s)
    BY <1>1, SeqScript
  <1> QED
    BY <1>2 DEF s

LEMMA Tuples3 ==
  ASSUME NEW a, NEW b, NEW c
  PROVE  /\ Eff(a) /\ Eff(b) /\ Eff(c) => Script0(<<a, b, c>>)
         /\ Eff1(a) /\ Eff1(b) /\ Eff1(c) => Script1(<<a, b, c>>)
         /\ Eff2(a) /\ Eff2(b) /\ Eff2(c) => Script(<<a, b, c>>)
  <1> DEFINE s == <<a, b, c>>
             S == {a, b, c}
  <1>1. s \in Seq(S) /\ \A x \in S : x = a \/ x = b \/ x = c
    OBVIOUS
  <1> HIDE DEF s, S
  <1>2. /\ Eff(a) /\ Eff(b) /\ Eff(c) => Script0(s)
        /\ Eff1(a) /\ Eff1(b) /\ Eff1(c) => Script1(s)
        /\ Eff2(a) /\ Eff2(b) /\ Eff2(c) => Script(s)
    BY <1>1, SeqScript
  <1> QED
    BY <1>2 DEF s

LEMMA Tuples4 ==
  ASSUME NEW a, NEW b, NEW c, NEW d
  PROVE  /\ Eff(a) /\ Eff(b) /\ Eff(c) /\ Eff(d) => Script0(<<a, b, c, d>>)
         /\ Eff1(a) /\ Eff1(b) /\ Eff1(c) /\ Eff1(d) => Script1(<<a, b, c, d>>)
         /\ Eff2(a) /\ Eff2(b) /\ Eff2(c) /\ Eff2(d) => Script(<<a, b, c, d>>)
  <1> DEFINE s == <<a, b, c, d>>
             S == {a, b, c, d}
  <1>1. s \in Seq(S) /\ \A x \in S : x = a \/ x = b \/ x = c \/ x = d
    OBVIOUS
  <1> HIDE DEF s, S
  <1>2. /\ Eff(a) /\ Eff(b) /\ Eff(c) /\ Eff(d) => Script0(s)
        /\ Eff1(a) /\ Eff1(b) /\ Eff1(c) /\ Eff1(d) => Script1(s)
        /\ Eff2(a) /\ Eff2(b) /\ Eff2(c) /\ Eff2(d) => Script(s)
    BY <1>1, SeqScript
  <1> QED
    BY <1>2 DEF s

LEMMA Tuples5 ==
  ASSUME NEW a, NEW b, NEW c, NEW d, NEW e
  PROVE  /\ Eff(a) /\ Eff(b) /\ Eff(c) /\ Eff(d) /\ Eff(e) => Script0(<<a, b, c, d, e>>)
         /\ Eff1(a) /\ Eff1(b) /\ Eff1(c) /\ Eff1(d) /\ Eff1(e) => Script1(<<a, b, c, d, e>>)
         /\ Eff2(a) /\ Eff2(b) /\ Eff2(c) /\ Eff2(d) /\ Eff2(e) => Script(<<a, b, c, d, e>>)
  <1> DEFINE s == <<a, b, c, d, e>>
             S == {a, b, c, d, e}
  <1>1. s \in Seq(S) /\ \A x \in S : x = a \/ x = b \/ x = c \/ x = d \/ x = e
    OBVIOUS
  <1> HIDE DEF s, S
  <1>2. /\ Eff(a) /\ Eff(b) /\ Eff(c) /\ Eff(d) /\ Eff(e) => Script0(s)
        /\ Eff1(a) /\ Eff1(b) /\ Eff1(c) /\ Eff1(d) /\ Eff1(e) => Script1(s)
        /\ Eff2(a) /\ Eff2(b) /\ Eff2(c) /\ Eff2(d) /\ Eff2(e) => Script(s)
    BY <1>1, SeqScript
  <1> QED
    BY <1>2 DEF s

LEMMA Tuples6 ==
  ASSUME NEW a, NEW b, NEW c, NEW d, NEW e, NEW f
  PROVE  /\ Eff(a) /\ Eff(b) /\ Eff(c) /\ Eff(d) /\ Eff(e) /\ Eff(f) => Script0(<<a, b, c, d, e, f>>)
         /\ Eff1(a) /\ Eff1(b) /\ Eff1(c) /\ Eff1(d) /\ Eff1(e) /\ Eff1(f) => Script1(<<a, b, c, d, e, f>>)
         /\ Eff2(a) /\ Eff2(b) /\ Eff2(c) /\ Eff2(d) /\ Eff2(e) /\ Eff2(f) => Script(<<a, b, c, d, e, f>>)
  <1> DEFINE s == <<a, b, c, d, e, f>>
             S == {a, b, c, d, e, f}
  <1>1. s \in Seq(S) /\ \A x \in S : x = a \/ x = b \/ x = c \/ x = d \/ x = e \/ x = f
    OBVIOUS
  <1> HIDE DEF s, S
  <1>2. /\ Eff(a) /\ Eff(b) /\ Eff(c) /\ Eff(d) /\ Eff(e) /\ Eff(f) => Script0(s)
        /\ Eff1(a) /\ Eff1(b) /\ Eff1(c) /\ Eff1(d) /\ Eff1(e) /\ Eff1(f) => Script1(s)
        /\ Eff2(a) /\ Eff2(b) /\ Eff2(c) /\ Eff2(d) /\ Eff2(e) /\ Eff2(f) => Script(s)
    BY <1>1, SeqScript
  <1> QED
    BY <1>2 DEF s

LEMMA Tuples7 ==
  ASSUME NEW a, NEW b, NEW c, NEW d, NEW e, NEW f, NEW g
  PROVE  /\ Eff(a) /\ Eff(b) /\ Eff(c) /\ Eff(d) /\ Eff(e) /\ Eff(f) /\ Eff(g) => Script0(<<a, b, c, d, e, f, g>>)
         /\ Eff1(a) /\ Eff1(b) /\ Eff1(c) /\ Eff1(d) /\ Eff1(e) /\ Eff1(f) /\ Eff1(g) => Script1(<<a, b, c, d, e, f, g>>)
         /\ Eff2(a) /\ Eff2(b) /\ Eff2(c) /\ Eff2(d) /\ Eff2(e) /\ Eff2(f) /\ Eff2(g) => Script(<<a, b, c, d, e, f, g>>)
  <1> DEFINE s == <<a, b, c, d, e, f, g>>
             S == {a, b, c, d, e, f, g}
  <1>1. s \in Seq(S) /\ \A x \in S : x = a \/ x = b \/ x = c \/ x = d \/ x = e \/ x = f \/ x = g
    OBVIOUS
  <1> HIDE DEF s, S
  <1>2. /\ Eff(a) /\ Eff(b) /\ Eff(c) /\ Eff(d) /\ Eff(e) /\ Eff(f) /\ Eff(g) => Script0(s)
        /\ Eff1(a) /\ Eff1(b) /\ Eff1(c) /\ Eff1(d) /\ Eff1(e) /\ Eff1(f) /\ Eff1(g) => Script1(s)
        /\ Eff2(a) /\ Eff2(b) /\ Eff2(c) /\ Eff2(d) /\ Eff2(e) /\ Eff2(f) /\ Eff2(g) => Script(s)
    BY <1>1, SeqScript
  <1> QED
    BY <1>2 DEF s

-----------------------------------------------------------------------------
(* The programs.                                                           *)

LEMMA FlatFacts ==
  /\ Eff(Say) /\ Eff(Slow) /\ Eff(Pause) /\ Eff(Quit) /\ Eff(ReturnLast)
  /\ Eff(EchoArgs) /\ Eff(PassStdin) /\ Eff(SetIdle(5)) /\ Eff(SetIdle(10))
  /\ \A x : /\ Eff(Log(x)) /\ Eff(Save(x)) /\ Eff(Touch(x)) /\ Eff(Erase(x)) /\ Eff(SetCron(x))
            /\ Eff(RunLine(x)) /\ Eff(Decode(x)) /\ \A y : Eff(Copy(x, y)) /\ Eff(Command(x, y))
  /\ \A c \in 0..255 : Eff(Return(c)) /\ \A n : Eff(Output(n, c))
  /\ \A n \in 0..(MaxFind + 1) : Eff(Walk(n))
  <1>1. /\ Eff(Say) /\ Eff(Slow) /\ Eff(Pause) /\ Eff(Quit) /\ Eff(ReturnLast)
        /\ Eff(EchoArgs) /\ Eff(PassStdin) /\ Eff(SetIdle(5)) /\ Eff(SetIdle(10))
    BY DEF Eff, Flat, Effects, Say, Slow, Pause, Quit, ReturnLast, EchoArgs, PassStdin, SetIdle
  <1>2. \A x : /\ Eff(Log(x)) /\ Eff(Save(x)) /\ Eff(Touch(x)) /\ Eff(Erase(x)) /\ Eff(SetCron(x))
               /\ Eff(RunLine(x)) /\ Eff(Decode(x))
    BY DEF Eff, Flat, Effects, Log, Save, Touch, Erase, SetCron, RunLine, Decode
  <1>3. \A x, y : Eff(Copy(x, y)) /\ Eff(Command(x, y))
    BY DEF Eff, Flat, Effects, Copy, Command
  <1>4. \A c \in 0..255 : Eff(Return(c)) /\ \A n : Eff(Output(n, c))
    BY DEF Eff, Flat, Effects, Return, Output
  <1>5. \A n \in 0..(MaxFind + 1) : Eff(Walk(n))
    BY DEF Eff, Flat, Effects, Walk
  <1> QED
    BY <1>1, <1>2, <1>3, <1>4, <1>5

LEMMA BranchFacts ==
  /\ \A s, t : Script1(s) /\ Script1(t) =>
       /\ Eff2(Edit(s, t)) /\ Eff2(Either(s, t))
       /\ \A x : Eff2(IfFile(x, s, t)) /\ Eff2(IfFull(x, s, t))
       /\ \A u : Script1(u) => Eff2(Ask(s, t, u))
  /\ \A s, t : Script0(s) /\ Script0(t) =>
       /\ Eff1(Either(s, t)) /\ \A x : Eff1(IfFull(x, s, t))
  /\ \A x, s, t : Pivots(s) /\ Script0(t) => Branch0(IfPivot(x, s, t))
  BY DEF Eff1, Eff2, Branch0, Branch1, Edit, Either, IfFile, IfFull, Ask, IfPivot

\* The effects as frames of any script, and some exit codes.
LEMMA Frames2 ==
  /\ \A f : Eff(f) => Eff1(f) /\ Eff2(f)
  /\ {0, 1, 2, 56, 100, 127, 137, 139, 255} \subseteq 0..255
  BY DEF Eff1, Eff2

LEMMA WgetScript == \A args : Script(iWget(args))
  <1>1. /\ Script(<<Say, Return(1)>>) /\ Script(<<Log("DOWNLOAD_ATTEMPT"), Say>>)
        /\ Script(<<Pause, Return(0)>>) /\ Script(<<Slow, Say, Save("f"), Return(0)>>)
    BY FlatFacts, Frames2, Tuples2, Tuples4
  <1> QED
    BY <1>1, ScriptCat DEF iWget

\* The scripts of a few frames that print, log and return.
LEMMA PlainScripts ==
  /\ \A c \in 0..255 : /\ Script0(<<Return(c)>>) /\ Script0(<<Say, Return(c)>>)
                       /\ Script0(<<Pause, Return(c)>>) /\ Script0(<<Pause, Say, Return(c)>>)
                       /\ \A n : Script0(<<Output(n, c)>>)
  /\ \A e : /\ Script0(<<Log(e)>>) /\ Script0(<<Log(e), Say>>)
            /\ \A c \in 0..255 : /\ Script0(<<Log(e), Pause, Return(c)>>)
                                 /\ Script0(<<Log(e), Say, Return(c)>>)
  /\ Script0(<<>>) /\ Script0(<<Say>>) /\ Script0(<<Pause>>)
  <1>1. /\ \A c \in 0..255 : /\ Script0(<<Return(c)>>) /\ Script0(<<Say, Return(c)>>)
                             /\ Script0(<<Pause, Return(c)>>) /\ Script0(<<Pause, Say, Return(c)>>)
                             /\ \A n : Script0(<<Output(n, c)>>)
    BY FlatFacts, Tuples1, Tuples2, Tuples3, Zenon
  <1>2. \A e : /\ Script0(<<Log(e)>>) /\ Script0(<<Log(e), Say>>)
               /\ \A c \in 0..255 : /\ Script0(<<Log(e), Pause, Return(c)>>)
                                    /\ Script0(<<Log(e), Say, Return(c)>>)
    BY FlatFacts, Tuples1, Tuples2, Tuples3
  <1>3. Script0(<<>>) /\ Script0(<<Say>>) /\ Script0(<<Pause>>)
    BY FlatFacts, Tuples0, Tuples1
  <1> QED
    BY <1>1, <1>2, <1>3, Zenon

LEMMA CurlScript == \A args : Script(iCurl(args))
  <1>1. /\ Script(<<Slow, Say, Save("f"), Return(0)>>) /\ Script(<<Pause, Say, Return(56)>>)
        /\ Script(<<>>) /\ Script(<<Log("DOWNLOAD_ATTEMPT")>>)
    BY FlatFacts, Frames2, PlainScripts, Nested, Tuples4, Zenon
  <1> QED
    BY <1>1, ScriptCat DEF iCurl

LEMMA ShScript == \A args : Script(iShExec(args))
  <1>1. \A x : Script(<<Log("EXEC_ATTEMPT"), RunLine(x), ReturnLast>>)
    BY FlatFacts, Frames2, Tuples3
  <1>2. Script(<<Log("EXEC_ATTEMPT"), Pause, Say, Return(137)>>) /\ Script(<<Return(0)>>)
    BY FlatFacts, Frames2, PlainScripts, Nested, Tuples4, Zenon
  <1>3. \A x : Script(captureDropper(x))
    <2>1. Script1(<<Log("DROPPER")>>) /\ Script1(<<>>) /\ Script(<<>>)
      BY PlainScripts, Nested, Zenon
    <2>2. \A x : Script(<<IfFull(x, <<Log("DROPPER")>>, <<>>)>>)
      BY <2>1, BranchFacts, Tuples1
    <2> QED
      BY <2>1, <2>2 DEF captureDropper
  <1> QED
    BY <1>1, <1>2, <1>3, ScriptCat DEF iShExec

LEMMA InterpScript == \A args : Script(iInterp(args))
  <1> DEFINE e == Either(<<Log("EXEC_ATTEMPT")>>, <<Log("DOWNLOAD_ATTEMPT")>>)
  <1>1. Eff2(e)
    BY BranchFacts, PlainScripts, Nested, Zenon
  <1> HIDE DEF e
  <1>2. Script(<<Say, Return(0)>>) /\ Script(<<e, Pause, Say, Return(139)>>)
    BY <1>1, FlatFacts, Frames2, PlainScripts, Nested, Tuples4, Zenon
  <1> QED
    BY <1>2 DEF iInterp, e

LEMMA AptScript == \A args : Script(iApt(args))
  <1>1. Script(<<Pause, Say, Pause, Say, Save("/usr/bin/pkg"), Say>>)
    BY FlatFacts, Frames2, Tuples6
  <1>2. /\ Script(<<Say, Return(100)>>) /\ Script(<<Log("COMMAND"), Say>>) /\ Script(<<>>)
        /\ Script(<<Return(0)>>) /\ Script(<<Say, Return(0)>>)
    BY Frames2, PlainScripts, Nested, Zenon
  <1>3. Script(<<Say, Pause, Say, Return(0)>>) /\ Script(<<Say, Erase("/usr/bin/pkg")>>)
    BY FlatFacts, Frames2, Tuples2, Tuples4
  <1> HIDE DEF Say, Return
  <1>4. ASSUME NEW s, Script(s), NEW args
        PROVE  Script(<<Log("COMMAND"), Say>> \o (IF Tail(Bare(args)) = <<>> THEN <<>> ELSE s) \o <<Return(0)>>)
    BY <1>2, <1>4, ScriptCat
  <1> QED
    BY <1>1, <1>2, <1>3, <1>4 DEF iApt

LEMMA EditorScripts ==
  ASSUME NEW s, NEW t, Script1(s), Script1(t)
  PROVE  Script(runEditor(s, t) \o <<Return(0)>>)
  <1>1. Script1(<<Say>>) /\ Script(<<Return(0)>>)
    BY Frames2, PlainScripts, Nested, Zenon
  <1>2. Eff2(Edit(<<Say>> \o s, t))
    BY <1>1, BranchFacts, ScriptCat
  <1>3. Script(runEditor(s, t))
    BY <1>2, FlatFacts, Frames2, Tuples3 DEF runEditor
  <1> QED
    BY <1>1, <1>3, ScriptCat

LEMMA EditorScript == \A args : Script(iEditor(args))
  <1>1. \A x : Script1(<<Either(<<Save(x)>>, <<Touch(x)>>)>>)
    BY FlatFacts, BranchFacts, Tuples1
  <1>2. Script1(<<>>) /\ Script1(<<Log("COMMAND")>>)
    BY PlainScripts, Nested, Zenon
  <1>3. ASSUME NEW keep, NEW x
        PROVE  Script1(<<Log("COMMAND")>> \o (IF keep THEN <<Either(<<Save(x)>>, <<Touch(x)>>)>> ELSE <<>>))
    BY <1>1, <1>2, ScriptCat
  <1> QED
    BY <1>2, <1>3, EditorScripts DEF iEditor

LEMMA CrontabScript == \A args : Script(iCrontab(args))
  <1>1. Script1(<<SetCron(TRUE), Log("COMMAND")>>) /\ Script1(<<>>)
    BY FlatFacts, Frames2, PlainScripts, Nested, Tuples2, Zenon
  <1>2. Script(<<Say, Return(0)>>) /\ Script(<<SetCron(FALSE), Return(0)>>)
    BY FlatFacts, Frames2, Tuples2
  <1>3. Script(runEditor(<<SetCron(TRUE), Log("COMMAND")>>, <<>>) \o <<Return(0)>>)
    BY <1>1, EditorScripts
  <1>4. \A x : Script(<<IfFile(x, <<SetCron(TRUE), Log("COMMAND")>>, <<>>), Return(0)>>)
    BY <1>1, BranchFacts, FlatFacts, Frames2, Tuples2, Zenon
  <1> QED
    BY <1>2, <1>3, <1>4, Zenon DEF iCrontab

LEMMA ViewScript == \A args : Script(iAsciiView(args))
  <1>1. Script1(<<Say, Return(1)>>) /\ Script1(<<Log("HONEYTOKEN"), Say, Return(0)>>) /\ Script(<<Say, Return(1)>>)
    BY Frames2, PlainScripts, Nested, Zenon
  <1>2. Script(<<Either(<<Say, Return(1)>>, <<Log("HONEYTOKEN"), Say, Return(0)>>)>>)
    BY <1>1, BranchFacts, Tuples1
  <1> QED
    BY <1>1, <1>2 DEF iAsciiView

LEMMA ShortScripts ==
  \A args : /\ Script(iTftp(args)) /\ Script(iFtp(args)) /\ Script(iCompile(args)) /\ Script(iPip(args))
            /\ Script(iFind(args)) /\ Script(iTop(args)) /\ Script(iTar(args)) /\ Script(iVault(args))
            /\ Script(Terminated) /\ Script(<<Return(0)>>)
  <1>1. \A args : Script(iTftp(args)) /\ Script(iFtp(args))
    BY Frames2, PlainScripts, Nested, Zenon DEF iTftp, iFtp
  <1>2. \A args : Script(iCompile(args))
    <2>1. Script(<<Say, Return(0)>>) /\ Script(<<Log("COMMAND"), Pause, Say, Pause, Say, Return(1)>>)
      BY FlatFacts, Frames2, Tuples2, Tuples6
    <2> QED
      BY <2>1 DEF iCompile
  <1>3. \A args : Script(iPip(args))
    <2>1. Script(<<Return(0)>>) /\ Script(<<Log("COMMAND"), Say, Pause, Say, Return(0)>>)
      BY FlatFacts, Frames2, Tuples1, Tuples5
    <2> QED
      BY <2>1 DEF iPip
  <1>4. \A args : Script(iFind(args))
    <2>1. 0 \in 0..(MaxFind + 1)
      BY LimitsAssumption
    <2> QED
      BY <2>1, FlatFacts, Frames2, Tuples2 DEF iFind
  <1>5. \A args : Script(iTop(args))
    BY FlatFacts, Frames2, Tuples4 DEF iTop
  <1>6. \A args : Script(iTar(args))
    BY Frames2, PlainScripts, Nested, Zenon DEF iTar
  <1>7. \A args : Script(iVault(args))
    BY FlatFacts, Frames2, Tuples7 DEF iVault
  <1>8. Script(Terminated) /\ Script(<<Return(0)>>)
    BY Frames2, PlainScripts, Nested, Zenon DEF Terminated
  <1> QED
    BY <1>1, <1>2, <1>3, <1>4, <1>5, <1>6, <1>7, <1>8

\* A prompt that hides its input, and the event behind it.
LEMMA SecretFacts ==
  /\ Flat(Secret) /\ Secret.do = "secret" /\ Say.do = "say"
  /\ LogsIt(Log("CREDENTIAL")) /\ LogsIt(Log("COMMAND"))
  BY DEF Flat, Effects, Secret, Say, LogsIt, Log

LEMMA SecretFrames ==
  /\ Flat(Say) /\ Flat(Pause) /\ Flat(Secret) /\ \A e : Flat(Log(e))
  /\ \A c \in 0..255 : Flat(Return(c))
  /\ 0 \in 0..255 /\ 1 \in 0..255 /\ 255 \in 0..255
  <1>1. \A f : Eff(f) => Flat(f)
    BY DEF Eff
  <1>2. /\ Eff(Say) /\ Eff(Pause) /\ \A e : Eff(Log(e))
        /\ \A c \in 0..255 : Eff(Return(c))
    BY FlatFacts
  <1>3. 0 \in 0..255 /\ 1 \in 0..255 /\ 255 \in 0..255
    OBVIOUS
  <1> QED
    BY <1>1, <1>2, <1>3, SecretFacts, Zenon

LEMMA ToldAt ==
  ASSUME NEW s, IsStack(s), NEW j \in DOMAIN s, LogsIt(s[j]),
         \A h \in DOMAIN s : /\ h < j => s[h].do \in {"say", "secret"}
                             /\ h > j => s[h].do # "secret"
  PROVE  Told(s)
  <1> SUFFICES ASSUME NEW i \in DOMAIN s, s[i].do = "secret"
               PROVE  j > i /\ \A h \in i..(j - 1) : s[h].do \in {"say", "secret"}
    BY DEF Told
  <1>1. DOMAIN s = 1..Len(s) /\ Len(s) \in Nat
    BY StackFacts
  <1>2. i # j
    BY DEF LogsIt
  <1>3. i < j
    BY <1>1, <1>2
  <1>4. j > i /\ \A h \in i..(j - 1) : h \in DOMAIN s /\ h < j
    BY <1>1, <1>3
  <1> QED
    BY <1>4, Zenon

\* The kinds of the frames of the programs that ask for a password.
LEMMA AskKinds ==
  /\ \A c : Return(c).do = "return" /\ Log(c).do = "log"
  /\ Pause.do = "pause" /\ Say.do = "say" /\ Secret.do = "secret"
  BY DEF Return, Log, Pause, Say, Secret

LEMMA ScpAsks ==
  Script0(<<Secret, Log("CREDENTIAL"), Log("COMMAND"), Pause, Say, Return(0)>>)
  <1> DEFINE s == <<Secret, Log("CREDENTIAL"), Log("COMMAND"), Pause, Say, Return(0)>>
             S == {Secret, Log("CREDENTIAL"), Log("COMMAND"), Pause, Say, Return(0)}
  <1>1. s \in Seq(S) /\ DOMAIN s = 1..6
    OBVIOUS
  <1>2. s[1] = Secret /\ s[2] = Log("CREDENTIAL") /\ s[3] = Log("COMMAND") /\ s[4] = Pause /\ s[5] = Say /\ s[6] = Return(0)
    OBVIOUS
  <1>3. \A x \in S : x = Secret \/ x = Log("CREDENTIAL") \/ x = Log("COMMAND") \/ x = Pause \/ x = Say \/ x = Return(0)
    OBVIOUS
  <1> HIDE DEF s, S
  <1>4. \A x \in S : Flat(x)
    BY <1>3, SecretFrames, Zenon
  <1>5. IsStack(s) /\ \A i \in DOMAIN s : s[i] \in S
    <2>1. \A T : \A t \in Seq(T) : \A i \in DOMAIN t : t[i] \in T
      OBVIOUS
    <2> QED
      BY <1>1, <2>1 DEF IsStack
  <1>6. /\ 2 \in DOMAIN s /\ LogsIt(s[2])
        /\ \A h \in DOMAIN s : /\ h < 2 => s[h].do \in {"say", "secret"}
                               /\ h > 2 => s[h].do # "secret"
    BY <1>1, <1>2, AskKinds, SecretFacts
  <1>7. Told(s)
    BY <1>5, <1>6, ToldAt
  <1>8. Script0(s)
    BY <1>4, <1>5, <1>7 DEF Script0
  <1> QED
    BY <1>8 DEF s

LEMMA RsyncAsks ==
  Script0(<<Secret, Log("CREDENTIAL"), Log("COMMAND")>>)
  <1> DEFINE s == <<Secret, Log("CREDENTIAL"), Log("COMMAND")>>
             S == {Secret, Log("CREDENTIAL"), Log("COMMAND")}
  <1>1. s \in Seq(S) /\ DOMAIN s = 1..3
    OBVIOUS
  <1>2. s[1] = Secret /\ s[2] = Log("CREDENTIAL") /\ s[3] = Log("COMMAND")
    OBVIOUS
  <1>3. \A x \in S : x = Secret \/ x = Log("CREDENTIAL") \/ x = Log("COMMAND")
    OBVIOUS
  <1> HIDE DEF s, S
  <1>4. \A x \in S : Flat(x)
    BY <1>3, SecretFrames, Zenon
  <1>5. IsStack(s) /\ \A i \in DOMAIN s : s[i] \in S
    <2>1. \A T : \A t \in Seq(T) : \A i \in DOMAIN t : t[i] \in T
      OBVIOUS
    <2> QED
      BY <1>1, <2>1 DEF IsStack
  <1>6. /\ 2 \in DOMAIN s /\ LogsIt(s[2])
        /\ \A h \in DOMAIN s : /\ h < 2 => s[h].do \in {"say", "secret"}
                               /\ h > 2 => s[h].do # "secret"
    BY <1>1, <1>2, AskKinds, SecretFacts
  <1>7. Told(s)
    BY <1>5, <1>6, ToldAt
  <1>8. Script0(s)
    BY <1>4, <1>5, <1>7 DEF Script0
  <1> QED
    BY <1>8 DEF s

LEMMA MysqlAsks ==
  Script0(<<Secret, Log("CREDENTIAL")>>)
  <1> DEFINE s == <<Secret, Log("CREDENTIAL")>>
             S == {Secret, Log("CREDENTIAL")}
  <1>1. s \in Seq(S) /\ DOMAIN s = 1..2
    OBVIOUS
  <1>2. s[1] = Secret /\ s[2] = Log("CREDENTIAL")
    OBVIOUS
  <1>3. \A x \in S : x = Secret \/ x = Log("CREDENTIAL")
    OBVIOUS
  <1> HIDE DEF s, S
  <1>4. \A x \in S : Flat(x)
    BY <1>3, SecretFrames, Zenon
  <1>5. IsStack(s) /\ \A i \in DOMAIN s : s[i] \in S
    <2>1. \A T : \A t \in Seq(T) : \A i \in DOMAIN t : t[i] \in T
      OBVIOUS
    <2> QED
      BY <1>1, <2>1 DEF IsStack
  <1>6. /\ 2 \in DOMAIN s /\ LogsIt(s[2])
        /\ \A h \in DOMAIN s : /\ h < 2 => s[h].do \in {"say", "secret"}
                               /\ h > 2 => s[h].do # "secret"
    BY <1>1, <1>2, AskKinds, SecretFacts
  <1>7. Told(s)
    BY <1>5, <1>6, ToldAt
  <1>8. Script0(s)
    BY <1>4, <1>5, <1>7 DEF Script0
  <1> QED
    BY <1>8 DEF s

LEMMA SuAsks ==
  Script0(<<Secret, Log("CREDENTIAL"), Pause, Return(0)>>)
  <1> DEFINE s == <<Secret, Log("CREDENTIAL"), Pause, Return(0)>>
             S == {Secret, Log("CREDENTIAL"), Pause, Return(0)}
  <1>1. s \in Seq(S) /\ DOMAIN s = 1..4
    OBVIOUS
  <1>2. s[1] = Secret /\ s[2] = Log("CREDENTIAL") /\ s[3] = Pause /\ s[4] = Return(0)
    OBVIOUS
  <1>3. \A x \in S : x = Secret \/ x = Log("CREDENTIAL") \/ x = Pause \/ x = Return(0)
    OBVIOUS
  <1> HIDE DEF s, S
  <1>4. \A x \in S : Flat(x)
    BY <1>3, SecretFrames, Zenon
  <1>5. IsStack(s) /\ \A i \in DOMAIN s : s[i] \in S
    <2>1. \A T : \A t \in Seq(T) : \A i \in DOMAIN t : t[i] \in T
      OBVIOUS
    <2> QED
      BY <1>1, <2>1 DEF IsStack
  <1>6. /\ 2 \in DOMAIN s /\ LogsIt(s[2])
        /\ \A h \in DOMAIN s : /\ h < 2 => s[h].do \in {"say", "secret"}
                               /\ h > 2 => s[h].do # "secret"
    BY <1>1, <1>2, AskKinds, SecretFacts
  <1>7. Told(s)
    BY <1>5, <1>6, ToldAt
  <1>8. Script0(s)
    BY <1>4, <1>5, <1>7 DEF Script0
  <1> QED
    BY <1>8 DEF s

LEMMA PasswdAsks ==
  Script0(<<Say, Secret, Log("CREDENTIAL"), Secret, Secret, Log("COMMAND"), Pause, Say, Return(0)>>)
  <1> DEFINE s == <<Say, Secret, Log("CREDENTIAL"), Secret, Secret, Log("COMMAND"), Pause, Say, Return(0)>>
             S == {Say, Secret, Log("CREDENTIAL"), Log("COMMAND"), Pause, Return(0)}
  <1>1. s \in Seq(S) /\ DOMAIN s = 1..9
    OBVIOUS
  <1>2. s[1] = Say /\ s[2] = Secret /\ s[3] = Log("CREDENTIAL") /\ s[4] = Secret /\ s[5] = Secret /\ s[6] = Log("COMMAND") /\ s[7] = Pause /\ s[8] = Say /\ s[9] = Return(0)
    OBVIOUS
  <1>3. \A x \in S : x = Say \/ x = Secret \/ x = Log("CREDENTIAL") \/ x = Log("COMMAND") \/ x = Pause \/ x = Return(0)
    OBVIOUS
  <1> HIDE DEF s, S
  <1>4. \A x \in S : Flat(x)
    BY <1>3, SecretFrames, Zenon
  <1>5. IsStack(s) /\ \A i \in DOMAIN s : s[i] \in S
    <2>1. \A T : \A t \in Seq(T) : \A i \in DOMAIN t : t[i] \in T
      OBVIOUS
    <2> QED
      BY <1>1, <2>1 DEF IsStack
  <1>6. \A i \in DOMAIN s : s[i].do = "secret" => i = 2 \/ i \in {4, 5}
    BY <1>1, <1>2, AskKinds
  <1>7. Told(s)
    <2>1. 3 \in DOMAIN s /\ 3 > 2 /\ LogsIt(s[3]) /\ \A h \in 2..(3 - 1) : s[h].do \in {"say", "secret"}
      BY <1>1, <1>2, AskKinds, SecretFacts
    <2>2. /\ 6 \in DOMAIN s /\ LogsIt(s[6])
          /\ \A i \in {4, 5} : 6 > i /\ \A h \in i..(6 - 1) : s[h].do \in {"say", "secret"}
      BY <1>1, <1>2, AskKinds, SecretFacts
    <2> QED
      BY <1>6, <2>1, <2>2 DEF Told
  <1>8. Script0(s)
    BY <1>4, <1>5, <1>7 DEF Script0
  <1> QED
    BY <1>8 DEF s

LEMMA SshAsks ==
  ASSUME NEW p, Branch0(p)
  PROVE  Script1(<<Say, Secret, Say, Log("CREDENTIAL"), p>>)
  <1> DEFINE s == <<Say, Secret, Say, Log("CREDENTIAL"), p>>
             S == {Say, Secret, Log("CREDENTIAL"), p}
  <1>1. s \in Seq(S) /\ DOMAIN s = 1..5
    OBVIOUS
  <1>2. s[1] = Say /\ s[2] = Secret /\ s[3] = Say /\ s[4] = Log("CREDENTIAL") /\ s[5] = p
    OBVIOUS
  <1>3. \A x \in S : x = Say \/ x = Secret \/ x = Log("CREDENTIAL") \/ x = p
    OBVIOUS
  <1> HIDE DEF s, S
  <1>0. p.do # "secret"
    BY BranchKinds
  <1>4. \A x \in S : Flat(x) \/ Branch0(x)
    BY <1>3, SecretFrames, Zenon
  <1>5. IsStack(s) /\ \A i \in DOMAIN s : s[i] \in S
    <2>1. \A T : \A t \in Seq(T) : \A i \in DOMAIN t : t[i] \in T
      OBVIOUS
    <2> QED
      BY <1>1, <2>1 DEF IsStack
  <1>6. /\ 4 \in DOMAIN s /\ LogsIt(s[4])
        /\ \A h \in DOMAIN s : /\ h < 4 => s[h].do \in {"say", "secret"}
                               /\ h > 4 => s[h].do # "secret"
    BY <1>1, <1>2, <1>0, AskKinds, SecretFacts
  <1>7. Told(s)
    BY <1>5, <1>6, ToldAt
  <1>8. Script1(s)
    BY <1>4, <1>5, <1>7 DEF Script1
  <1> QED
    BY <1>8 DEF s

-----------------------------------------------------------------------------
(* The programs together.                                                  *)

LEMMA PivotsFact == Pivots(<<Pivot, Return(0)>>)
  <1> DEFINE s == <<Pivot, Return(0)>>
             S == {Pivot, Return(0)}
  <1>1. s \in Seq(S)
    OBVIOUS
  <1>2. \A x \in S : x.do # "secret" /\ (Flat(x) \/ x.do = "pivot")
    BY FlatFacts, Frames2 DEF Eff, Pivot
  <1> HIDE DEF s, S
  <1>3. IsStack(s) /\ \A i \in DOMAIN s : s[i] \in S
    BY <1>1 DEF IsStack
  <1>4. Pivots(s)
    BY <1>2, <1>3 DEF Pivots, Told
  <1> QED
    BY <1>4 DEF s

LEMMA SshScript == \A args : Script(iSSH(args))
  <1>1. /\ Script0(<<Pause, Say, Return(255)>>) /\ Script1(<<Say, Return(255)>>)
        /\ Script1(<<Return(255)>>) /\ Script(<<Say, Return(255)>>)
    <2>1. 255 \in 0..255
      OBVIOUS
    <2>2. Script0(<<Pause, Say, Return(255)>>) /\ Script0(<<Say, Return(255)>>) /\ Script0(<<Return(255)>>)
      BY <2>1, PlainScripts, Zenon
    <2> QED
      BY <2>2, Nested, Zenon
  <1>2. \A x : Branch0(IfPivot(x, <<Pivot, Return(0)>>, <<Pause, Say, Return(255)>>))
    BY <1>1, PivotsFact, BranchFacts, Zenon
  <1>3. ASSUME NEW p, Branch0(p)
        PROVE  Script(<<Say, Ask(<<Say, Secret, Say, Log("CREDENTIAL"), p>>,
                                 <<Say, Return(255)>>, <<Return(255)>>)>>)
    <2>1. Script1(<<Say, Secret, Say, Log("CREDENTIAL"), p>>)
      BY <1>3, SshAsks
    <2> DEFINE f == Ask(<<Say, Secret, Say, Log("CREDENTIAL"), p>>,
                        <<Say, Return(255)>>, <<Return(255)>>)
    <2>2. Eff2(f)
      BY <1>1, <2>1, BranchFacts, Zenon
    <2> HIDE DEF f
    <2>3. Eff2(Say)
      BY FlatFacts, Frames2, Zenon
    <2>4. Script(<<Say, f>>)
      BY <2>2, <2>3, Tuples2, Zenon
    <2> QED
      BY <2>4 DEF f
  <1> QED
    BY <1>1, <1>2, <1>3, Zenon DEF iSSH

LEMMA SecretScripts ==
  \A args : /\ Script(iScp(args)) /\ Script(iRsync(args)) /\ Script(iSu(args))
            /\ Script(iPasswd(args)) /\ Script(iMysql(args))
  <1>1. \A args : Script(iScp(args))
    BY ScpAsks, Frames2, PlainScripts, Nested, Zenon DEF iScp
  <1>2. Script(<<Pause, Say, Pause, Say, Return(0)>>) /\ Script(<<>>)
    BY FlatFacts, Frames2, Tuples0, Tuples5
  <1>3. Script(<<Secret, Log("CREDENTIAL"), Log("COMMAND")>>)
    BY RsyncAsks, Nested, Zenon
  <1>4. \A args : Script(iRsync(args))
    <2> DEFINE s == <<Secret, Log("CREDENTIAL"), Log("COMMAND")>>
               t == <<Pause, Say, Pause, Say, Return(0)>>
    <2>1. \A args : iRsync(args) = (IF Remote(args) THEN s ELSE <<>>) \o t
      BY Zenon DEF iRsync
    <2>2. Script(s) /\ Script(t) /\ Script(<<>>)
      BY <1>2, <1>3
    <2> HIDE DEF s, t
    <2>3. \A args : Script(IF Remote(args) THEN s ELSE <<>>)
      BY <2>2
    <2> QED
      BY <2>1, <2>2, <2>3, ScriptCat
  <1>5. \A args : Script(iSu(args)) /\ Script(iPasswd(args))
    BY SuAsks, PasswdAsks, Nested, Zenon DEF iSu, iPasswd
  <1>6. \A args : Script(iMysql(args))
    <2> DEFINE s == <<Log("CREDENTIAL")>>
               t == <<Secret, Log("CREDENTIAL")>>
               u == <<Pause, Say, Return(1)>>
               A(args) == IF Has(args, "-psecret") THEN s ELSE <<>>
               B(args) == IF Has(args, "-p") THEN t ELSE <<>>
    <2>1. \A args : iMysql(args) = A(args) \o B(args) \o u
      BY Zenon DEF iMysql
    <2>2. Script(s) /\ Script(t) /\ Script(u) /\ Script(<<>>)
      BY MysqlAsks, Frames2, PlainScripts, Nested, Zenon
    <2> HIDE DEF s, t, u
    <2>3. \A args : Script(A(args)) /\ Script(B(args))
      BY <2>2
    <2> HIDE DEF A, B
    <2>4. \A args : Script(A(args) \o B(args))
      BY <2>3, ScriptCat, Zenon
    <2> QED
      BY <2>1, <2>2, <2>4, ScriptCat
  <1> QED
    BY <1>1, <1>4, <1>5, <1>6, Zenon

LEMMA InteractiveScript == \A args : Script(runInteractive(args))
  <1> SUFFICES ASSUME NEW args PROVE Script(runInteractive(args))
    OBVIOUS
  <1>1. /\ Script(iWget(args)) /\ Script(iCurl(args)) /\ Script(iSSH(args)) /\ Script(iScp(args))
        /\ Script(iRsync(args)) /\ Script(iShExec(args)) /\ Script(iInterp(args))
        /\ Script(iSu(args)) /\ Script(iApt(args)) /\ Script(iPasswd(args)) /\ Script(iEditor(args))
        /\ Script(iCrontab(args)) /\ Script(iMysql(args)) /\ Script(iAsciiView(args))
    BY WgetScript, CurlScript, SshScript, SecretScripts, ShScript, InterpScript, AptScript,
       EditorScript, CrontabScript, ViewScript, Zenon
  <1>2. /\ Script(iTftp(args)) /\ Script(iFtp(args)) /\ Script(iCompile(args)) /\ Script(iPip(args))
        /\ Script(iFind(args)) /\ Script(iTop(args)) /\ Script(iTar(args)) /\ Script(iVault(args))
        /\ Script(Terminated) /\ Script(<<Return(0)>>)
    BY ShortScripts, Zenon
  <1> QED
    BY <1>1, <1>2 DEF runInteractive

-----------------------------------------------------------------------------
(* The commands.                                                           *)

LEMMA Outputs ==
  /\ Script0(Success) /\ Script0(Failure) /\ Script0(Report) /\ Script0(NotFound)
  /\ Script0(<<Output(0, 1)>>) /\ Script0(<<Output(1, 2)>>) /\ Script0(<<>>)
  <1>1. /\ Script0(<<Output(0, 0)>>) /\ Script0(<<Output(1, 1)>>) /\ Script0(<<Output(1, 0)>>)
        /\ Script0(<<Output(1, 127)>>) /\ Script0(<<Output(0, 1)>>) /\ Script0(<<Output(1, 2)>>)
    <2>1. /\ 0 \in 0..255 /\ 1 \in 0..255 /\ 2 \in 0..255 /\ 127 \in 0..255
      OBVIOUS
    <2>2. \A c \in 0..255 : \A n : Script0(<<Output(n, c)>>)
      BY PlainScripts, Zenon
    <2> QED
      BY <2>1, <2>2, Zenon
  <1> QED
    BY <1>1, PlainScripts, Zenon DEF Success, Failure, Report, NotFound

\* The choice between two scripts as a script of its own.
LEMMA BranchScripts ==
  \A s, t : Script1(s) /\ Script1(t) =>
    /\ Script(<<Either(s, t)>>)
    /\ \A x : Script(<<IfFile(x, s, t)>>) /\ Script(<<IfFull(x, s, t)>>)
  <1>1. ASSUME NEW s, NEW t, Script1(s), Script1(t)
        PROVE  Eff2(Either(s, t)) /\ \A x : Eff2(IfFile(x, s, t)) /\ Eff2(IfFull(x, s, t))
    BY <1>1, BranchFacts, Zenon
  <1>2. \A f : Eff2(f) => Script(<<f>>)
    BY Tuples1, Zenon
  <1> QED
    BY <1>1, <1>2

LEMMA TestScript == \A args : Script(cmdTest(args))
  <1>1. ASSUME NEW a, NEW yes, NEW no, Script1(yes), Script1(no)
        PROVE  Script(evalTest(a, yes, no))
    <2>1. Script(yes) /\ Script(no)
      BY <1>1, Nested, Zenon
    <2>2. Script(<<Either(yes, no)>>) /\ \A x : Script(<<IfFile(x, yes, no)>>) /\ Script(<<IfFull(x, yes, no)>>)
      BY <1>1, BranchScripts, Zenon
    <2> QED
      BY <2>1, <2>2 DEF evalTest
  <1>2. Script1(Success) /\ Script1(<<Output(0, 1)>>) /\ Script(<<Output(1, 2)>>)
    BY Outputs, Nested, Zenon
  <1>3. \A a : Script(evalTest(a, Success, <<Output(0, 1)>>)) /\ Script(evalTest(a, <<Output(0, 1)>>, Success))
    BY <1>1, <1>2, Zenon
  <1> QED
    BY <1>2, <1>3 DEF cmdTest

LEMMA MutateScript == \A args : Script(cmdMutate(args))
  <1>1. \A x, y : /\ Script1(<<Touch(x)>>) /\ Script1(<<Copy(x, y)>>) /\ Script1(<<Copy(x, y), Erase(x)>>)
                  /\ Script(<<Erase(x)>>)
    <2>1. \A x, y : Eff(Touch(x)) /\ Eff(Copy(x, y)) /\ Eff(Erase(x))
      BY FlatFacts
    <2>2. \A x, y : Script0(<<Touch(x)>>) /\ Script0(<<Copy(x, y)>>) /\ Script0(<<Copy(x, y), Erase(x)>>) /\ Script0(<<Erase(x)>>)
      BY <2>1, Tuples1, Tuples2, Zenon
    <2> QED
      BY <2>2, Nested, Zenon
  <1>2. Script(Success) /\ Script1(<<>>) /\ Script(<<>>)
    BY Outputs, Nested, Zenon
  <1>3. \A x, y : /\ Script(<<IfFile(x, <<>>, <<Touch(x)>>)>>)
                  /\ Script(<<IfFile(x, <<Copy(x, y)>>, <<>>)>>)
                  /\ Script(<<IfFile(x, <<Copy(x, y), Erase(x)>>, <<>>)>>)
    BY <1>1, <1>2, BranchScripts, Zenon
  <1> SUFFICES ASSUME NEW args PROVE Script(cmdMutate(args))
    OBVIOUS
  <1> DEFINE t == Bare(args)
             move == Len(t) >= 2
             s == CASE args[1] = "touch" /\ t # <<>> -> <<IfFile(t[1], <<>>, <<Touch(t[1])>>)>>
                    [] args[1] = "rm" /\ t # <<>>    -> <<Erase(t[1])>>
                    [] args[1] = "cp" /\ move        -> <<IfFile(t[1], <<Copy(t[1], t[2])>>, <<>>)>>
                    [] args[1] = "mv" /\ move ->
                         <<IfFile(t[1], <<Copy(t[1], t[2]), Erase(t[1])>>, <<>>)>>
                    [] OTHER -> <<>>
  <1>4. cmdMutate(args) = s \o Success
    BY DEF cmdMutate
  <1>5. Script(s)
    <2> HIDE DEF t, move
    <2> QED
      BY <1>1, <1>2, <1>3
  <1> HIDE DEF s
  <1> QED
    BY <1>2, <1>4, <1>5, ScriptCat, Zenon

LEMMA Base64Script == \A args : Script(cmdBase64(args))
  <1> SUFFICES ASSUME NEW args PROVE Script(cmdBase64(args))
    OBVIOUS
  <1> DEFINE file == Bare(args)
             bait == IF Has(args, "loot.jpg") THEN <<Log("HONEYTOKEN")>> ELSE <<>>
             data == IF Has(args, "-d") THEN <<Decode(IF file = <<>> THEN "" ELSE file[1])>> ELSE Report
  <1>1. Script1(data) /\ Script(data)
    <2>1. \A x : Script0(<<Decode(x)>>)
      BY FlatFacts, Tuples1
    <2> HIDE DEF file
    <2>2. Script0(data)
      BY <2>1, Outputs, Zenon
    <2> QED
      BY <2>2, Nested, Zenon
  <1>2. Script(bait)
    <2>1. Script(<<Log("HONEYTOKEN")>>) /\ Script(<<>>)
      BY PlainScripts, Nested, Zenon
    <2> QED
      BY <2>1
  <1>3. cmdBase64(args) \in {bait \o data, <<IfFile(file[1], data, Failure)>>}
    BY DEF cmdBase64
  <1> HIDE DEF file, bait, data
  <1>4. Script(bait \o data)
    BY <1>1, <1>2, ScriptCat
  <1>5. Script(<<IfFile(file[1], data, Failure)>>)
    <2>1. Script1(Failure)
      BY Outputs, Nested, Zenon
    <2> QED
      BY <1>1, <2>1, BranchScripts, Zenon
  <1> QED
    BY <1>3, <1>4, <1>5

LEMMA DroppedScript == \A f : Script(DroppedExec(f))
  <1>1. \A f : Eff1(IfFull(f, <<Log("DROPPER")>>, <<>>))
    BY PlainScripts, BranchFacts, Zenon
  <1>2. Eff1(Log("EXEC_ATTEMPT")) /\ Eff1(Output(0, 0))
    BY FlatFacts, Frames2
  <1>3. \A f : Script1(<<IfFull(f, <<Log("DROPPER")>>, <<>>), Log("EXEC_ATTEMPT"), Output(0, 0)>>)
    BY <1>1, <1>2, Tuples3, Zenon
  <1>4. Script1(NotFound) /\ Script(NotFound)
    BY Outputs, Nested, Zenon
  <1>5. \A f : Script(<<IfFile(f, <<IfFull(f, <<Log("DROPPER")>>, <<>>), Log("EXEC_ATTEMPT"), Output(0, 0)>>, NotFound)>>)
    BY <1>3, <1>4, BranchScripts, Zenon
  <1> QED
    BY <1>4, <1>5 DEF DroppedExec

LEMMA SmallCommands ==
  \A args : /\ Script(cmdLs(args)) /\ Script(cmdWhich(args)) /\ Script(cmdStat(args))
            /\ Script(cmdService(args)) /\ Script(cmdDpkg(args)) /\ Script(cmdCat(args))
            /\ Script(cmdBusybox(args)) /\ Script(cmdCd(args)) /\ Script(Filter(args))
            /\ Script(cmdHistory(args)) /\ Script(cmdSleep(args))
  <1>1. /\ Script1(Success) /\ Script1(Failure) /\ Script1(Report) /\ Script1(<<Output(0, 1)>>) /\ Script1(<<>>)
        /\ Script(Success) /\ Script(Report) /\ Script(NotFound) /\ Script(<<>>)
    BY Outputs, Nested, Zenon
  <1>2. /\ Script(<<Either(Report, Success)>>) /\ Script(<<Either(Report, <<Output(0, 1)>>)>>)
        /\ Script(<<Either(Report, Failure)>>) /\ Script(<<Either(Success, Failure)>>)
    BY <1>1, BranchScripts, Zenon
  <1>3. Script(<<Either(Report, Failure), Either(<<>>, <<Output(0, 1)>>)>>)
    <2>1. Eff2(Either(Report, Failure)) /\ Eff2(Either(<<>>, <<Output(0, 1)>>))
      BY <1>1, BranchFacts, Zenon
    <2> QED
      BY <2>1, Tuples2, Zenon
  <1>4. \A args : /\ Script(cmdLs(args)) /\ Script(cmdWhich(args)) /\ Script(cmdStat(args))
                  /\ Script(cmdService(args)) /\ Script(cmdDpkg(args)) /\ Script(cmdCd(args))
    BY <1>1, <1>2, <1>3 DEF cmdLs, cmdWhich, cmdStat, cmdService, cmdDpkg, cmdCd
  <1>5. \A x : Script(<<Command(x, FALSE)>>)
    BY FlatFacts, Frames2, Tuples1, Zenon
  <1>6. \A args : Script(cmdBusybox(args))
    BY <1>1, <1>5 DEF cmdBusybox
  <1>7. /\ Script(<<PassStdin>>) /\ Script(<<Log("HONEYTOKEN")>>) /\ Script(<<Log("COMMAND")>>) /\ Script(<<Pause>>)
    BY FlatFacts, Frames2, Tuples1, Zenon
  <1>8. /\ Script(<<Log("HONEYTOKEN")>> \o Report) /\ Script(<<Log("COMMAND")>> \o Success)
        /\ Script(<<Pause>> \o Success) /\ Script(<<>> \o Success)
    BY <1>1, <1>7, ScriptCat, Zenon
  <1>9. \A args : /\ Script(cmdCat(args)) /\ Script(Filter(args))
                  /\ Script(cmdHistory(args)) /\ Script(cmdSleep(args))
    BY <1>1, <1>2, <1>7, <1>8 DEF cmdCat, Filter, cmdHistory, cmdSleep
  <1> QED
    BY <1>4, <1>6, <1>9, Zenon

LEMMA CommandScript == \A as : Script(runCommand(as))
  <1>1. /\ Script(Success) /\ Script(Report) /\ Script(NotFound) /\ Script(<<Output(0, 1)>>)
        /\ Script1(Success) /\ Script1(NotFound)
    BY Outputs, Nested, Zenon
  <1>2. Script(<<Either(Success, NotFound)>>)
    BY <1>1, BranchScripts, Zenon
  <1>3. Script(<<Quit>>) /\ Script(<<EchoArgs>>) /\ Script(<<PassStdin>>) /\ \A x : Script(<<Command(x, TRUE)>>)
    BY FlatFacts, Frames2, Tuples1, Zenon
  <1>4. Script(<<Quit>> \o Report)
    BY <1>1, <1>3, ScriptCat, Zenon
  <1> SUFFICES ASSUME NEW as PROVE Script(runCommand(as))
    OBVIOUS
  <1> DEFINE args == <<BinPath(as[1])>> \o Tail(as)
  <1>5. /\ Script(cmdLs(args)) /\ Script(cmdWhich(args)) /\ Script(cmdStat(args))
        /\ Script(cmdService(args)) /\ Script(cmdDpkg(args)) /\ Script(cmdCat(args))
        /\ Script(cmdBusybox(args)) /\ Script(cmdCd(args)) /\ Script(Filter(args))
        /\ Script(cmdHistory(args)) /\ Script(cmdSleep(args)) /\ Script(cmdTest(args))
        /\ Script(cmdMutate(args)) /\ Script(cmdBase64(args)) /\ Script(DroppedExec("f"))
    <2> HIDE DEF args
    <2> QED
      BY SmallCommands, TestScript, MutateScript, Base64Script, DroppedScript, Zenon
  <1>6. Script(IF Len(args) > 1 THEN <<Command(Tail(args), TRUE)>> ELSE Success)
    BY <1>1, <1>3
  <1> QED
    BY <1>1, <1>2, <1>3, <1>4, <1>5, <1>6 DEF runCommand

-----------------------------------------------------------------------------
(* Texts.                                                                  *)

\* A set of naturals has a least element.
LEMMA LeastNat ==
  ASSUME NEW T \in SUBSET Nat, T # {}
  PROVE  \E m \in T : \A n \in T : m <= n
  <1> DEFINE R == OpToRel(<, Nat)
  <1>1. IsWellFoundedOn(R, Nat)
    BY NatLessThanWellFounded, Zenon
  <1>2. \A x, y \in Nat : x < y => <<x, y>> \in R
    BY DEF OpToRel
  <1> HIDE DEF R
  <1>3. PICK m \in T : \A y \in T : ~(<<y, m>> \in R)
    BY <1>1, WFMin
  <1>4. \A n \in T : ~(n < m)
    BY <1>2, <1>3
  <1>5. \A n \in T : m <= n
    BY <1>4
  <1> QED
    BY <1>5, Zenon

LEMMA TextFacts ==
  /\ Empty.len \in Nat /\ Empty.len = 0 /\ Absent.len = -1
  /\ \A t : Word(t).len \in Nat
  BY DEF Empty, Absent, Word

LEMMA JoinLen == \A v, w : v.len \in Nat /\ w.len \in Nat => Join(v, w).len \in Nat
  <1>1. ASSUME NEW v, NEW w, v.len \in Nat, w.len \in Nat PROVE Join(v, w).len \in Nat
    <2>1. CASE v.len = 0
      BY <1>1, <2>1 DEF Join
    <2>2. CASE v.len # 0 /\ w.len = 0
      BY <1>1, <2>2 DEF Join
    <2>3. CASE v.len # 0 /\ w.len # 0
      <3>1. Join(v, w) = [text |-> "joined", len |-> v.len + w.len]
        BY <2>3 DEF Join
      <3> QED
        BY <1>1, <3>1
    <2> QED
      BY <2>1, <2>2, <2>3
  <1> QED
    BY <1>1

\* The concatenations of the prefixes of vs.
Concats(vs, g) == g = [i \in 0..Len(vs) |-> IF i = 0 THEN Empty ELSE Join(g[i - 1], vs[i])]

LEMMA ConcatsExist ==
  ASSUME NEW vs, Len(vs) \in Nat
  PROVE  \E h : Concats(vs, h)
  <1> DEFINE W(h, i) == IF i = 0 THEN Empty ELSE Join(h[i - 1], vs[i])
             Upto(n, h) == \A i \in 0..n : h[i] = W(h, i)
             T == {n \in Nat : ~\E h : Upto(n, h)}
  <1>1. ASSUME T # {} PROVE FALSE
    <2>1. PICK m \in T : \A n \in T : m <= n
      BY <1>1, LeastNat
    <2>2. CASE m = 0
      <3> DEFINE h == [i \in {0} |-> Empty]
      <3>1. Upto(0, h)
        OBVIOUS
      <3> QED
        BY <2>1, <2>2, <3>1
    <2>3. CASE m # 0
      <3>0. m \in Nat /\ m - 1 \in Nat /\ ~(m <= m - 1)
        BY <2>1, <2>3
      <3>1. m - 1 \in Nat /\ m \in Nat /\ m - 1 \notin T
        <4> HIDE DEF T
        <4> QED
          BY <2>1, <3>0
      <3>2. PICK f : Upto(m - 1, f)
        BY <3>1
      <3> DEFINE h == [i \in 0..m |-> IF i < m THEN f[i] ELSE W(f, i)]
      <3>3. ASSUME NEW i \in 0..m PROVE h[i] = W(h, i)
        <4>1. h[i] = W(f, i)
          BY <3>1, <3>2, <3>3
        <4>2. i # 0 => h[i - 1] = f[i - 1]
          BY <3>1, <3>3
        <4> HIDE DEF h
        <4> QED
          BY <4>1, <4>2
      <3>4. Upto(m, h)
        <4> HIDE DEF h
        <4> QED
          BY <3>3
      <3> QED
        BY <2>1, <3>4
    <2> QED
      BY <2>2, <2>3
  <1>2. PICK f : Upto(Len(vs), f)
    BY <1>1
  <1> DEFINE h == [i \in 0..Len(vs) |-> f[i]]
  <1>3. ASSUME NEW i \in 0..Len(vs) PROVE f[i] = W(h, i)
    <2>1. i # 0 => h[i - 1] = f[i - 1]
      BY <1>3
    <2> HIDE DEF h
    <2> QED
      BY <1>2, <2>1
  <1>4. Concats(vs, h)
    BY <1>3 DEF Concats
  <1> QED
    BY <1>4

\* What is joined of texts is a text.
LEMMA JoinedLen ==
  ASSUME NEW vs, Vals(vs)
  PROVE  Joined(vs).len \in Nat
  <1> DEFINE g == CHOOSE h : Concats(vs, h)
  <1>1. Joined(vs) = g[Len(vs)]
    BY Zenon DEF Joined, Concats
  <1>2. /\ Len(vs) \in Nat /\ DOMAIN vs = 1..Len(vs)
        /\ \A i \in 1..Len(vs) : vs[i].len \in Nat
    BY StackFacts DEF Vals
  <1>3. Concats(vs, g)
    BY <1>2, ConcatsExist, Zenon
  <1> HIDE DEF g
  <1>4. /\ g[0] = Empty
        /\ \A i \in 1..Len(vs) : g[i] = Join(g[i - 1], vs[i])
    BY <1>2, <1>3 DEF Concats
  <1> DEFINE T == {i \in 0..Len(vs) : ~(g[i].len \in Nat)}
  <1>5. ASSUME T # {} PROVE FALSE
    <2>0. T \in SUBSET Nat
      BY <1>2
    <2>1. PICK m \in T : \A n \in T : m <= n
      <3> HIDE DEF T
      <3> QED
        BY <1>5, <2>0, LeastNat
    <2>2. m # 0
      <3>1. g[0].len \in Nat
        BY <1>4, TextFacts, Zenon
      <3> QED
        BY <2>1, <3>1
    <2>3. m \in 1..Len(vs) /\ m - 1 \in 0..Len(vs) /\ ~(m <= m - 1)
      BY <1>2, <2>1, <2>2
    <2>4. g[m - 1].len \in Nat
      BY <2>1, <2>3
    <2>5. g[m].len \in Nat
      BY <1>2, <1>4, <2>3, <2>4, JoinLen
    <2> QED
      BY <2>1, <2>5
  <1>6. Len(vs) \in 0..Len(vs)
    BY <1>2
  <1> QED
    BY <1>1, <1>5, <1>6

LEMMA ValsFacts ==
  /\ Vals(<<>>)
  /\ \A vs, v : Vals(vs) /\ v.len \in Nat => Vals(Append(vs, v))
  /\ \A vs : Vals(vs) => Vals(Operands(vs))
  <1>1. Vals(<<>>)
    BY Tuples0 DEF Vals, Script0
  <1>2. ASSUME NEW vs, NEW v, Vals(vs), v.len \in Nat PROVE Vals(Append(vs, v))
    <2>1. PICK S : vs \in Seq(S)
      BY <1>2 DEF Vals, IsStack
    <2>2. vs \in Seq(S \cup {v})
      <3>1. \A A, B : \A x \in Seq(A) : x \in Seq(A \cup B)
        OBVIOUS
      <3> QED
        BY <2>1, <3>1
    <2>3. /\ Append(vs, v) \in Seq(S \cup {v}) /\ Len(Append(vs, v)) = Len(vs) + 1
          /\ DOMAIN Append(vs, v) = 1..(Len(vs) + 1)
          /\ \A i \in 1..Len(vs) : Append(vs, v)[i] = vs[i]
          /\ Append(vs, v)[Len(vs) + 1] = v /\ Len(vs) \in Nat /\ DOMAIN vs = 1..Len(vs)
      BY <2>2
    <2>4. \A i \in 1..(Len(vs) + 1) : i \in 1..Len(vs) \/ i = Len(vs) + 1
      BY <2>3
    <2>5. \A i \in 1..(Len(vs) + 1) : Append(vs, v)[i].len \in Nat
      BY <1>2, <2>3, <2>4 DEF Vals
    <2> QED
      BY <2>3, <2>5 DEF Vals, IsStack
  <1>3. ASSUME NEW vs, Vals(vs) PROVE Vals(Operands(vs))
    <2>1. PICK S : vs \in Seq(S)
      BY <1>3 DEF Vals, IsStack
    <2>2. Len(vs) \in Nat /\ DOMAIN vs = 1..Len(vs)
      BY <2>1
    <2>3. CASE Len(vs) >= 2
      <3>1. /\ Operands(vs) \in Seq(S) /\ Len(Operands(vs)) = Len(vs) - 1
            /\ \A i \in 1..(Len(vs) - 1) : Operands(vs)[i] = vs[i + 1]
        BY <2>1, <2>2, <2>3 DEF Operands
      <3>2. DOMAIN Operands(vs) = 1..(Len(vs) - 1) /\ \A i \in 1..(Len(vs) - 1) : i + 1 \in DOMAIN vs
        BY <2>2, <2>3, <3>1
      <3> QED
        BY <1>3, <3>1, <3>2 DEF Vals, IsStack
    <2>4. CASE Len(vs) < 2
      <3>1. Operands(vs) = <<>>
        BY <2>1, <2>2, <2>4 DEF Operands
      <3> QED
        BY <1>1, <3>1
    <2> QED
      BY <2>2, <2>3, <2>4
  <1> QED
    BY <1>1, <1>2, <1>3

-----------------------------------------------------------------------------
(* Stacks with a common rest.                                              *)

\* The frames of s behind the first n are those of t, d places further.
Moved(s, n, t, d) ==
  /\ IsStack(s) /\ IsStack(t) /\ n \in Nat /\ d \in Int /\ n + d \in Nat
  /\ n <= Len(s) /\ Len(t) = Len(s) + d
  /\ \A i \in DOMAIN s : i > n => t[i + d] = s[i]

LEMMA MovedFacts ==
  ASSUME NEW s, NEW n, NEW t, NEW d, Moved(s, n, t, d)
  PROVE  /\ \A i \in DOMAIN s : i > n => i + d \in DOMAIN t /\ i + d > n + d /\ t[i + d] = s[i]
         /\ \A j \in DOMAIN t : j > n + d => j - d \in DOMAIN s /\ j - d > n /\ s[j - d] = t[j]
  <1>1. /\ n \in Nat /\ d \in Int /\ n + d \in Nat /\ n <= Len(s) /\ Len(t) = Len(s) + d
        /\ Len(s) \in Nat /\ DOMAIN s = 1..Len(s) /\ DOMAIN t = 1..Len(t)
    BY StackFacts DEF Moved
  <1>2. \A i \in DOMAIN s : i > n => i + d \in DOMAIN t /\ i + d > n + d
    BY <1>1
  <1>3. \A j \in DOMAIN t : j > n + d => j - d \in DOMAIN s /\ j - d > n /\ (j - d) + d = j
    BY <1>1
  <1>4. \A i \in DOMAIN s : i > n => t[i + d] = s[i]
    BY DEF Moved
  <1>5. \A j \in DOMAIN t : j > n + d => s[j - d] = t[j]
    BY <1>3, <1>4
  <1> QED
    BY <1>2, <1>3, <1>4, <1>5

LEMMA ShiftCount ==
  ASSUME NEW A \in SUBSET Int, NEW B \in SUBSET Int, NEW d \in Int, IsFiniteSet(A),
         \A a \in A : a + d \in B, \A b \in B : b - d \in A
  PROVE  IsFiniteSet(B) /\ Cardinality(B) = Cardinality(A)
  <1> DEFINE f == [a \in A |-> a + d]
  <1>1. f \in [A -> B]
    OBVIOUS
  <1>2. \A a, b \in A : f[a] = f[b] => a = b
    OBVIOUS
  <1>3. \A b \in B : \E a \in A : f[a] = b
    <2> TAKE b \in B
    <2>1. b - d \in A /\ f[b - d] = b
      OBVIOUS
    <2> QED
      BY <2>1
  <1>4. f \in Bijection(A, B)
    <2> HIDE DEF f
    <2>1. f \in Injection(A, B)
      BY <1>1, <1>2 DEF Injection, IsInjective
    <2>2. f \in Surjection(A, B)
      BY <1>1, <1>3 DEF Surjection
    <2> QED
      BY <2>1, <2>2 DEF Bijection
  <1>5. ExistsBijection(A, B)
    BY <1>4 DEF ExistsBijection
  <1> QED
    BY <1>5, FS_Bijection

LEMMA FramesFinite ==
  ASSUME NEW s, IsStack(s), NEW A \in SUBSET DOMAIN s
  PROVE  IsFiniteSet(A) /\ Cardinality(A) \in Nat /\ A \in SUBSET Int
  <1>1. Len(s) \in Nat /\ DOMAIN s = 1..Len(s)
    BY StackFacts
  <1>2. IsFiniteSet(1..Len(s)) /\ 1..Len(s) \subseteq Int
    BY <1>1, FS_Interval
  <1>3. IsFiniteSet(A)
    BY <1>1, <1>2, FS_Subset
  <1> QED
    BY <1>1, <1>2, <1>3, FS_CardinalityType

LEMMA OwnerShift ==
  ASSUME NEW s, NEW n, NEW t, NEW d, Moved(s, n, t, d), NEW i \in Int, i > n
  PROVE  OwnerIn(t, i + d) = OwnerIn(s, i)
  <1> DEFINE A == {j \in DOMAIN s : s[j].do = "endShell" /\ j >= i}
             B == {j \in DOMAIN t : t[j].do = "endShell" /\ j >= i + d}
  <1>1. /\ \A j \in DOMAIN s : j > n => j + d \in DOMAIN t /\ j + d > n + d /\ t[j + d] = s[j]
        /\ \A j \in DOMAIN t : j > n + d => j - d \in DOMAIN s /\ j - d > n /\ s[j - d] = t[j]
    BY MovedFacts
  <1>2. d \in Int /\ n \in Nat /\ IsStack(s) /\ IsStack(t)
    BY DEF Moved
  <1>3. IsFiniteSet(A) /\ A \in SUBSET Int /\ B \in SUBSET Int
    BY <1>2, FramesFinite
  <1>4. \A a \in A : a > n /\ a + d >= i + d
    BY <1>2, <1>3
  <1>5. \A b \in B : b > n + d /\ b - d >= i
    BY <1>2, <1>3
  <1>6. \A a \in A : a + d \in B
    BY <1>1, <1>4
  <1>7. \A b \in B : b - d \in A
    BY <1>1, <1>5
  <1> HIDE DEF A, B
  <1>8. Cardinality(B) = Cardinality(A)
    BY <1>2, <1>3, <1>6, <1>7, ShiftCount
  <1> QED
    BY <1>8 DEF OwnerIn, A, B

\* Frames between which no shell ends belong to the same one.
LEMMA OwnerRun ==
  ASSUME NEW s, IsStack(s), NEW i \in Int, NEW j \in Int, i <= j,
         \A h \in DOMAIN s : h >= i /\ h < j => s[h].do # "endShell"
  PROVE  OwnerIn(s, i) = OwnerIn(s, j)
  <1>1. \A h \in DOMAIN s : h \in Int
    BY StackFacts
  <1>2. {h \in DOMAIN s : s[h].do = "endShell" /\ h >= i} = {h \in DOMAIN s : s[h].do = "endShell" /\ h >= j}
    BY <1>1
  <1> QED
    BY <1>2 DEF OwnerIn

LEMMA OwnerFacts ==
  ASSUME NEW s, IsStack(s)
  PROVE  /\ \A i : OwnerIn(s, i) \in Nat
         /\ \A i, j \in Int : i <= j => OwnerIn(s, j) <= OwnerIn(s, i)
         /\ \A i \in DOMAIN s : s[i].do = "endShell" => OwnerIn(s, i) = OwnerIn(s, i + 1) + 1
  <1> DEFINE A(i) == {j \in DOMAIN s : s[j].do = "endShell" /\ j >= i}
  <1>1. \A i : OwnerIn(s, i) = Cardinality(A(i)) /\ A(i) \in SUBSET DOMAIN s
    BY DEF OwnerIn
  <1>2. \A h \in DOMAIN s : h \in Int
    BY StackFacts
  <1>3. \A i, j \in Int : i <= j => A(j) \in SUBSET A(i)
    BY <1>2
  <1>4. \A i \in DOMAIN s : s[i].do = "endShell" => A(i) = A(i + 1) \cup {i} /\ i \notin A(i + 1)
    BY <1>2
  <1> HIDE DEF A
  <1>5. \A i : IsFiniteSet(A(i)) /\ Cardinality(A(i)) \in Nat
    BY <1>1, FramesFinite
  <1>6. ASSUME NEW i \in Int, NEW j \in Int, i <= j PROVE Cardinality(A(j)) <= Cardinality(A(i))
    BY <1>3, <1>5, <1>6, FS_Subset
  <1>7. ASSUME NEW i \in DOMAIN s, s[i].do = "endShell" PROVE Cardinality(A(i)) = Cardinality(A(i + 1)) + 1
    BY <1>4, <1>5, <1>7, FS_AddElement
  <1> QED
    BY <1>1, <1>5, <1>6, <1>7

\* The lines of shell m behind the first n frames.
Behind(s, n, m) == {i \in Lines(s, m) : i > n}

LEMMA BehindShift ==
  ASSUME NEW s, NEW n, NEW t, NEW d, Moved(s, n, t, d), NEW m
  PROVE  /\ IsFiniteSet(Behind(s, n, m)) /\ IsFiniteSet(Behind(t, n + d, m))
         /\ Cardinality(Behind(t, n + d, m)) = Cardinality(Behind(s, n, m))
         /\ Cardinality(Behind(s, n, m)) \in Nat
  <1> DEFINE A == Behind(s, n, m)
             B == Behind(t, n + d, m)
  <1>1. /\ \A j \in DOMAIN s : j > n => j + d \in DOMAIN t /\ j + d > n + d /\ t[j + d] = s[j]
        /\ \A j \in DOMAIN t : j > n + d => j - d \in DOMAIN s /\ j - d > n /\ s[j - d] = t[j]
    BY MovedFacts
  <1>2. d \in Int /\ n \in Nat /\ IsStack(s) /\ IsStack(t)
    BY DEF Moved
  <1>3. /\ A = {i \in DOMAIN s : s[i].do = "endLine" /\ OwnerIn(s, i) = m /\ i > n}
        /\ B = {i \in DOMAIN t : t[i].do = "endLine" /\ OwnerIn(t, i) = m /\ i > n + d}
    BY DEF Behind, Lines
  <1>4. IsFiniteSet(A) /\ A \in SUBSET Int /\ B \in SUBSET Int /\ Cardinality(A) \in Nat
    BY <1>2, <1>3, FramesFinite
  <1> HIDE DEF A, B
  <1>5. ASSUME NEW a \in A PROVE a + d \in B
    <2>1. OwnerIn(t, a + d) = OwnerIn(s, a)
      BY <1>3, <1>4, OwnerShift
    <2> QED
      BY <1>1, <1>3, <2>1
  <1>6. ASSUME NEW b \in B PROVE b - d \in A
    <2>1. b - d \in Int /\ b - d > n /\ (b - d) + d = b
      BY <1>2, <1>3, <1>4, <1>6, <1>1
    <2>2. OwnerIn(t, (b - d) + d) = OwnerIn(s, b - d)
      BY <2>1, OwnerShift
    <2> QED
      BY <1>1, <1>3, <2>1, <2>2
  <1>7. IsFiniteSet(B) /\ Cardinality(B) = Cardinality(A)
    BY <1>2, <1>4, <1>5, <1>6, ShiftCount
  <1> QED
    BY <1>4, <1>7 DEF A, B

\* What is true of a frame because of one behind it stays true.
LEMMA BehindKept ==
  ASSUME NEW s, NEW n, NEW t, NEW d, Moved(s, n, t, d)
  PROVE  /\ \A i \in Int : i >= n => \A m : Diverted(s, m, i) => Diverted(t, m, i + d)
         /\ \A i \in DOMAIN s : i > n /\ InLine(s, i) => InLine(t, i + d)
  <1>1. /\ \A j \in DOMAIN s : j > n => j + d \in DOMAIN t /\ j + d > n + d /\ t[j + d] = s[j]
        /\ d \in Int /\ n \in Nat /\ \A j \in DOMAIN s : j \in Int
    BY MovedFacts, StackFacts DEF Moved
  <1>2. \A i \in Int : i > n => OwnerIn(t, i + d) = OwnerIn(s, i)
    BY OwnerShift
  <1>3. ASSUME NEW i \in Int, i >= n, NEW m, Diverted(s, m, i) PROVE Diverted(t, m, i + d)
    <2>1. PICK j \in DOMAIN s : j > i /\ s[j].do = "endCapture" /\ OwnerIn(s, j) = m
      BY <1>3 DEF Diverted
    <2>2. j > n /\ j + d > i + d /\ j \in Int
      BY <1>1, <1>3, <2>1
    <2> DEFINE h == j + d
    <2>3. h \in DOMAIN t /\ h > i + d /\ t[h].do = "endCapture" /\ OwnerIn(t, h) = m
      BY <1>1, <1>2, <2>1, <2>2
    <2> HIDE DEF h
    <2> QED
      BY <2>3 DEF Diverted
  <1>4. ASSUME NEW i \in DOMAIN s, i > n, InLine(s, i) PROVE InLine(t, i + d)
    <2>1. PICK j \in DOMAIN s : j > i /\ s[j].do = "endLine" /\ OwnerIn(s, j) = OwnerIn(s, i)
      BY <1>4 DEF InLine
    <2>2. j > n /\ j + d > i + d /\ j \in Int /\ i \in Int
      BY <1>1, <1>4, <2>1
    <2> DEFINE h == j + d
    <2>3. h \in DOMAIN t /\ h > i + d /\ t[h].do = "endLine" /\ OwnerIn(t, h) = OwnerIn(t, i + d)
      BY <1>1, <1>2, <1>4, <2>1, <2>2
    <2> HIDE DEF h
    <2> QED
      BY <2>3 DEF InLine
  <1> QED
    BY <1>3, <1>4

\* The rest of a stack behind its first n frames.
LEMMA RestOf ==
  ASSUME NEW s, IsStack(s), NEW n \in Nat, n <= Len(s)
  PROVE  /\ IsStack(SubSeq(s, n + 1, Len(s))) /\ Len(SubSeq(s, n + 1, Len(s))) = Len(s) - n
         /\ \A i \in 1..(Len(s) - n) : SubSeq(s, n + 1, Len(s))[i] = s[n + i]
  <1>1. PICK S : s \in Seq(S)
    BY DEF IsStack
  <1>2. Len(s) \in Nat
    BY <1>1
  <1>3. SubSeq(s, n + 1, Len(s)) \in Seq(S)
    BY <1>1, <1>2
  <1>4. Len(SubSeq(s, n + 1, Len(s))) = Len(s) - n
    BY <1>1, <1>2
  <1>5. \A i \in 1..(Len(s) - n) : SubSeq(s, n + 1, Len(s))[i] = s[n + i]
    BY <1>1, <1>2
  <1> QED
    BY <1>3, <1>4, <1>5 DEF IsStack

\* Frames put in the place of the first n.
LEMMA Spliced ==
  ASSUME NEW s, NEW p, NEW n \in Nat, IsStack(s), IsStack(p), n <= Len(s)
  PROVE  LET t == p \o SubSeq(s, n + 1, Len(s)) IN
         /\ Moved(s, n, t, Len(p) - n) /\ IsStack(t)
         /\ Len(p) \in Nat /\ Len(t) = Len(p) + (Len(s) - n)
         /\ \A i \in DOMAIN p : i \in DOMAIN t /\ i <= Len(p) /\ t[i] = p[i]
         /\ \A i \in DOMAIN t : i \in DOMAIN p \/ i > Len(p)
  <1> DEFINE r == SubSeq(s, n + 1, Len(s))
             t == p \o r
  <1>2. /\ IsStack(r) /\ Len(r) = Len(s) - n
        /\ \A i \in 1..(Len(s) - n) : r[i] = s[n + i]
    BY RestOf
  <1> HIDE DEF r
  <1>3. /\ Len(s) \in Nat /\ DOMAIN s = 1..Len(s) /\ DOMAIN r = 1..(Len(s) - n)
        /\ Len(p) \in Nat /\ DOMAIN p = 1..Len(p)
    BY <1>2, StackFacts
  <1>4. /\ IsStack(t) /\ Len(t) = Len(p) + Len(r)
        /\ \A i \in DOMAIN p : t[i] = p[i]
        /\ \A i \in DOMAIN r : t[Len(p) + i] = r[i]
    <2>1. IsStack(r)
      BY <1>2
    <2> HIDE DEF t
    <2>2. t = p \o r
      BY DEF t
    <2>3. IsStack(p \o r) /\ Len(p \o r) = Len(p) + Len(r)
      BY <2>1, StackCat
    <2>4. \A i \in DOMAIN p : (p \o r)[i] = p[i]
      BY <2>1, StackCat
    <2>5. \A i \in DOMAIN r : (p \o r)[Len(p) + i] = r[i]
      BY <2>1, CatBehind, Zenon
    <2> QED
      BY <2>2, <2>3, <2>4, <2>5
  <1> HIDE DEF t
  <1>5. DOMAIN t = 1..Len(t)
    BY <1>4, StackFacts
  <1>6. ASSUME NEW i \in DOMAIN s, i > n PROVE t[i + (Len(p) - n)] = s[i]
    <2>1. i - n \in 1..(Len(s) - n) /\ Len(p) + (i - n) = i + (Len(p) - n) /\ n + (i - n) = i
      BY <1>3, <1>6
    <2>2. t[Len(p) + (i - n)] = r[i - n] /\ r[i - n] = s[n + (i - n)]
      BY <1>2, <1>3, <1>4, <2>1
    <2> QED
      BY <2>1, <2>2
  <1>7. /\ Len(p) - n \in Int /\ n + (Len(p) - n) \in Nat
        /\ Len(t) = Len(s) + (Len(p) - n) /\ Len(t) = Len(p) + (Len(s) - n)
    BY <1>2, <1>3, <1>4
  <1>8. Moved(s, n, t, Len(p) - n)
    BY <1>4, <1>6, <1>7 DEF Moved
  <1>9. /\ \A i \in DOMAIN p : i \in DOMAIN t /\ i <= Len(p)
        /\ \A i \in DOMAIN t : i \in DOMAIN p \/ i > Len(p)
    <2>1. Len(p) <= Len(t) /\ Len(t) \in Nat
      BY <1>3, <1>7
    <2> QED
      BY <1>3, <1>5, <2>1
  <1>10. /\ Moved(s, n, t, Len(p) - n) /\ IsStack(t)
         /\ Len(p) \in Nat /\ Len(t) = Len(p) + (Len(s) - n)
         /\ \A i \in DOMAIN p : i \in DOMAIN t /\ i <= Len(p) /\ t[i] = p[i]
         /\ \A i \in DOMAIN t : i \in DOMAIN p \/ i > Len(p)
    BY <1>3, <1>4, <1>7, <1>8, <1>9
  <1> QED
    BY <1>10, Zenon DEF t, r

-----------------------------------------------------------------------------
(* What a step leaves of the shape of the stack.                           *)

\* t is s with p in the place of its first n frames.
Put(s, n, p, t) ==
  /\ Moved(s, n, t, Len(p) - n) /\ IsStack(p)
  /\ \A i \in DOMAIN p : i \in DOMAIN t /\ i <= Len(p) /\ t[i] = p[i]
  /\ \A i \in DOMAIN t : i \in DOMAIN p \/ i > Len(p)

LEMMA SplicedPut ==
  ASSUME NEW s, NEW p, NEW n \in Nat, IsStack(s), IsStack(p), n <= Len(s)
  PROVE  Put(s, n, p, p \o SubSeq(s, n + 1, Len(s)))
  BY Spliced DEF Put

LEMMA PutFacts ==
  ASSUME NEW s, NEW n, NEW p, NEW t, Put(s, n, p, t)
  PROVE  /\ IsStack(s) /\ IsStack(t) /\ IsStack(p) /\ n \in Nat /\ n <= Len(s)
         /\ Len(p) \in Nat /\ Len(s) \in Nat /\ Len(t) = Len(p) + (Len(s) - n)
         /\ DOMAIN p = 1..Len(p) /\ DOMAIN s = 1..Len(s) /\ DOMAIN t = 1..Len(t)
         /\ \A j \in DOMAIN p : j \in DOMAIN t /\ t[j] = p[j]
         /\ \A j \in DOMAIN t : j > Len(p) =>
              j - (Len(p) - n) \in DOMAIN s /\ j - (Len(p) - n) > n /\ t[j] = s[j - (Len(p) - n)]
         /\ \A i \in DOMAIN s : i > n =>
              i + (Len(p) - n) \in DOMAIN t /\ i + (Len(p) - n) > Len(p) /\ t[i + (Len(p) - n)] = s[i]
  <1> DEFINE d == Len(p) - n
  <1>1. Moved(s, n, t, d) /\ IsStack(p)
    BY DEF Put
  <1>2. IsStack(s) /\ IsStack(t) /\ n \in Nat /\ n <= Len(s) /\ Len(t) = Len(s) + d
    BY <1>1 DEF Moved
  <1>3. /\ Len(p) \in Nat /\ Len(s) \in Nat
        /\ DOMAIN p = 1..Len(p) /\ DOMAIN s = 1..Len(s) /\ DOMAIN t = 1..Len(t)
    BY <1>1, <1>2, StackFacts
  <1>4. n + d = Len(p) /\ Len(t) = Len(p) + (Len(s) - n)
    BY <1>2, <1>3
  <1>5. /\ \A i \in DOMAIN s : i > n => i + d \in DOMAIN t /\ i + d > n + d /\ t[i + d] = s[i]
        /\ \A j \in DOMAIN t : j > n + d => j - d \in DOMAIN s /\ j - d > n /\ s[j - d] = t[j]
    <2> HIDE DEF d
    <2> QED
      BY <1>1, MovedFacts
  <1>6. \A j \in DOMAIN p : j \in DOMAIN t /\ t[j] = p[j]
    BY DEF Put
  <1>7. /\ \A i \in DOMAIN s : i > n => i + d \in DOMAIN t /\ i + d > Len(p) /\ t[i + d] = s[i]
        /\ \A j \in DOMAIN t : j > Len(p) => j - d \in DOMAIN s /\ j - d > n /\ t[j] = s[j - d]
    <2> HIDE DEF d
    <2> QED
      BY <1>4, <1>5
  <1> QED
    BY <1>1, <1>2, <1>3, <1>4, <1>6, <1>7

\* Frames that may be put on a stack.
Frames1(p) ==
  /\ IsStack(p) /\ Told(p)
  /\ \A i \in DOMAIN p : FrameOK(p[i]) /\ p[i].do # "endOutput"
  /\ \A i \in DOMAIN p : i < Len(p) => Fits(p[i], p[i + 1])
  /\ \A i \in DOMAIN p : i > 2 /\ p[i].do = "endCapture" => p[i - 1].do # "line"

LEMMA ShapeKept ==
  ASSUME NEW s, NEW n, NEW p, NEW t, Put(s, n, p, t), Shape(s), Frames1(p),
         p # <<>> => /\ n < Len(s) /\ Fits(p[Len(p)], s[n + 1])
                     /\ Len(p) > 1 /\ s[n + 1].do = "endCapture" => p[Len(p)].do # "line",
         n = 0 => s # <<>> /\ s[1].do # "line"
  PROVE  Shape(t)
  <1> DEFINE d == Len(p) - n
  <1>1. /\ IsStack(s) /\ IsStack(t) /\ IsStack(p) /\ n \in Nat /\ n <= Len(s)
        /\ Len(p) \in Nat /\ Len(s) \in Nat /\ Len(t) = Len(p) + (Len(s) - n)
        /\ DOMAIN p = 1..Len(p) /\ DOMAIN s = 1..Len(s) /\ DOMAIN t = 1..Len(t)
    BY PutFacts
  <1>2. \A j \in DOMAIN p : j \in DOMAIN t /\ t[j] = p[j]
    BY PutFacts
  <1>3. /\ \A j \in DOMAIN t : j > Len(p) => j - d \in DOMAIN s /\ j - d > n /\ t[j] = s[j - d]
        /\ \A i \in DOMAIN s : i > n => i + d \in DOMAIN t /\ i + d > Len(p) /\ t[i + d] = s[i]
    BY PutFacts
  <1>4. \A j \in DOMAIN t : j \in DOMAIN p \/ j > Len(p)
    BY DEF Put
  <1>5. d \in Int /\ n + d = Len(p) /\ Len(s) + d = Len(t) /\ Len(t) \in Nat
    BY <1>1
  <1> HIDE DEF d
  <1>6. Told(t)
    <2> SUFFICES ASSUME NEW i \in DOMAIN t, t[i].do = "secret"
                 PROVE  \E j \in DOMAIN t : /\ j > i /\ LogsIt(t[j])
                                            /\ \A h \in i..(j - 1) : t[h].do \in {"say", "secret"}
      BY DEF Told
    <2>1. CASE i \in DOMAIN p
      <3>1. PICK j \in DOMAIN p : /\ j > i /\ LogsIt(p[j])
                                  /\ \A h \in i..(j - 1) : p[h].do \in {"say", "secret"}
        BY <1>2, <2>1 DEF Frames1, Told
      <3>2. j \in DOMAIN t /\ \A h \in i..(j - 1) : h \in DOMAIN p
        BY <1>1, <1>2, <2>1, <3>1
      <3> QED
        BY <1>2, <3>1, <3>2
    <2>2. CASE i > Len(p)
      <3>1. i - d \in DOMAIN s /\ i - d > n /\ t[i] = s[i - d]
        BY <1>3, <2>2
      <3>2. PICK j \in DOMAIN s : /\ j > i - d /\ LogsIt(s[j])
                                  /\ \A h \in (i - d)..(j - 1) : s[h].do \in {"say", "secret"}
        BY <3>1 DEF Shape, Told
      <3> DEFINE m == j + d
      <3>3. j > n /\ m > i /\ \A h \in i..(m - 1) :
              h - d \in (i - d)..(j - 1) /\ h > Len(p) /\ h \in 1..Len(t)
        BY <1>1, <1>5, <2>2, <3>1, <3>2
      <3>4. m \in DOMAIN t /\ LogsIt(t[m])
        BY <1>3, <3>2, <3>3
      <3>5. \A h \in i..(m - 1) : t[h].do \in {"say", "secret"}
        BY <1>1, <1>3, <3>2, <3>3
      <3> HIDE DEF m
      <3> QED
        BY <3>3, <3>4, <3>5
    <2> QED
      BY <1>4, <2>1, <2>2
  <1>7. ASSUME NEW j \in DOMAIN t PROVE FrameOK(t[j])
    BY <1>2, <1>3, <1>4 DEF Frames1, Shape
  <1>8. ASSUME NEW j \in DOMAIN t, j < Len(t) PROVE Fits(t[j], t[j + 1])
    <2>1. CASE j < Len(p)
      <3>1. j \in DOMAIN p /\ j + 1 \in DOMAIN p
        BY <1>1, <2>1
      <3> QED
        BY <1>2, <2>1, <3>1 DEF Frames1
    <2>2. CASE j = Len(p)
      <3>1. j \in DOMAIN p /\ n + 1 \in DOMAIN s /\ n + 1 > n /\ (n + 1) + d = j + 1 /\ p # <<>>
        BY <1>1, <1>5, <1>8, <2>2, StackFacts
      <3>2. t[j] = p[Len(p)] /\ t[j + 1] = s[n + 1]
        BY <1>2, <1>3, <2>2, <3>1
      <3> QED
        BY <3>1, <3>2
    <2>3. CASE j > Len(p)
      <3>1. j - d \in DOMAIN s /\ t[j] = s[j - d]
        BY <1>3, <2>3
      <3>2. (j + 1) - d = (j - d) + 1 /\ j + 1 \in DOMAIN t /\ j + 1 > Len(p) /\ j - d < Len(s)
        BY <1>1, <1>5, <1>8, <2>3
      <3>3. t[j + 1] = s[(j - d) + 1]
        BY <1>3, <3>2
      <3> QED
        BY <3>1, <3>2, <3>3 DEF Shape
    <2> QED
      BY <1>1, <2>1, <2>2, <2>3
  <1>9. ASSUME t # <<>> PROVE t[Len(t)].do = "endShell"
    <2>1. n < Len(s)
      <3>1. CASE p = <<>>
        BY <1>1, <1>9, <3>1, StackFacts
      <3>2. CASE p # <<>>
        BY <3>2
      <3> QED
        BY <3>1, <3>2
    <2>2. Len(s) \in DOMAIN s /\ Len(s) > n /\ s # <<>>
      BY <1>1, <2>1, StackFacts
    <2>3. t[Len(s) + d] = s[Len(s)]
      BY <1>3, <2>2
    <2> QED
      BY <1>5, <2>2, <2>3 DEF Shape
  <1>10. ASSUME NEW j \in DOMAIN t, t[j].do = "endOutput" PROVE j = Len(t) - 1
    <2>1. j > Len(p) /\ t[j] = s[j - d] /\ j - d \in DOMAIN s
      BY <1>2, <1>3, <1>4, <1>10 DEF Frames1
    <2>2. j - d = Len(s) - 1
      BY <1>10, <2>1 DEF Shape
    <2> QED
      BY <1>1, <1>5, <2>2
  <1>11. ASSUME NEW j \in DOMAIN t, j > 2, t[j].do = "endCapture" PROVE t[j - 1].do # "line"
    <2>1. CASE j \in DOMAIN p
      <3>1. j - 1 \in DOMAIN p
        BY <1>1, <1>11, <2>1
      <3> QED
        BY <1>2, <1>11, <2>1, <3>1 DEF Frames1
    <2>2. CASE j > Len(p)
      <3>1. j - d \in DOMAIN s /\ j - d > n /\ s[j - d].do = "endCapture"
        BY <1>3, <1>11, <2>2
      <3>2. CASE j - d = n + 1
        <4>1. j - 1 = Len(p) /\ Len(p) \in DOMAIN p /\ p # <<>> /\ Len(p) > 1
          BY <1>1, <1>5, <1>11, <3>2, StackFacts
        <4>2. s[n + 1].do = "endCapture"
          BY <3>1, <3>2
        <4>3. t[j - 1] = p[Len(p)]
          BY <1>2, <4>1
        <4> QED
          BY <4>1, <4>2, <4>3
      <3>3. CASE j - d # n + 1
        <4>1. /\ (j - 1) - d = (j - d) - 1 /\ j - 1 \in DOMAIN t /\ j - 1 > Len(p)
              /\ j - d > n + 1 /\ (j - d) - 1 > n
          <5>1. j \in Int /\ d \in Int /\ n \in Int /\ Len(p) \in Int
            BY <1>1, <1>5
          <5>2. j - d > n + 1 /\ (j - d) - 1 > n /\ (j - 1) - d = (j - d) - 1
            BY <3>1, <3>3, <5>1
          <5>3. j - 1 > Len(p)
            BY <1>5, <5>1, <5>2
          <5> QED
            BY <1>1, <5>2, <5>3
        <4>2. t[j - 1] = s[(j - d) - 1] /\ (j - d) - 1 \in DOMAIN s
          BY <1>3, <4>1
        <4>3. CASE j - d > 2
          BY <3>1, <4>2, <4>3 DEF Shape
        <4>4. CASE ~(j - d > 2)
          <5>1. n = 0 /\ (j - d) - 1 = 1
            BY <1>1, <1>5, <4>1, <4>4
          <5> QED
            BY <4>2, <5>1
        <4> QED
          BY <4>3, <4>4
      <3> QED
        BY <3>2, <3>3
    <2> QED
      BY <1>4, <2>1, <2>2
  <1> QED
    BY <1>1, <1>6, <1>7, <1>8, <1>9, <1>10, <1>11 DEF Shape

-----------------------------------------------------------------------------
(* What a step leaves of the shells.                                       *)

\* The frames put on top keep to their shells.
Belong(p, t, m) ==
  \A i \in DOMAIN p :
    /\ p[i].do = "pivot" => OwnerIn(t, i) = 1
    /\ p[i].do = "endCapture" /\ p[i].cap => Diverted(t, OwnerIn(t, i), i)
    /\ p[i].do \notin Outside => InLine(t, i) \/ Fresher(t, m, i)

\* Every shell of m fits the stack s.
Counts(s, m) ==
  /\ IsStack(m) /\ Len(m) = OwnerIn(s, 1) /\ Len(m) <= 2
  /\ \A i \in DOMAIN m : /\ ShellOK(m[i]) /\ m[i].hop = (i = 1)
                         /\ m[i].depth = Cardinality(Lines(s, i))
                         /\ m[i].cap => Diverted(s, i, 0)

LEMMA ShellsKept ==
  ASSUME NEW s, NEW n, NEW p, NEW t, Put(s, n, p, t), NEW m, NEW w, Shells(s, m),
         n = 0 => s # <<>> /\ s[1].do \in Outside,
         Belong(p, t, w), Counts(t, w)
  PROVE  Shells(t, w)
  <1> DEFINE d == Len(p) - n
  <1>1. /\ Moved(s, n, t, d) /\ d \in Int /\ n \in Nat /\ n + d = Len(p)
        /\ \A i \in DOMAIN s : i \in Int /\ i > 0
    <2>1. n \in Nat /\ Len(p) \in Nat /\ DOMAIN s = 1..Len(s) /\ Len(s) \in Nat
      BY PutFacts
    <2> QED
      BY <2>1 DEF Put
  <1>2. /\ \A j \in DOMAIN t : j > Len(p) => j - d \in DOMAIN s /\ j - d > n /\ t[j] = s[j - d]
        /\ \A j \in DOMAIN t : j \in DOMAIN p \/ j > Len(p)
        /\ \A j \in DOMAIN p : t[j] = p[j]
        /\ \A j \in DOMAIN t : j \in Int
    <2>1. DOMAIN t = 1..Len(t)
      BY PutFacts
    <2>2. \A j \in DOMAIN t : j > Len(p) => j - d \in DOMAIN s /\ j - d > n /\ t[j] = s[j - d]
      BY PutFacts
    <2> QED
      BY <2>1, <2>2 DEF Put
  <1> HIDE DEF d
  <1>3. /\ \A i \in Int : i >= n => \A x : Diverted(s, x, i) => Diverted(t, x, i + d)
        /\ \A i \in DOMAIN s : i > n /\ InLine(s, i) => InLine(t, i + d)
    BY <1>1, BehindKept
  <1>4. \A i \in Int : i > n => OwnerIn(t, i + d) = OwnerIn(s, i)
    BY <1>1, OwnerShift
  <1>5. ASSUME NEW j \in DOMAIN t
        PROVE  /\ t[j].do = "pivot" => OwnerIn(t, j) = 1
               /\ t[j].do = "endCapture" /\ t[j].cap => Diverted(t, OwnerIn(t, j), j)
               /\ t[j].do \notin Outside => InLine(t, j) \/ Fresher(t, w, j)
    <2>1. CASE j \in DOMAIN p
      BY <1>2, <2>1 DEF Belong
    <2>2. CASE j > Len(p)
      <3> DEFINE i == j - d
      <3>1. i \in DOMAIN s /\ i > n /\ t[j] = s[i] /\ i + d = j /\ i \in Int /\ i >= n
        BY <1>1, <1>2, <2>2
      <3> HIDE DEF i
      <3>2. OwnerIn(t, j) = OwnerIn(s, i)
        BY <1>4, <3>1
      <3>3. t[j].do = "pivot" => OwnerIn(t, j) = 1
        BY <3>1, <3>2 DEF Shells
      <3>4. t[j].do = "endCapture" /\ t[j].cap => Diverted(t, OwnerIn(t, j), j)
        BY <1>3, <3>1, <3>2 DEF Shells
      <3>5. ASSUME t[j].do \notin Outside PROVE InLine(s, i)
        <4>1. i = 1 => n = 0
          BY <1>1, <3>1
        <4>2. i # 1
          BY <3>1, <3>5, <4>1
        <4>3. s[i].do \notin Outside
          BY <3>1, <3>5
        <4> QED
          BY <3>1, <4>2, <4>3 DEF Shells, Fresher
      <3>6. InLine(s, i) => InLine(t, j)
        BY <1>3, <3>1
      <3> QED
        BY <3>3, <3>4, <3>5, <3>6
    <2> QED
      BY <1>2, <2>1, <2>2
  <1> QED
    BY <1>5 DEF Shells, Counts

\* The lines of a shell none of which is begun or ended by the step.
LEMMA LinesKept ==
  ASSUME NEW s, NEW n, NEW p, NEW t, Put(s, n, p, t), NEW x,
         \A i \in DOMAIN s : i <= n /\ s[i].do = "endLine" => OwnerIn(s, i) # x,
         \A i \in DOMAIN p : p[i].do = "endLine" => OwnerIn(t, i) # x
  PROVE  Cardinality(Lines(t, x)) = Cardinality(Lines(s, x))
  <1> DEFINE d == Len(p) - n
  <1>1. Moved(s, n, t, d) /\ n + d = Len(p)
    <2>1. n \in Nat /\ Len(p) \in Nat
      BY PutFacts
    <2> QED
      BY <2>1 DEF Put
  <1> HIDE DEF d
  <1>2. Cardinality(Behind(t, Len(p), x)) = Cardinality(Behind(s, n, x))
    BY <1>1, BehindShift
  <1>3. Behind(s, n, x) = Lines(s, x)
    <2>1. n \in Nat /\ \A i \in DOMAIN s : i \in Int
      BY PutFacts
    <2>2. \A i \in Lines(s, x) : i > n
      BY <2>1 DEF Lines
    <2> QED
      BY <2>2, Zenon DEF Behind
  <1>4. Behind(t, Len(p), x) = Lines(t, x)
    <2>1. \A j \in DOMAIN t : j > Len(p) \/ (j \in DOMAIN p /\ t[j] = p[j])
      BY DEF Put
    <2>2. \A i \in Lines(t, x) : i > Len(p)
      BY <2>1 DEF Lines
    <2> QED
      BY <2>2, Zenon DEF Behind
  <1> QED
    BY <1>2, <1>3, <1>4

LEMMA DivertedKept ==
  ASSUME NEW s, NEW n, NEW p, NEW t, Put(s, n, p, t), NEW x, NEW e \in Nat, e <= n, Diverted(s, x, e),
         \A i \in DOMAIN s : i > e /\ i <= n => s[i].do # "endCapture" \/ OwnerIn(s, i) # x
  PROVE  \A i \in 0..Len(p) : Diverted(t, x, i)
  <1> DEFINE d == Len(p) - n
  <1>1. Moved(s, n, t, d) /\ n + d = Len(p) /\ n \in Nat /\ Len(p) \in Nat /\ n >= n /\ n \in Int
    <2>1. n \in Nat /\ Len(p) \in Nat
      BY PutFacts
    <2> QED
      BY <2>1 DEF Put
  <1> HIDE DEF d
  <1>2. Diverted(s, x, n)
    <2>1. n \in Nat /\ \A i \in DOMAIN s : i \in Int
      BY PutFacts
    <2> QED
      BY <2>1 DEF Diverted
  <1>3. Diverted(t, x, Len(p))
    <2>1. \A i \in Int : i >= n => \A y : Diverted(s, y, i) => Diverted(t, y, i + d)
      BY <1>1, BehindKept
    <2> QED
      BY <1>1, <1>2, <2>1
  <1>4. \A j \in 0..Len(p) : \A i \in DOMAIN t : i > Len(p) => i > j
    <2>1. DOMAIN t = 1..Len(t)
      BY PutFacts
    <2> QED
      BY <1>1, <2>1
  <1> QED
    BY <1>3, <1>4 DEF Diverted

\* The shell that runs, before and after a step that begins and ends none.
LEMMA TopOwner ==
  ASSUME NEW s, NEW n, NEW p, NEW t, Put(s, n, p, t),
         \A i \in DOMAIN s : i <= n => s[i].do # "endShell",
         \A i \in DOMAIN p : p[i].do # "endShell"
  PROVE  /\ \A i \in 1..(n + 1) : OwnerIn(s, i) = OwnerIn(s, 1)
         /\ \A i \in 1..(Len(p) + 1) : OwnerIn(t, i) = OwnerIn(s, 1)
  <1> DEFINE d == Len(p) - n
  <1>1. /\ Moved(s, n, t, d) /\ n \in Nat /\ d \in Int /\ Len(p) \in Nat /\ n + d = Len(p)
        /\ IsStack(s) /\ IsStack(t) /\ DOMAIN p = 1..Len(p)
        /\ DOMAIN s = 1..Len(s) /\ DOMAIN t = 1..Len(t) /\ \A j \in DOMAIN p : t[j] = p[j]
    <2>1. /\ n \in Nat /\ Len(p) \in Nat /\ IsStack(s) /\ IsStack(t) /\ DOMAIN p = 1..Len(p)
          /\ DOMAIN s = 1..Len(s) /\ DOMAIN t = 1..Len(t)
      BY PutFacts
    <2> QED
      BY <2>1 DEF Put
  <1> HIDE DEF d
  <1>2. ASSUME NEW i \in 1..(n + 1) PROVE OwnerIn(s, i) = OwnerIn(s, n + 1)
    <2>1. i \in Int /\ n + 1 \in Int /\ i <= n + 1
      BY <1>1
    <2>2. \A h \in DOMAIN s : h >= i /\ h < n + 1 => s[h].do # "endShell"
      BY <1>1
    <2> QED
      BY <1>1, <2>1, <2>2, OwnerRun
  <1>3. ASSUME NEW i \in 1..(Len(p) + 1) PROVE OwnerIn(t, i) = OwnerIn(t, Len(p) + 1)
    <2>1. i \in Int /\ Len(p) + 1 \in Int /\ i <= Len(p) + 1
      BY <1>1
    <2>2. \A h \in DOMAIN t : h >= i /\ h < Len(p) + 1 => h \in DOMAIN p
      BY <1>1
    <2>3. \A h \in DOMAIN t : h >= i /\ h < Len(p) + 1 => t[h].do # "endShell"
      BY <1>1, <2>2
    <2> QED
      BY <1>1, <2>1, <2>3, OwnerRun
  <1>4. OwnerIn(t, Len(p) + 1) = OwnerIn(s, n + 1)
    <2>1. n + 1 \in Int /\ n + 1 > n /\ (n + 1) + d = Len(p) + 1
      BY <1>1
    <2>2. OwnerIn(t, (n + 1) + d) = OwnerIn(s, n + 1)
      BY <1>1, <2>1, OwnerShift
    <2> QED
      BY <2>1, <2>2
  <1>5. 1 \in 1..(n + 1)
    BY <1>1
  <1> QED
    BY <1>2, <1>3, <1>4, <1>5

\* Frames put on top run in the line their predecessors ran in.
LEMMA InLineNew ==
  ASSUME NEW s, NEW n, NEW p, NEW t, Put(s, n, p, t), InLine(s, 1),
         \A i \in DOMAIN s : i <= n => s[i].do # "endShell" /\ s[i].do # "endLine",
         \A i \in DOMAIN p : p[i].do # "endShell"
  PROVE  \A i \in DOMAIN p : InLine(t, i)
  <1> DEFINE d == Len(p) - n
  <1>1. /\ n \in Nat /\ d \in Int /\ Len(p) \in Nat /\ DOMAIN p = 1..Len(p) /\ DOMAIN s = 1..Len(s)
        /\ \A i \in DOMAIN s : i > n => i + d \in DOMAIN t /\ i + d > Len(p) /\ t[i + d] = s[i]
    <2>1. n \in Nat /\ Len(p) \in Nat /\ DOMAIN p = 1..Len(p) /\ DOMAIN s = 1..Len(s)
      BY PutFacts
    <2>2. \A i \in DOMAIN s : i > n => i + d \in DOMAIN t /\ i + d > Len(p) /\ t[i + d] = s[i]
      BY PutFacts
    <2> QED
      BY <2>1, <2>2
  <1>2. Moved(s, n, t, d)
    BY DEF Put
  <1> HIDE DEF d
  <1>3. \A i \in 1..(Len(p) + 1) : OwnerIn(t, i) = OwnerIn(s, 1)
    BY TopOwner
  <1>4. PICK j \in DOMAIN s : j > 1 /\ s[j].do = "endLine" /\ OwnerIn(s, j) = OwnerIn(s, 1)
    BY DEF InLine
  <1>5. j > n /\ j \in Int
    BY <1>1, <1>4
  <1>6. OwnerIn(t, j + d) = OwnerIn(s, j)
    BY <1>2, <1>5, OwnerShift
  <1> DEFINE h == j + d
  <1>7. h \in DOMAIN t /\ h > Len(p) /\ h \in Int /\ t[h].do = "endLine" /\ OwnerIn(t, h) = OwnerIn(s, 1)
    BY <1>1, <1>4, <1>5, <1>6
  <1> HIDE DEF h
  <1>8. ASSUME NEW i \in DOMAIN p PROVE OwnerIn(t, i) = OwnerIn(s, 1) /\ h > i
    BY <1>1, <1>3, <1>7
  <1> QED
    BY <1>7, <1>8 DEF InLine

\* The shells with the running one changed.
LEMMA MeChanged ==
  ASSUME NEW m, IsStack(m), m # <<>>, NEW me
  PROVE  /\ IsStack([m EXCEPT ![Len(m)] = me]) /\ Len([m EXCEPT ![Len(m)] = me]) = Len(m)
         /\ DOMAIN [m EXCEPT ![Len(m)] = me] = DOMAIN m /\ Len(m) \in DOMAIN m
         /\ [m EXCEPT ![Len(m)] = me][Len(m)] = me
         /\ \A i \in DOMAIN m : i # Len(m) => [m EXCEPT ![Len(m)] = me][i] = m[i]
         /\ [m EXCEPT ![Len(m)] = m[Len(m)]] = m
  <1>1. PICK S : m \in Seq(S)
    BY DEF IsStack
  <1>2. Len(m) \in DOMAIN m /\ DOMAIN m = 1..Len(m) /\ Len(m) \in Nat
    BY StackFacts
  <1>3. m \in Seq(S \cup {me})
    <2>1. \A A, B : \A x \in Seq(A) : x \in Seq(A \cup B)
      OBVIOUS
    <2> QED
      BY <1>1, <2>1
  <1>4. [m EXCEPT ![Len(m)] = me] \in Seq(S \cup {me}) /\ Len([m EXCEPT ![Len(m)] = me]) = Len(m)
    BY <1>2, <1>3
  <1>5. [m EXCEPT ![Len(m)] = m[Len(m)]] = m
    BY <1>1, <1>2
  <1> QED
    BY <1>2, <1>4, <1>5 DEF IsStack

\* What a step that changes the running shell only must leave of it.
LEMMA CountsKept ==
  ASSUME NEW s, NEW m, Shells(s, m), NEW t, m # <<>>, OwnerIn(t, 1) = OwnerIn(s, 1),
         NEW me, ShellOK(me), me.hop = m[Len(m)].hop,
         me.depth = Cardinality(Lines(t, Len(m))), me.cap => Diverted(t, Len(m), 0),
         \A i \in DOMAIN m : i # Len(m) =>
           /\ Cardinality(Lines(t, i)) = Cardinality(Lines(s, i))
           /\ Diverted(s, i, 0) => Diverted(t, i, 0)
  PROVE  Counts(t, [m EXCEPT ![Len(m)] = me])
  <1> DEFINE w == [m EXCEPT ![Len(m)] = me]
  <1>1. /\ IsStack(m) /\ Len(m) = OwnerIn(s, 1) /\ Len(m) <= 2
        /\ \A i \in DOMAIN m : /\ ShellOK(m[i]) /\ m[i].hop = (i = 1)
                               /\ m[i].depth = Cardinality(Lines(s, i))
                               /\ m[i].cap => Diverted(s, i, 0)
    BY DEF Shells
  <1>2. /\ IsStack(w) /\ Len(w) = Len(m) /\ DOMAIN w = DOMAIN m /\ Len(m) \in DOMAIN m
        /\ w[Len(m)] = me /\ \A i \in DOMAIN m : i # Len(m) => w[i] = m[i]
    BY <1>1, MeChanged
  <1> HIDE DEF w
  <1>3. Len(w) = OwnerIn(t, 1) /\ Len(w) <= 2
    BY <1>1, <1>2
  <1>4. m[Len(m)].hop = (Len(m) = 1)
    BY <1>1, <1>2, Zenon
  <1>5. ASSUME NEW i \in DOMAIN w
        PROVE  /\ ShellOK(w[i]) /\ w[i].hop = (i = 1)
               /\ w[i].depth = Cardinality(Lines(t, i))
               /\ w[i].cap => Diverted(t, i, 0)
    <2>1. CASE i = Len(m)
      <3>1. w[i] = me
        BY <1>2, <2>1
      <3>2. me.hop = (i = 1)
        BY <1>4, <2>1, Zenon
      <3> QED
        BY <2>1, <3>1, <3>2, Zenon
    <2>2. CASE i # Len(m)
      <3>1. i \in DOMAIN m /\ w[i] = m[i]
        BY <1>2, <2>2
      <3>2. ShellOK(m[i]) /\ m[i].hop = (i = 1)
        BY <1>1, <3>1, Zenon
      <3>3. m[i].depth = Cardinality(Lines(t, i)) /\ (m[i].cap => Diverted(t, i, 0))
        BY <1>1, <2>2, <3>1, Zenon
      <3> QED
        BY <3>1, <3>2, <3>3, Zenon
    <2> QED
      BY <2>1, <2>2
  <1>6. Counts(t, w)
    BY <1>2, <1>3, <1>5, Zenon DEF Counts
  <1> QED
    BY <1>6, Zenon DEF w

Ends == {"endLine", "endShell", "endCapture", "endOutput"}

\* A step within a line that begins and ends nothing.
LEMMA PlainShells ==
  ASSUME NEW s, NEW n, NEW p, NEW t, Put(s, n, p, t), NEW m, Shells(s, m), m # <<>>, n # 0,
         \A i \in DOMAIN s : i <= n => s[i].do \notin Ends \ {"endOutput"},
         \A i \in DOMAIN p : p[i].do \notin Marks,
         p # <<>> => s # <<>> /\ s[1].do \notin Outside \cup {"line"},
         (\E i \in DOMAIN p : p[i].do = "pivot") => m[Len(m)].hop,
         NEW me, ShellOK(me), me.hop = m[Len(m)].hop,
         me.depth = m[Len(m)].depth, me.cap = m[Len(m)].cap
  PROVE  Shells(t, [m EXCEPT ![Len(m)] = me])
  <1> DEFINE w == [m EXCEPT ![Len(m)] = me]
  <1>1. /\ \A i \in DOMAIN s : i <= n => s[i].do # "endShell" /\ s[i].do # "endLine" /\ s[i].do # "endCapture"
        /\ \A i \in DOMAIN p : p[i].do # "endShell" /\ p[i].do # "endLine" /\ p[i].do # "endCapture"
    BY DEF Ends, Marks
  <1>2. /\ IsStack(m) /\ Len(m) = OwnerIn(s, 1)
        /\ \A i \in DOMAIN m : /\ m[i].hop = (i = 1)
                               /\ m[i].depth = Cardinality(Lines(s, i))
                               /\ m[i].cap => Diverted(s, i, 0)
    BY DEF Shells
  <1>3. Len(m) \in DOMAIN m
    BY <1>2, StackFacts
  <1>4. /\ n \in Nat /\ Len(p) \in Nat /\ DOMAIN p = 1..Len(p) /\ IsStack(p)
        /\ IsStack(s) /\ DOMAIN s = 1..Len(s) /\ 0 \in 0..Len(p) /\ 0 <= n /\ 1 \in 1..(Len(p) + 1)
    <2>1. /\ n \in Nat /\ Len(p) \in Nat /\ DOMAIN p = 1..Len(p) /\ IsStack(p)
          /\ IsStack(s) /\ DOMAIN s = 1..Len(s)
      BY PutFacts
    <2> QED
      BY <2>1
  <1>5. \A i \in 1..(Len(p) + 1) : OwnerIn(t, i) = OwnerIn(s, 1)
    BY <1>1, TopOwner
  <1>6. \A x : Cardinality(Lines(t, x)) = Cardinality(Lines(s, x))
    BY <1>1, LinesKept
  <1>7. ASSUME NEW x, Diverted(s, x, 0) PROVE Diverted(t, x, 0)
    <2>1. \A i \in 0..Len(p) : Diverted(t, x, i)
      BY <1>1, <1>4, <1>7, DivertedKept
    <2> QED
      BY <1>4, <2>1
  <1>8. Counts(t, w)
    <2>1. OwnerIn(t, 1) = OwnerIn(s, 1)
      BY <1>4, <1>5
    <2>2. me.depth = Cardinality(Lines(t, Len(m))) /\ (me.cap => Diverted(t, Len(m), 0))
      BY <1>2, <1>3, <1>6, <1>7
    <2> QED
      BY <1>6, <1>7, <2>1, <2>2, CountsKept
  <1>9. Belong(p, t, w)
    <2> HIDE DEF w
    <2> SUFFICES ASSUME NEW i \in DOMAIN p
                 PROVE  /\ p[i].do = "pivot" => OwnerIn(t, i) = 1
                        /\ InLine(t, i)
      BY <1>1, Zenon DEF Belong
    <2>1. p # <<>>
      BY <1>4, StackFacts
    <2>2. InLine(s, 1)
      <3>1. 1 \in DOMAIN s /\ s[1].do \notin Outside /\ s[1].do # "line"
        BY <1>4, <2>1, StackFacts
      <3> QED
        BY <3>1 DEF Shells, Fresher
    <2>3. InLine(t, i)
      BY <1>1, <2>2, InLineNew
    <2>4. OwnerIn(t, i) = Len(m)
      BY <1>2, <1>4, <1>5
    <2>5. m[Len(m)].hop => Len(m) = 1
      BY <1>2, <1>3, Zenon
    <2> QED
      BY <2>3, <2>4, <2>5
  <1>10. n = 0 => s # <<>> /\ s[1].do \in Outside
    OBVIOUS
  <1> HIDE DEF w
  <1>11. Shells(t, w)
    BY <1>8, <1>9, <1>10, ShellsKept
  <1> QED
    BY <1>11, Zenon DEF w

-----------------------------------------------------------------------------
(* A step that begins and ends no line, no substitution and no shell.      *)

\* Frames that end nothing.
Calm(p) == Frames1(p) /\ \A i \in DOMAIN p : p[i].do \notin Marks

LEMMA Running ==
  ASSUME Inv, k # <<>>
  PROVE  /\ IsStack(k) /\ IsStack(sh) /\ sh # <<>> /\ Len(sh) \in DOMAIN sh /\ ShellOK(Me)
         /\ Len(k) \in Nat \ {0} /\ DOMAIN k = 1..Len(k) /\ Head(k) = k[1] /\ Top = k[1]
         /\ 1 \in DOMAIN k /\ k[Len(k)].do = "endShell" /\ OwnerIn(k, 1) = Len(sh)
         /\ Me.hop = (Len(sh) = 1)
  <1>1. IsStack(k) /\ IsStack(sh) /\ Shape(k) /\ Shells(k, sh) /\ OwnerIn(k, 1) = Len(sh)
    BY DEF Inv, Shape, Shells
  <1>2. /\ Len(k) \in Nat /\ Len(k) # 0 /\ DOMAIN k = 1..Len(k) /\ Head(k) = k[1] /\ 1 \in DOMAIN k
        /\ Len(k) \in DOMAIN k
    BY <1>1, StackFacts
  <1>3. k[Len(k)].do = "endShell"
    BY <1>1 DEF Shape
  <1>4. OwnerIn(k, 1) # 0
    <2>1. /\ \A i : OwnerIn(k, i) \in Nat
          /\ \A i, j \in Int : i <= j => OwnerIn(k, j) <= OwnerIn(k, i)
          /\ \A i \in DOMAIN k : k[i].do = "endShell" => OwnerIn(k, i) = OwnerIn(k, i + 1) + 1
      BY <1>1, OwnerFacts
    <2>2. OwnerIn(k, Len(k)) = OwnerIn(k, Len(k) + 1) + 1
      BY <1>2, <1>3, <2>1
    <2>3. OwnerIn(k, Len(k)) <= OwnerIn(k, 1)
      BY <1>2, <2>1
    <2>4. OwnerIn(k, Len(k) + 1) \in Nat /\ OwnerIn(k, 1) \in Nat
      BY <2>1, Zenon
    <2> QED
      BY <2>2, <2>3, <2>4
  <1>5. sh # <<>> /\ Len(sh) \in DOMAIN sh
    BY <1>1, <1>4, StackFacts
  <1>6. ShellOK(Me)
    BY <1>1, <1>5 DEF Shells, Me
  <1>7. Me.hop = (Len(sh) = 1)
    BY <1>1, <1>5, Zenon DEF Shells, Me
  <1> QED
    BY <1>1, <1>2, <1>3, <1>5, <1>6, <1>7 DEF Top

\* The session after the step.
Talks ==
  /\ IoOK' /\ io'.cap = io.cap
  /\ io.cap => (io'.wire => io.wire) /\ (io'.slept => io.slept) /\ (io'.waited => io.waited)
  /\ io'.owed => io.owed \/ At("secret")

\* The frames p take the place of the first n, and the shell is me afterwards.
Works(n, p, me) ==
  /\ n \in Nat \ {0} /\ n <= Len(k) /\ \A i \in DOMAIN k : i <= n => k[i].do \notin Ends
  /\ k' = p \o SubSeq(k, n + 1, Len(k)) /\ Calm(p)
  /\ p # <<>> => /\ k[1].do \notin Outside \cup {"line"} /\ k[n].do # "line"
                 /\ p[Len(p)].do = "expand" => k[n].do = "expand"
                 /\ p[Len(p)].do # "toWord"
  /\ (\E i \in DOMAIN p : p[i].do = "pivot") => Me.hop
  /\ sh' = [sh EXCEPT ![Len(sh)] = me] /\ ShellOK(me)
  /\ me.hop = Me.hop /\ me.depth = Me.depth /\ me.cap = Me.cap
  /\ RegOK(reg') /\ Talks
  /\ k[1].do \in {"say", "secret"} => n = 1 /\ p = <<>>
  /\ LogsIt(k[1]) => ~io'.owed
  /\ mode' = mode /\ panics' = panics /\ held' = held

LEMMA PlainShape ==
  ASSUME NEW s, NEW n, NEW p, NEW t, Put(s, n, p, t), Shape(s), n # 0, s # <<>>,
         \A i \in DOMAIN s : i <= n => s[i].do \notin Ends, Calm(p),
         p # <<>> => /\ s[n].do # "line" /\ p[Len(p)].do # "toWord"
                     /\ p[Len(p)].do = "expand" => s[n].do = "expand"
  PROVE  Shape(t)
  <1>1. /\ n \in Nat /\ n <= Len(s) /\ Len(s) \in Nat /\ DOMAIN s = 1..Len(s) /\ IsStack(p) /\ IsStack(s)
        /\ Len(p) \in Nat /\ DOMAIN p = 1..Len(p)
    BY PutFacts
  <1>2. Len(s) \in DOMAIN s /\ s[Len(s)].do = "endShell"
    BY <1>1, StackFacts DEF Shape
  <1>3. n < Len(s)
    BY <1>1, <1>2 DEF Ends
  <1>4. n \in DOMAIN s /\ s[n].do \notin Ends /\ Fits(s[n], s[n + 1])
    BY <1>1, <1>3 DEF Shape
  <1>5. ASSUME p # <<>>
        PROVE  /\ n < Len(s) /\ Fits(p[Len(p)], s[n + 1])
               /\ Len(p) > 1 /\ s[n + 1].do = "endCapture" => p[Len(p)].do # "line"
    <2>1. p[Len(p)].do \notin Marks
      BY <1>1, <1>5, StackFacts DEF Calm
    <2>2. s[n + 1].do # "endCapture"
      BY <1>4, <1>5 DEF Fits, Ends
    <2>3. p[Len(p)].do = "expand" => s[n + 1].do \in {"toArgs", "toEnv", "toWord"}
      BY <1>4, <1>5 DEF Fits
    <2> QED
      BY <1>3, <1>5, <2>1, <2>2, <2>3 DEF Fits, Marks
  <1> QED
    BY <1>5, ShapeKept DEF Calm

LEMMA PlainOwes ==
  ASSUME NEW n, NEW p, Put(k, n, p, k'), Shape(k), Owes, k # <<>>, n # 0,
         io'.owed => io.owed \/ At("secret"), Top = k[1],
         k[1].do \in {"say", "secret"} => n = 1 /\ p = <<>>, LogsIt(k[1]) => ~io'.owed,
         panics' = panics
  PROVE  Owes'
  <1> SUFFICES ASSUME panics = 0, io'.owed
               PROVE  \E j \in DOMAIN k' : /\ LogsIt(k'[j])
                                           /\ \A h \in 1..(j - 1) : k'[h].do \in {"say", "secret"}
    BY DEF Owes
  <1>1. /\ n \in Nat /\ Len(k) \in Nat /\ DOMAIN k = 1..Len(k) /\ IsStack(k)
        /\ DOMAIN k' = 1..Len(k')
    BY PutFacts
  <1>2. 1 \in DOMAIN k
    BY <1>1, StackFacts
  <1>3. PICK j \in DOMAIN k : LogsIt(k[j]) /\ \A h \in 1..(j - 1) : k[h].do \in {"say", "secret"}
    <2>1. CASE io.owed
      BY <2>1 DEF Owes
    <2>2. CASE At("secret")
      <3>1. k[1].do = "secret"
        BY <2>2 DEF At, Top
      <3>2. PICK j \in DOMAIN k : /\ j > 1 /\ LogsIt(k[j])
                                  /\ \A h \in 1..(j - 1) : k[h].do \in {"say", "secret"}
        BY <1>2, <3>1 DEF Shape, Told
      <3> QED
        BY <3>2
    <2> QED
      BY <2>1, <2>2
  <1>4. j # 1
    BY <1>3
  <1>5. 1 \in 1..(j - 1)
    BY <1>1, <1>4
  <1>6. n = 1 /\ p = <<>>
    BY <1>3, <1>5
  <1>7. Len(p) = 0
    BY <1>6
  <1>8. \A i \in DOMAIN k : i > 1 => i - 1 \in DOMAIN k' /\ k'[i - 1] = k[i]
    <2>1. \A i \in DOMAIN k : i > n =>
              i + (Len(p) - n) \in DOMAIN k' /\ i + (Len(p) - n) > Len(p) /\ k'[i + (Len(p) - n)] = k[i]
      BY PutFacts
    <2>2. \A i \in DOMAIN k : i + (0 - 1) = i - 1
      BY <1>1
    <2> QED
      BY <1>6, <1>7, <2>1, <2>2
  <1> DEFINE e == j - 1
  <1>9. e \in DOMAIN k' /\ LogsIt(k'[e])
    BY <1>1, <1>3, <1>4, <1>8
  <1>10. \A h \in 1..(e - 1) : h + 1 \in DOMAIN k /\ h + 1 > 1 /\ (h + 1) - 1 = h /\ h + 1 \in 1..(j - 1)
    BY <1>1, <1>4
  <1>11. \A h \in 1..(e - 1) : k'[h].do \in {"say", "secret"}
    BY <1>3, <1>8, <1>10
  <1> HIDE DEF e
  <1> QED
    BY <1>9, <1>11

LEMMA PlainStep ==
  ASSUME NEW n, NEW p, NEW me, Inv, k # <<>>, Works(n, p, me)
  PROVE  Inv'
  <1>1. /\ IsStack(k) /\ IsStack(sh) /\ sh # <<>> /\ Len(sh) \in DOMAIN sh
        /\ Len(k) \in Nat \ {0} /\ DOMAIN k = 1..Len(k) /\ Top = k[1] /\ 1 \in DOMAIN k
    BY Running
  <1>2. /\ n \in Nat \ {0} /\ n <= Len(k) /\ \A i \in DOMAIN k : i <= n => k[i].do \notin Ends
        /\ Calm(p) /\ n # 0 /\ n \in Nat
        /\ p # <<>> => /\ k[1].do \notin Outside \cup {"line"} /\ k[n].do # "line"
                       /\ p[Len(p)].do = "expand" => k[n].do = "expand"
                       /\ p[Len(p)].do # "toWord"
        /\ (\E i \in DOMAIN p : p[i].do = "pivot") => sh[Len(sh)].hop
    BY DEF Works, Me
  <1>3. /\ sh' = [sh EXCEPT ![Len(sh)] = me] /\ ShellOK(me)
        /\ me.hop = sh[Len(sh)].hop /\ me.depth = sh[Len(sh)].depth /\ me.cap = sh[Len(sh)].cap
    BY DEF Works, Me
  <1>4. /\ RegOK(reg') /\ Talks
        /\ k[1].do \in {"say", "secret"} => n = 1 /\ p = <<>>
        /\ LogsIt(k[1]) => ~io'.owed
        /\ mode' = mode /\ panics' = panics /\ held' = held
    BY DEF Works
  <1>5. Put(k, n, p, k')
    <2>1. IsStack(p)
      BY <1>2 DEF Calm, Frames1
    <2>2. Put(k, n, p, p \o SubSeq(k, n + 1, Len(k)))
      BY <1>1, <1>2, <2>1, SplicedPut
    <2> QED
      BY <2>2 DEF Works
  <1>6. /\ Shape(k) /\ Shells(k, sh) /\ mode \in {"terminal", "exec", "bridge"} /\ panics \in Nat
        /\ held = Len(sh) /\ Bridged /\ Owes
    BY DEF Inv
  <1>7. Shape(k')
    BY <1>2, <1>5, <1>6, PlainShape
  <1>8. Shells(k', sh')
    <2>0. \A i \in DOMAIN k : i <= n => k[i].do \notin Ends \ {"endOutput"}
      BY <1>2
    <2>1. \A i \in DOMAIN p : p[i].do \notin Marks
      BY <1>2 DEF Calm
    <2>2. p # <<>> => k # <<>> /\ k[1].do \notin Outside \cup {"line"}
      BY <1>2
    <2>3. Shells(k', [sh EXCEPT ![Len(sh)] = me])
      BY <1>1, <1>2, <1>3, <1>5, <1>6, <2>0, <2>1, <2>2, PlainShells
    <2> QED
      BY <1>3, <2>3
  <1>9. held' = Len(sh')
    BY <1>1, <1>3, <1>4, <1>6, MeChanged
  <1>10. Owes'
    BY <1>1, <1>2, <1>4, <1>5, <1>6, PlainOwes DEF Talks
  <1>11. Bridged'
    <2> SUFFICES ASSUME mode = "bridge" PROVE /\ ~io'.wire /\ ~io'.slept /\ ~io'.waited /\ io'.cap
      BY <1>4 DEF Bridged
    <2>1. k[1].do # "endShell"
      BY <1>1, <1>2 DEF Ends
    <2>2. io.cap /\ ~io.wire /\ ~io.slept /\ ~io.waited
      BY <1>1, <1>6, <2>1 DEF Bridged
    <2> QED
      BY <1>4, <2>2 DEF Talks
  <1>12. RegOK(reg)' /\ IoOK' /\ Shape(k)' /\ Shells(k, sh)'
    BY <1>4, <1>7, <1>8 DEF Talks, Shape, Shells
  <1> QED
    BY <1>4, <1>6, <1>9, <1>10, <1>11, <1>12 DEF Inv

-----------------------------------------------------------------------------
(* The frames that the steps put on the stack.                             *)

\* Frames that end nothing, the last one an operation of its own.
Ready(p) == Calm(p) /\ (p # <<>> => p[Len(p)].do # "expand" /\ p[Len(p)].do # "toWord")

Quiet(f) == FrameOK(f) /\ f.do \notin Marks \cup {"expand", "toWord"}

LEMMA QuietFits ==
  /\ \A f, g : Quiet(f) /\ g.do # "endCapture" => Fits(f, g)
  /\ \A f : Quiet(f) => f.do \notin Marks /\ f.do # "expand" /\ f.do # "toWord" /\ f.do # "endCapture"
                        /\ f.do # "endOutput"
  BY DEF Quiet, Fits, Marks

LEMMA QuietReady ==
  ASSUME NEW p, IsStack(p), Told(p), \A i \in DOMAIN p : Quiet(p[i])
  PROVE  Ready(p)
  <1>1. Len(p) \in Nat /\ DOMAIN p = 1..Len(p) /\ (p # <<>> => Len(p) \in DOMAIN p)
    BY StackFacts
  <1>2. \A i \in DOMAIN p : i < Len(p) => i + 1 \in DOMAIN p
    BY <1>1
  <1>3. \A i \in DOMAIN p : i < Len(p) => Fits(p[i], p[i + 1])
    BY <1>2, QuietFits
  <1>4. \A i \in DOMAIN p : FrameOK(p[i]) /\ p[i].do # "endOutput" /\ p[i].do # "endCapture" /\ p[i].do \notin Marks
    BY QuietFits DEF Quiet
  <1>5. p # <<>> => p[Len(p)].do # "expand" /\ p[Len(p)].do # "toWord"
    BY <1>1, QuietFits
  <1> QED
    BY <1>3, <1>4, <1>5 DEF Ready, Calm, Frames1

LEMMA QuietKinds ==
  /\ \A f : Flat(f) \/ Branch1(f) => Quiet(f) /\ f.do # "pivot"
  /\ \A f : f.do = "pivot" => Quiet(f)
  <1>1. ASSUME NEW f, Flat(f) PROVE Quiet(f) /\ f.do # "pivot"
    <2>1. f.do \in Effects
      BY <1>1 DEF Flat
    <2>2. f.do \notin Marks \cup {"expand", "toWord"} /\ f.do # "pivot"
      BY <2>1 DEF Effects, Marks
    <2> QED
      BY <1>1, <2>2 DEF Quiet, FrameOK
  <1>2. ASSUME NEW f, Branch1(f) PROVE Quiet(f) /\ f.do # "pivot"
    <2>1. f.do \in {"ask", "edit", "ifFile", "ifFull", "ifPivot", "either"}
      BY <1>2, BranchKinds
    <2> QED
      BY <1>2, <2>1 DEF Quiet, FrameOK, Marks
  <1> QED
    BY <1>1, <1>2 DEF Quiet, FrameOK, Marks

NoPivot(p) == \A i \in DOMAIN p : p[i].do # "pivot"

LEMMA ScriptReady ==
  /\ \A p : Script(p) => Ready(p) /\ NoPivot(p)
  /\ \A p : Pivots(p) => Ready(p)
  <1>1. ASSUME NEW p, Script(p) PROVE Ready(p) /\ NoPivot(p)
    <2>1. IsStack(p) /\ Told(p) /\ \A i \in DOMAIN p : Quiet(p[i]) /\ p[i].do # "pivot"
      BY <1>1, QuietKinds DEF Script
    <2> QED
      BY <2>1, QuietReady DEF NoPivot
  <1>2. ASSUME NEW p, Pivots(p) PROVE Ready(p)
    <2>1. IsStack(p) /\ Told(p) /\ \A i \in DOMAIN p : Quiet(p[i])
      BY <1>2, QuietKinds DEF Pivots
    <2> QED
      BY <2>1, QuietReady
  <1> QED
    BY <1>1, <1>2

LEMMA ReadyCat ==
  ASSUME NEW p, NEW q, Ready(p), Ready(q)
  PROVE  Ready(p \o q) /\ (NoPivot(p) /\ NoPivot(q) => NoPivot(p \o q))
  <1> DEFINE u == p \o q
  <1>1. /\ IsStack(p) /\ IsStack(q) /\ Told(p) /\ Told(q)
        /\ \A i \in DOMAIN p : FrameOK(p[i]) /\ p[i].do # "endOutput" /\ p[i].do \notin Marks
        /\ \A i \in DOMAIN q : FrameOK(q[i]) /\ q[i].do # "endOutput" /\ q[i].do \notin Marks
        /\ \A i \in DOMAIN p : i < Len(p) => Fits(p[i], p[i + 1])
        /\ \A i \in DOMAIN q : i < Len(q) => Fits(q[i], q[i + 1])
    BY DEF Ready, Calm, Frames1
  <1>2. /\ IsStack(u) /\ Len(u) = Len(p) + Len(q) /\ Told(u)
        /\ \A i \in DOMAIN p : u[i] = p[i]
        /\ \A j \in DOMAIN u : j \in DOMAIN p \/ (j - Len(p) \in DOMAIN q /\ u[j] = q[j - Len(p)])
    BY <1>1, StackCat, ToldCat
  <1>3. \A i \in DOMAIN q : u[Len(p) + i] = q[i]
    BY <1>1, CatBehind, Zenon
  <1> HIDE DEF u
  <1>4. /\ Len(p) \in Nat /\ Len(q) \in Nat /\ DOMAIN p = 1..Len(p) /\ DOMAIN q = 1..Len(q)
        /\ DOMAIN u = 1..(Len(p) + Len(q)) /\ (p = <<>> <=> Len(p) = 0) /\ (q = <<>> <=> Len(q) = 0)
        /\ (u = <<>> <=> Len(u) = 0)
    BY <1>1, <1>2, StackFacts
  <1>5. \A j \in DOMAIN u : FrameOK(u[j]) /\ u[j].do # "endOutput" /\ u[j].do \notin Marks
    BY <1>1, <1>2
  <1>6. NoPivot(p) /\ NoPivot(q) => NoPivot(u)
    BY <1>2 DEF NoPivot
  <1>7. ASSUME NEW j \in DOMAIN u, j < Len(u) PROVE Fits(u[j], u[j + 1])
    <2>1. CASE j < Len(p)
      <3>1. j \in DOMAIN p /\ j + 1 \in DOMAIN p
        BY <1>4, <2>1
      <3> QED
        BY <1>1, <1>2, <2>1, <3>1
    <2>2. CASE j = Len(p)
      <3>1. j \in DOMAIN p /\ p # <<>> /\ 1 \in DOMAIN q /\ j + 1 = Len(p) + 1
        BY <1>2, <1>4, <1>7, <2>2
      <3>2. u[j] = p[Len(p)] /\ u[j + 1] = q[1]
        BY <1>2, <1>3, <2>2, <3>1
      <3>3. p[Len(p)].do # "expand" /\ p[Len(p)].do # "toWord" /\ p[Len(p)].do \notin Marks /\ q[1].do \notin Marks
        BY <1>1, <2>2, <3>1 DEF Ready
      <3> QED
        BY <3>2, <3>3 DEF Fits, Marks
    <2>3. CASE j > Len(p)
      <3>1. /\ j - Len(p) \in DOMAIN q /\ j - Len(p) < Len(q) /\ (j - Len(p)) + 1 \in DOMAIN q
            /\ Len(p) + (j - Len(p)) = j /\ Len(p) + ((j - Len(p)) + 1) = j + 1
        BY <1>2, <1>4, <1>7, <2>3
      <3>2. u[j] = q[j - Len(p)] /\ u[j + 1] = q[(j - Len(p)) + 1]
        <4>1. u[Len(p) + (j - Len(p))] = q[j - Len(p)] /\ u[Len(p) + ((j - Len(p)) + 1)] = q[(j - Len(p)) + 1]
          BY <1>3, <3>1
        <4> QED
          BY <3>1, <4>1
      <3> QED
        BY <1>1, <3>1, <3>2
    <2> QED
      BY <1>4, <2>1, <2>2, <2>3
  <1>8. ASSUME u # <<>> PROVE u[Len(u)].do # "expand" /\ u[Len(u)].do # "toWord"
    <2>1. CASE q = <<>>
      <3>1. p # <<>> /\ Len(u) = Len(p) /\ Len(p) \in DOMAIN p
        BY <1>2, <1>4, <1>8, <2>1
      <3> QED
        BY <1>2, <3>1 DEF Ready
    <2>2. CASE q # <<>>
      <3>1. Len(q) \in DOMAIN q /\ Len(u) = Len(p) + Len(q)
        BY <1>2, <1>4, <2>2
      <3> QED
        BY <1>3, <2>2, <3>1 DEF Ready
    <2> QED
      BY <2>1, <2>2
  <1>9. \A j \in DOMAIN u : u[j].do # "endCapture"
    BY <1>5 DEF Marks
  <1>10. Ready(u)
    BY <1>2, <1>5, <1>7, <1>8, <1>9 DEF Ready, Calm, Frames1
  <1> QED
    BY <1>6, <1>10 DEF u

LEMMA ControlQuiet ==
  /\ \A f : f.do \in Control \ {"toWord"} => Quiet(f) /\ f.do # "secret" /\ f.do # "pivot" /\ FrameOK(f)
  /\ \A ss, b, c, st, f : /\ Stmts(ss, b).do \in Control \ {"toWord"} /\ Chain(c, ss).do \in Control \ {"toWord"}
                       /\ Assigns(ss).do \in Control \ {"toWord"} /\ Single(st).do \in Control \ {"toWord"}
                       /\ Pipe(ss).do \in Control \ {"toWord"} /\ Stage(st, b).do \in Control \ {"toWord"}
                       /\ Emit(st).do \in Control \ {"toWord"} /\ ToEnv(c).do \in Control \ {"toWord"}
  /\ Interactive.do \in Control \ {"toWord"} /\ Feed.do \in Control \ {"toWord"}
  /\ SetLast.do \in Control \ {"toWord"} /\ ToArgs.do \in Control \ {"toWord"}
  /\ \A c \in 0..255 : Quiet(LastIs(c)) /\ LastIs(c).do = "lastIs"
  <1>1. \A f : f.do \in Control \ {"toWord"} => Quiet(f) /\ f.do # "secret" /\ f.do # "pivot" /\ FrameOK(f)
    BY DEF Quiet, FrameOK, Control, Marks
  <1>2. \A c \in 0..255 : Quiet(LastIs(c)) /\ LastIs(c).do = "lastIs"
    BY DEF Quiet, FrameOK, LastIs, Marks
  <1> QED
    BY <1>1, <1>2 DEF Control, Stmts, Chain, Assigns, Single, Pipe, Stage, Emit, ToEnv,
                      Interactive, Feed, SetLast, ToArgs

\* One and two frames that expand nothing.
LEMMA ReadyFew ==
  /\ \A a : Quiet(a) /\ a.do # "secret" => Ready(<<a>>)
  /\ \A a, b : Quiet(a) /\ Quiet(b) /\ a.do # "secret" /\ b.do # "secret" => Ready(<<a, b>>)
  /\ \A a : a.do # "pivot" => NoPivot(<<a>>)
  /\ \A a, b : a.do # "pivot" /\ b.do # "pivot" => NoPivot(<<a, b>>)
  <1>1. ASSUME NEW a, Quiet(a), a.do # "secret" PROVE Ready(<<a>>)
    <2> DEFINE s == <<a>>
    <2>1. s \in Seq({a}) /\ \A i \in DOMAIN s : s[i] = a
      OBVIOUS
    <2> HIDE DEF s
    <2>2. IsStack(s) /\ Told(s)
      BY <1>1, <2>1 DEF IsStack, Told
    <2>3. Ready(s)
      BY <1>1, <2>1, <2>2, QuietReady
    <2> QED
      BY <2>3 DEF s
  <1>2. ASSUME NEW a, NEW b, Quiet(a), Quiet(b), a.do # "secret", b.do # "secret" PROVE Ready(<<a, b>>)
    <2> DEFINE s == <<a, b>>
    <2>1. s \in Seq({a, b}) /\ \A i \in DOMAIN s : s[i] = a \/ s[i] = b
      OBVIOUS
    <2> HIDE DEF s
    <2>2. IsStack(s) /\ Told(s)
      BY <1>2, <2>1 DEF IsStack, Told
    <2>3. Ready(s)
      BY <1>2, <2>1, <2>2, QuietReady
    <2> QED
      BY <2>3 DEF s
  <1>3. /\ \A a : a.do # "pivot" => NoPivot(<<a>>)
        /\ \A a, b : a.do # "pivot" /\ b.do # "pivot" => NoPivot(<<a, b>>)
    BY DEF NoPivot
  <1> QED
    BY <1>1, <1>2, <1>3

\* An expansion of words, and where they go.
LEMMA ExpandFrame ==
  \A ws, acc : Vals(acc) =>
    LET f == [do |-> "expand", words |-> ws, acc |-> acc]
    IN FrameOK(f) /\ f.do = "expand"
  BY DEF FrameOK

LEMMA ReadyExpand ==
  \A ws, g : g.do \in {"toArgs", "toEnv"} => Ready(<<Expand(ws), g>>) /\ NoPivot(<<Expand(ws), g>>)
  <1> SUFFICES ASSUME NEW ws, NEW g, g.do \in {"toArgs", "toEnv"}
               PROVE  Ready(<<Expand(ws), g>>) /\ NoPivot(<<Expand(ws), g>>)
    OBVIOUS
  <1> DEFINE e == Expand(ws)
             s == <<e, g>>
  <1>1. FrameOK(e) /\ e.do = "expand"
    BY ExpandFrame, ValsFacts DEF Expand
  <1>2. FrameOK(g) /\ g.do \notin Marks
    BY DEF FrameOK, Control, Marks
  <1> HIDE DEF e
  <1>3. s \in Seq({e, g}) /\ Len(s) = 2 /\ DOMAIN s = 1..2 /\ s[1] = e /\ s[2] = g /\ s # <<>>
    OBVIOUS
  <1> HIDE DEF s
  <1>4. IsStack(s) /\ Told(s) /\ NoPivot(s)
    BY <1>1, <1>3 DEF IsStack, Told, NoPivot
  <1>5. \A i \in DOMAIN s : /\ FrameOK(s[i]) /\ s[i].do # "endOutput" /\ s[i].do # "endCapture"
                            /\ s[i].do \notin Marks
    BY <1>1, <1>2, <1>3 DEF Marks
  <1>6. \A i \in DOMAIN s : i < Len(s) => Fits(s[i], s[i + 1])
    BY <1>1, <1>3 DEF Fits
  <1>7. Ready(s)
    BY <1>3, <1>4, <1>5, <1>6 DEF Ready, Calm, Frames1
  <1> QED
    BY <1>4, <1>7 DEF s, e

LEMMA TupleCat ==
  /\ \A a, b, c : <<a, b, c>> = <<a, b>> \o <<c>>
  /\ \A a, b, c, d : <<a, b, c, d>> = <<a, b>> \o <<c, d>>
  /\ \A a, b, c, d, e : <<a, b, c, d, e>> = <<a>> \o (<<b, c>> \o <<d, e>>)
  OBVIOUS

LEMMA ReadyParts ==
  /\ Ready(<<>>) /\ NoPivot(<<>>)
  /\ \A ws, a : /\ a.do \in Control \ {"toWord"} =>
                     /\ Ready(<<Expand(ws), ToArgs, a>>) /\ NoPivot(<<Expand(ws), ToArgs, a>>)
                     /\ \A x : Ready(<<Expand(ws), ToEnv(x), a>>) /\ NoPivot(<<Expand(ws), ToEnv(x), a>>)
  /\ \A ws, a, b : a.do \in Control \ {"toWord"} /\ Quiet(b) /\ b.do # "secret" /\ b.do # "pivot" =>
                     /\ Ready(<<Expand(ws), ToArgs, a, b>>) /\ NoPivot(<<Expand(ws), ToArgs, a, b>>)
                     /\ \A e : Ready(<<Log(e), Expand(ws), ToArgs, a, b>>) /\ NoPivot(<<Log(e), Expand(ws), ToArgs, a, b>>)
  <1>1. Ready(<<>>) /\ NoPivot(<<>>)
    BY Tuples0, ScriptReady
  <1>2. \A f : f.do \in Control \ {"toWord"} => Quiet(f) /\ f.do # "secret" /\ f.do # "pivot"
    BY ControlQuiet, Zenon
  <1>3. \A ws : Ready(<<Expand(ws), ToArgs>>) /\ NoPivot(<<Expand(ws), ToArgs>>)
    BY ReadyExpand DEF ToArgs
  <1>4. \A ws, x : Ready(<<Expand(ws), ToEnv(x)>>) /\ NoPivot(<<Expand(ws), ToEnv(x)>>)
    BY ReadyExpand DEF ToEnv
  <1>5. \A a : a.do \in Control \ {"toWord"} => Ready(<<a>>) /\ NoPivot(<<a>>)
    BY <1>2, ReadyFew, Zenon
  <1>6. ASSUME NEW p, NEW q, Ready(p), Ready(q), NoPivot(p), NoPivot(q)
        PROVE  Ready(p \o q) /\ NoPivot(p \o q)
    BY <1>6, ReadyCat
  <1>7. ASSUME NEW ws, NEW a, a.do \in Control \ {"toWord"}
        PROVE  /\ Ready(<<Expand(ws), ToArgs, a>>) /\ NoPivot(<<Expand(ws), ToArgs, a>>)
               /\ \A x : Ready(<<Expand(ws), ToEnv(x), a>>) /\ NoPivot(<<Expand(ws), ToEnv(x), a>>)
    <2>1. Ready(<<Expand(ws), ToArgs>> \o <<a>>) /\ NoPivot(<<Expand(ws), ToArgs>> \o <<a>>)
      BY <1>3, <1>5, <1>6, <1>7, Zenon
    <2>2. \A x : Ready(<<Expand(ws), ToEnv(x)>> \o <<a>>) /\ NoPivot(<<Expand(ws), ToEnv(x)>> \o <<a>>)
      BY <1>4, <1>5, <1>6, <1>7, Zenon
    <2>3. /\ <<Expand(ws), ToArgs, a>> = <<Expand(ws), ToArgs>> \o <<a>>
          /\ \A x : <<Expand(ws), ToEnv(x), a>> = <<Expand(ws), ToEnv(x)>> \o <<a>>
      BY TupleCat
    <2>4. Ready(<<Expand(ws), ToArgs, a>>) /\ NoPivot(<<Expand(ws), ToArgs, a>>)
      BY <2>1, <2>3, Zenon
    <2>5. ASSUME NEW x PROVE Ready(<<Expand(ws), ToEnv(x), a>>) /\ NoPivot(<<Expand(ws), ToEnv(x), a>>)
      <3>1. <<Expand(ws), ToEnv(x), a>> = <<Expand(ws), ToEnv(x)>> \o <<a>>
        BY <2>3, Zenon
      <3> QED
        BY <2>2, <3>1, Zenon
    <2> QED
      BY <2>4, <2>5
  <1>8. ASSUME NEW ws, NEW a, NEW b, a.do \in Control \ {"toWord"}, Quiet(b), b.do # "secret", b.do # "pivot"
        PROVE  /\ Ready(<<Expand(ws), ToArgs, a, b>>) /\ NoPivot(<<Expand(ws), ToArgs, a, b>>)
               /\ \A e : Ready(<<Log(e), Expand(ws), ToArgs, a, b>>) /\ NoPivot(<<Log(e), Expand(ws), ToArgs, a, b>>)
    <2>1. Ready(<<a, b>>) /\ NoPivot(<<a, b>>)
      BY <1>2, <1>8, ReadyFew, Zenon
    <2>2. Ready(<<Expand(ws), ToArgs>> \o <<a, b>>) /\ NoPivot(<<Expand(ws), ToArgs>> \o <<a, b>>)
      BY <1>3, <1>6, <2>1, Zenon
    <2>3. \A e : Ready(<<Log(e)>>) /\ NoPivot(<<Log(e)>>)
      BY PlainScripts, Nested, ScriptReady, Zenon
    <2>4. \A e : Ready(<<Log(e)>> \o (<<Expand(ws), ToArgs>> \o <<a, b>>))
                 /\ NoPivot(<<Log(e)>> \o (<<Expand(ws), ToArgs>> \o <<a, b>>))
      BY <1>6, <2>2, <2>3, Zenon
    <2>5. /\ <<Expand(ws), ToArgs, a, b>> = <<Expand(ws), ToArgs>> \o <<a, b>>
          /\ \A e : <<Log(e), Expand(ws), ToArgs, a, b>> = <<Log(e)>> \o (<<Expand(ws), ToArgs>> \o <<a, b>>)
      <3>1. <<Expand(ws), ToArgs, a, b>> = <<Expand(ws), ToArgs>> \o <<a, b>>
        OBVIOUS
      <3>2. ASSUME NEW e PROVE <<Log(e), Expand(ws), ToArgs, a, b>> = <<Log(e)>> \o (<<Expand(ws), ToArgs>> \o <<a, b>>)
        OBVIOUS
      <3> QED
        BY <3>1, <3>2, Zenon
    <2>6. Ready(<<Expand(ws), ToArgs, a, b>>) /\ NoPivot(<<Expand(ws), ToArgs, a, b>>)
      BY <2>2, <2>5, Zenon
    <2>7. ASSUME NEW e
          PROVE  Ready(<<Log(e), Expand(ws), ToArgs, a, b>>) /\ NoPivot(<<Log(e), Expand(ws), ToArgs, a, b>>)
      <3>1. <<Log(e), Expand(ws), ToArgs, a, b>> = <<Log(e)>> \o (<<Expand(ws), ToArgs>> \o <<a, b>>)
        BY <2>5, Zenon
      <3> QED
        BY <2>4, <3>1, Zenon
    <2> QED
      BY <2>6, <2>7
  <1> QED
    BY <1>1, <1>7, <1>8

LEMMA ReadyStatement ==
  ASSUME NEW st
  PROVE  Ready(runStatement(st)) /\ NoPivot(runStatement(st))
  <1>1. 0 \in 0..255
    OBVIOUS
  <1>2. Quiet(LastIs(0)) /\ LastIs(0).do # "secret" /\ LastIs(0).do # "pivot"
    BY <1>1, ControlQuiet
  <1>3. /\ \A ss : Ready(<<Assigns(ss), LastIs(0)>>) /\ NoPivot(<<Assigns(ss), LastIs(0)>>)
        /\ \A ss : Ready(<<Pipe(ss), SetLast>>) /\ NoPivot(<<Pipe(ss), SetLast>>)
    BY <1>2, ControlQuiet, ReadyFew, Zenon
  <1>4. \A ws : Ready(<<Log("EXEC_ATTEMPT"), Expand(ws), ToArgs, Interactive, LastIs(0)>>)
                /\ NoPivot(<<Log("EXEC_ATTEMPT"), Expand(ws), ToArgs, Interactive, LastIs(0)>>)
    BY <1>2, ControlQuiet, ReadyParts, Zenon
  <1>5. \A ws, s : Ready(<<Expand(ws), ToArgs, Single(s)>>) /\ NoPivot(<<Expand(ws), ToArgs, Single(s)>>)
    BY ControlQuiet, ReadyParts, Zenon
  <1>6. \/ runStatement(st) = <<Assigns(Latest(st.stages[1].assigns)), LastIs(0)>>
        \/ runStatement(st) = <<Log("EXEC_ATTEMPT"), Expand(st.stages[1].args), ToArgs, Interactive, LastIs(0)>>
        \/ runStatement(st) = <<Expand(st.stages[1].args), ToArgs, Single(st.stages[1])>>
        \/ runStatement(st) = <<Pipe(st.stages), SetLast>>
    <2>1. CASE PipesToShell(st) /\ Len(st.stages) = 1
      <3>1. Len(st.stages) > 1
        BY <2>1, Zenon DEF PipesToShell
      <3>2. 1 > 1
        BY <2>1, <3>1, Zenon
      <3> QED
        BY <3>2
    <2>2. CASE PipesToShell(st) /\ Len(st.stages) # 1
      BY <2>2, Zenon DEF runStatement
    <2>3. CASE ~PipesToShell(st)
      BY <2>3, Zenon DEF runStatement
    <2> QED
      BY <2>1, <2>2, <2>3
  <1> QED
    BY <1>3, <1>4, <1>5, <1>6, Zenon

-----------------------------------------------------------------------------
(* What the steps do to the running shell and to the session.              *)

Kept(me, w) == ShellOK(w) /\ w.hop = me.hop /\ w.depth = me.depth /\ w.cap = me.cap

LEMMA ShellSet ==
  ASSUME NEW me, ShellOK(me)
  PROVE  /\ Kept(me, me)
         /\ \A c \in 0..255 : Kept(me, [me EXCEPT !.last = c])
         /\ \A b : Kept(me, [me EXCEPT !.quit = b])
         /\ \A b : Kept(me, [me EXCEPT !.cron = b])
         /\ Kept(me, [me EXCEPT !.subs = @ + 1])
         /\ \A v : v.len \in Nat => Kept(me, [me EXCEPT !.buf = v])
  <1>1. Kept(me, me)
    BY DEF Kept
  <1>2. ASSUME NEW c \in 0..255 PROVE Kept(me, [me EXCEPT !.last = c])
    BY DEF Kept, ShellOK
  <1>3. ASSUME NEW b PROVE Kept(me, [me EXCEPT !.quit = b])
    BY DEF Kept, ShellOK
  <1>4. ASSUME NEW b PROVE Kept(me, [me EXCEPT !.cron = b])
    BY DEF Kept, ShellOK
  <1>5. Kept(me, [me EXCEPT !.subs = @ + 1])
    BY LimitsAssumption DEF Kept, ShellOK
  <1>6. ASSUME NEW v, v.len \in Nat PROVE Kept(me, [me EXCEPT !.buf = v])
    BY <1>6 DEF Kept, ShellOK
  <1> QED
    BY <1>1, <1>2, <1>3, <1>4, <1>5, <1>6

LEMMA ShellFiles ==
  ASSUME NEW me, ShellOK(me)
  PROVE  /\ \A f, v : v.len \in Int /\ v.len >= -1 => Kept(me, [me EXCEPT !.files[f] = v])
         /\ \A x, v : v.len \in Nat => Kept(me, [me EXCEPT !.env[x] = v])
         /\ \A x : getenv(me, x).len \in Nat
         /\ \A f : Content(me, f).len \in Int /\ Content(me, f).len >= -1
  <1>1. ASSUME NEW f, NEW v, v.len \in Int, v.len >= -1 PROVE Kept(me, [me EXCEPT !.files[f] = v])
    BY <1>1 DEF Kept, ShellOK
  <1>2. ASSUME NEW x, NEW v, v.len \in Nat PROVE Kept(me, [me EXCEPT !.env[x] = v])
    BY <1>2 DEF Kept, ShellOK
  <1>3. \A x : getenv(me, x).len \in Nat
    BY TextFacts DEF getenv, ShellOK
  <1>4. \A f : Content(me, f).len \in Int /\ Content(me, f).len >= -1
    BY TextFacts DEF Content, ShellOK
  <1> QED
    BY <1>1, <1>2, <1>3, <1>4

\* Text taken out of the budget.
LEMMA BudgetTaken ==
  ASSUME NEW me, ShellOK(me), NEW v, v.len \in Nat
  PROVE  LET got == takeBudget(me, v) IN Kept(me, got.me) /\ got.val.len \in Nat
  <1> DEFINE g == IF me.budget <= 0 THEN Empty ELSE Cut(v, me.budget)
             w == [me EXCEPT !.budget = @ - g.len, !.taken = @ + g.len]
  <1>1. takeBudget(me, v) = [val |-> g, me |-> w]
    BY Zenon DEF takeBudget
  <1>2. me.budget \in 0..MaxExpand /\ me.taken \in Nat /\ me.taken + me.budget <= MaxExpand /\ MaxExpand \in Nat
    BY LimitsAssumption DEF ShellOK
  <1>3. g.len \in Nat /\ g.len <= me.budget
    <2>1. CASE me.budget <= 0
      BY <1>2, <2>1, TextFacts
    <2>2. CASE ~(me.budget <= 0) /\ v.len <= me.budget
      BY <1>2, <2>2 DEF Cut
    <2>3. CASE ~(me.budget <= 0) /\ ~(v.len <= me.budget)
      BY <1>2, <2>3 DEF Cut
    <2> QED
      BY <2>1, <2>2, <2>3
  <1> HIDE DEF g
  <1>4. /\ me.budget - g.len \in 0..MaxExpand /\ me.taken + g.len \in Nat
        /\ (me.taken + g.len) + (me.budget - g.len) <= MaxExpand
    BY <1>2, <1>3
  <1>5. ASSUME NEW b \in 0..MaxExpand, NEW c \in Nat, c + b <= MaxExpand
        PROVE  Kept(me, [me EXCEPT !.budget = b, !.taken = c])
    <2> DEFINE x == [me EXCEPT !.budget = b]
               y == [x EXCEPT !.taken = c]
    <2>1. x = [last |-> me.last, quit |-> me.quit, depth |-> me.depth, budget |-> b,
               subs |-> me.subs, cap |-> me.cap, buf |-> me.buf, hop |-> me.hop,
               cron |-> me.cron, env |-> me.env, files |-> me.files,
               taken |-> me.taken, ran |-> me.ran]
      BY DEF ShellOK
    <2> HIDE DEF x
    <2>2. y = [last |-> me.last, quit |-> me.quit, depth |-> me.depth, budget |-> b,
               subs |-> me.subs, cap |-> me.cap, buf |-> me.buf, hop |-> me.hop,
               cron |-> me.cron, env |-> me.env, files |-> me.files,
               taken |-> c, ran |-> me.ran]
      BY <2>1
    <2> HIDE DEF y
    <2>3. Kept(me, y)
      BY <1>5, <2>2 DEF Kept, ShellOK
    <2> QED
      BY <2>3 DEF x, y
  <1>6. Kept(me, w)
    BY <1>4, <1>5, Zenon
  <1> HIDE DEF w
  <1> QED
    BY <1>1, <1>3, <1>6

LEMMA RegSet ==
  ASSUME NEW r, RegOK(r)
  PROVE  /\ \A a : Vals(a) => RegOK([r EXCEPT !.args = a])
         /\ \A v : v.len \in Nat => RegOK([r EXCEPT !.stdin = v])
         /\ \A c \in 0..255 : RegOK([r EXCEPT !.code = c])
         /\ \A v, c : v.len \in Nat /\ c \in 0..255 => RegOK([r EXCEPT !.out = v, !.code = c])
         /\ \A a, v : Vals(a) /\ v.len \in Nat => RegOK([r EXCEPT !.args = a, !.stdin = v])
  <1>1. \A a : Vals(a) => RegOK([r EXCEPT !.args = a])
    BY DEF RegOK
  <1>2. \A v : v.len \in Nat => RegOK([r EXCEPT !.stdin = v])
    BY DEF RegOK
  <1>3. \A q : RegOK(q) => \A c \in 0..255 : RegOK([q EXCEPT !.code = c])
    BY DEF RegOK
  <1>4. ASSUME NEW v, NEW c \in 0..255, v.len \in Nat PROVE RegOK([r EXCEPT !.out = v, !.code = c])
    <2> DEFINE q == [r EXCEPT !.out = v]
    <2>1. RegOK(q)
      BY <1>4 DEF RegOK
    <2> HIDE DEF q
    <2>2. RegOK([q EXCEPT !.code = c])
      BY <1>3, <2>1
    <2> QED
      BY <2>2 DEF q
  <1>5. ASSUME NEW a, NEW v, Vals(a), v.len \in Nat PROVE RegOK([r EXCEPT !.args = a, !.stdin = v])
    <2> DEFINE q == [r EXCEPT !.args = a]
    <2>1. RegOK(q)
      BY <1>1, <1>5
    <2> HIDE DEF q
    <2>2. RegOK([q EXCEPT !.stdin = v])
      BY <1>5, <2>1 DEF RegOK
    <2> QED
      BY <2>2 DEF q
  <1> QED
    BY <1>1, <1>2, <1>3, <1>4, <1>5, Zenon

LEMMA NoRegOK == RegOK(NoReg)
  BY TextFacts, ValsFacts DEF RegOK, NoReg

LEMMA IoSet ==
  ASSUME IoOK
  PROVE  /\ io' = io => Talks
         /\ io' = Write => Talks
         /\ io' = [Write EXCEPT !.slept = @ \/ ~io.cap] => Talks
         /\ io' = [io EXCEPT !.slept = @ \/ ~io.cap] => Talks
         /\ \A n \in {5, 10} : io' = [io EXCEPT !.idle = n] => Talks
         /\ \A e : io' = [io EXCEPT !.owed = @ /\ e] => Talks
  <1>1. io' = io => Talks
    BY DEF Talks, IoOK
  <1>2. io' = Write => Talks
    BY DEF Talks, IoOK, Write
  <1>3. io' = [Write EXCEPT !.slept = @ \/ ~io.cap] => Talks
    BY DEF Talks, IoOK, Write
  <1>4. io' = [io EXCEPT !.slept = @ \/ ~io.cap] => Talks
    BY DEF Talks, IoOK
  <1>5. \A n \in {5, 10} : io' = [io EXCEPT !.idle = n] => Talks
    BY DEF Talks, IoOK
  <1>6. \A e : io' = [io EXCEPT !.owed = @ /\ e] => Talks
    BY DEF Talks, IoOK
  <1> QED
    BY <1>1, <1>2, <1>3, <1>4, <1>5, <1>6

LEMMA IoRead ==
  ASSUME IoOK, ~io.cap
  PROVE  /\ io' = [Prompted EXCEPT !.waited = TRUE] => Talks
         /\ io' = [Prompted EXCEPT !.waited = TRUE, !.owed = @ \/ At("secret")] => Talks
  <1> DEFINE x == Prompted
             y == [x EXCEPT !.waited = TRUE]
  <1>1. /\ x = [alive |-> x.alive, cap |-> x.cap, idle |-> x.idle, wire |-> x.wire,
                slept |-> x.slept, waited |-> x.waited, owed |-> x.owed]
        /\ x.idle \in {5, 10} /\ x.cap = io.cap /\ x.owed = io.owed
    <2>1. x = io \/ x = Write
      BY DEF Prompted
    <2>2. CASE x = io
      BY <2>2 DEF IoOK
    <2>3. CASE x = Write
      BY <2>3 DEF IoOK, Write
    <2> QED
      BY <2>1, <2>2, <2>3
  <1> HIDE DEF x
  <1>2. /\ y = [alive |-> y.alive, cap |-> y.cap, idle |-> y.idle, wire |-> y.wire,
                slept |-> y.slept, waited |-> y.waited, owed |-> y.owed]
        /\ y.idle \in {5, 10} /\ y.cap = io.cap /\ y.owed = io.owed
    <2>1. ASSUME NEW b
          PROVE  LET z == [x EXCEPT !.waited = b]
                 IN /\ z = [alive |-> z.alive, cap |-> z.cap, idle |-> z.idle, wire |-> z.wire,
                           slept |-> z.slept, waited |-> z.waited, owed |-> z.owed]
                    /\ z.idle \in {5, 10} /\ z.cap = io.cap /\ z.owed = io.owed
      BY <1>1
    <2> QED
      BY <2>1
  <1> HIDE DEF y
  <1>3. io' = y => Talks
    BY <1>2 DEF Talks, IoOK
  <1>4. \A b : io' = [y EXCEPT !.owed = b] /\ (b => io.owed \/ At("secret")) => Talks
    BY <1>2 DEF Talks, IoOK
  <1>5. (y.owed \/ At("secret")) => io.owed \/ At("secret")
    BY <1>2
  <1>6. io' = [y EXCEPT !.owed = @ \/ At("secret")] => Talks
    BY <1>4, <1>5, Zenon
  <1> QED
    BY <1>3, <1>6 DEF x, y

\* A step that performs the first frame only.
LEMMA OneStep ==
  ASSUME Inv, k # <<>>, Top.do \notin Ends, NEW p, Calm(p), Go(p),
         p # <<>> => /\ Top.do \notin Outside \cup {"line", "secret"}
                     /\ p[Len(p)].do = "expand" => Top.do = "expand"
                     /\ p[Len(p)].do # "toWord",
         ~NoPivot(p) => Me.hop,
         NEW me, SetMe(me), Kept(Me, me), RegOK(reg'), Talks, LogsIt(Top) => ~io'.owed,
         mode' = mode, panics' = panics, held' = held
  PROVE  Inv'
  <1>1. /\ IsStack(k) /\ Len(k) \in Nat \ {0} /\ DOMAIN k = 1..Len(k) /\ Top = k[1] /\ 1 \in DOMAIN k
    BY Running
  <1>2. Tail(k) = SubSeq(k, 1 + 1, Len(k))
    <2>1. PICK S : k \in Seq(S)
      BY <1>1 DEF IsStack
    <2> QED
      BY <1>1, <2>1
  <1>3. k' = p \o SubSeq(k, 1 + 1, Len(k))
    BY <1>2 DEF Go
  <1>4. 1 \in Nat \ {0} /\ 1 <= Len(k) /\ \A i \in DOMAIN k : i <= 1 => k[i].do \notin Ends
    BY <1>1
  <1>5. sh' = [sh EXCEPT ![Len(sh)] = me] /\ ShellOK(me) /\ me.hop = Me.hop /\ me.depth = Me.depth /\ me.cap = Me.cap
    BY DEF SetMe, Kept
  <1>6. p # <<>> => k[1].do # "say" /\ k[1].do # "secret"
    BY <1>1 DEF Outside
  <1>7. (\E i \in DOMAIN p : p[i].do = "pivot") => Me.hop
    BY DEF NoPivot
  <1>8. p # <<>> => /\ k[1].do \notin Outside \cup {"line"} /\ k[1].do # "line"
                    /\ p[Len(p)].do = "expand" => k[1].do = "expand"
                    /\ p[Len(p)].do # "toWord"
    BY <1>1
  <1>9. LogsIt(k[1]) => ~io'.owed
    BY <1>1
  <1>10. k[1].do \in {"say", "secret"} => 1 = 1 /\ p = <<>>
    BY <1>6
  <1>11. Works(1, p, me)
    BY <1>3, <1>4, <1>5, <1>7, <1>8, <1>9, <1>10 DEF Works
  <1> QED
    BY <1>11, PlainStep

\* A step that only removes the first frame.
LEMMA Pops ==
  ASSUME Inv, k # <<>>, Top.do \notin Ends, Go(<<>>),
         NEW me, SetMe(me), Kept(Me, me), RegOK(reg'), Talks, LogsIt(Top) => ~io'.owed,
         mode' = mode, panics' = panics, held' = held
  PROVE  Inv'
  <1>1. Calm(<<>>) /\ NoPivot(<<>>)
    BY ReadyParts DEF Ready
  <1> QED
    BY <1>1, OneStep

\* A step that puts frames in the place of the first one and changes nothing else.
LEMMA Unfolds ==
  ASSUME Inv, k # <<>>, Top.do \notin Ends, NEW p, Ready(p), Go(p),
         p # <<>> => Top.do \notin Outside \cup {"line", "secret"},
         ~NoPivot(p) => Me.hop, Top.do # "log", sh' = sh, RegOK(reg'), Talks,
         mode' = mode, panics' = panics, held' = held
  PROVE  Inv'
  <1>1. IsStack(sh) /\ sh # <<>> /\ ShellOK(Me)
    BY Running
  <1>2. SetMe(Me)
    BY <1>1, MeChanged DEF SetMe, Me
  <1>3. Kept(Me, Me)
    BY <1>1, ShellSet
  <1>4. ~LogsIt(Top)
    BY DEF LogsIt
  <1>5. Calm(p) /\ (p # <<>> => p[Len(p)].do # "expand" /\ p[Len(p)].do # "toWord")
    BY DEF Ready
  <1> QED
    BY <1>2, <1>3, <1>4, <1>5, OneStep

-----------------------------------------------------------------------------
(* The steps of statements.                                                *)

LEMMA TopFacts ==
  ASSUME Inv, k # <<>>
  PROVE  /\ FrameOK(Top)
         /\ Top.do \in Effects => Flat(Top)
         /\ Top.do \in {"ask", "edit", "ifFile", "ifFull", "ifPivot", "either"} => Branch1(Top)
         /\ Top.do = "lastIs" => Top.code \in 0..255
         /\ Top.do = "expand" =>
              Top = [do |-> "expand", words |-> Top.words, acc |-> Top.acc] /\ Vals(Top.acc)
         /\ Top.do = "endCapture" => RegOK(Top.reg) /\ Top.cap \in BOOLEAN /\ Top.buf.len \in Nat
  <1>1. FrameOK(Top)
    BY Running DEF Inv, Shape
  <1>2. Flat(Top) => Top.do \in Effects
    BY DEF Flat
  <1>3. Branch1(Top) => Top.do \in {"ask", "edit", "ifFile", "ifFull", "ifPivot", "either"}
    BY BranchKinds
  <1> HIDE DEF Top
  <1>4. Top.do \in Effects => Flat(Top)
    BY <1>1, <1>3 DEF FrameOK, Effects, Control
  <1>5. Top.do \in {"ask", "edit", "ifFile", "ifFull", "ifPivot", "either"} => Branch1(Top)
    BY <1>1, <1>2 DEF FrameOK, Effects, Control
  <1>6. Top.do = "lastIs" => Top.code \in 0..255
    BY <1>1, <1>2, <1>3 DEF FrameOK, Effects, Control
  <1>7. Top.do = "expand" =>
              Top = [do |-> "expand", words |-> Top.words, acc |-> Top.acc] /\ Vals(Top.acc)
    BY <1>1, <1>2, <1>3 DEF FrameOK, Effects, Control
  <1>8. Top.do = "endCapture" => RegOK(Top.reg) /\ Top.cap \in BOOLEAN /\ Top.buf.len \in Nat
    BY <1>1, <1>2, <1>3 DEF FrameOK, Effects, Control
  <1> QED
    BY <1>1, <1>4, <1>5, <1>6, <1>7, <1>8

\* Frames that run within a line.
Inner == (Effects \ {"say", "slow", "idle", "line", "secret", "log"}) \cup Control
         \cup {"ask", "edit", "ifFile", "ifFull", "ifPivot", "either", "expand", "lastIs"}

LEMMA InnerFacts ==
  \A d \in Inner : d \notin Ends /\ d \notin Outside \cup {"line", "secret"} /\ d # "log"
  BY DEF Inner, Effects, Control, Ends, Outside

\* Such a frame gives way to others, and nothing else changes.
LEMMA Replaced ==
  ASSUME Inv, k # <<>>, Top.do \in Inner, NEW p, Ready(p), NoPivot(p), Go(p),
         mode' = mode, panics' = panics, held' = held, sh' = sh, reg' = reg, io' = io
  PROVE  Inv'
  <1>1. Top.do \notin Ends /\ Top.do \notin Outside \cup {"line", "secret"} /\ Top.do # "log"
    BY InnerFacts
  <1>2. RegOK(reg')
    BY DEF Inv
  <1>3. Talks
    BY IoSet DEF Inv
  <1> QED
    BY <1>1, <1>2, <1>3, Unfolds

LEMMA AtFacts ==
  \A d : At(d) => k # <<>> /\ Top.do = d
  BY DEF At, Top

LEMMA Statements1 ==
  ASSUME Inv
  PROVE  /\ nextStatement => Inv'
         /\ chain => Inv'
         /\ assign => Inv'
  <1>1. ASSUME nextStatement PROVE Inv'
    <2>1. k # <<>> /\ Top.do = "stmts"
      BY <1>1, AtFacts DEF nextStatement
    <2>2. mode' = mode /\ panics' = panics /\ held' = held /\ sh' = sh /\ io' = io /\ reg' = NoReg
      BY <1>1 DEF nextStatement, Same, Rest
    <2>3. \E p : Go(p) /\ Ready(p) /\ NoPivot(p)
      <3>1. CASE Top.stmts = <<>>
        BY <1>1, <3>1, ReadyParts DEF nextStatement
      <3>2. CASE Top.stmts # <<>>
        <4> DEFINE st == Head(Top.stmts)
                   a == IF Top.run THEN runStatement(st) ELSE <<>>
                   b == <<Chain(st.chain, Tail(Top.stmts))>>
        <4>1. Go(a \o b)
          BY <1>1, <3>2, Zenon DEF nextStatement
        <4>2. Ready(a) /\ NoPivot(a)
          BY ReadyStatement, ReadyParts
        <4>3. Ready(b) /\ NoPivot(b)
          BY ReadyFew, ControlQuiet, Zenon
        <4> HIDE DEF a, b
        <4>4. Ready(a \o b) /\ NoPivot(a \o b)
          BY <4>2, <4>3, ReadyCat
        <4> QED
          BY <4>1, <4>4
      <3> QED
        BY <3>1, <3>2
    <2>4. Talks
      BY <2>2, IoSet DEF Inv
    <2>5. RegOK(reg')
      BY <2>2, NoRegOK
    <2>6. Top.do \notin Ends /\ Top.do \notin Outside \cup {"line", "secret"} /\ Top.do # "log"
      BY <2>1 DEF Ends, Outside
    <2> QED
      BY <2>1, <2>2, <2>3, <2>4, <2>5, <2>6, Unfolds
  <1>2. ASSUME chain PROVE Inv'
    <2>1. k # <<>> /\ Top.do = "chain" /\ Top.do \in Inner
      BY <1>2, AtFacts DEF chain, Inner, Control
    <2>2. mode' = mode /\ panics' = panics /\ held' = held /\ sh' = sh /\ reg' = reg /\ io' = io
      BY <1>2 DEF chain, Same, Rest
    <2>3. \A ss, b : Ready(<<Stmts(ss, b)>>) /\ NoPivot(<<Stmts(ss, b)>>)
      BY ReadyFew, ControlQuiet, Zenon
    <2>4. \E p : Go(p) /\ Ready(p) /\ NoPivot(p)
      BY <1>2, <2>3, ReadyParts, Zenon DEF chain
    <2> QED
      BY <2>1, <2>2, <2>4, Replaced
  <1>3. ASSUME assign PROVE Inv'
    <2>1. k # <<>> /\ Top.do = "assigns" /\ Top.do \in Inner
      BY <1>3, AtFacts DEF assign, Inner, Control
    <2>2. mode' = mode /\ panics' = panics /\ held' = held /\ sh' = sh /\ reg' = reg /\ io' = io
      BY <1>3 DEF assign, Same, Rest
    <2>3. \A ws, x, ss : /\ Ready(<<Expand(ws), ToEnv(x), Assigns(ss)>>)
                         /\ NoPivot(<<Expand(ws), ToEnv(x), Assigns(ss)>>)
      BY ReadyParts, ControlQuiet, Zenon
    <2>4. \E p : Go(p) /\ Ready(p) /\ NoPivot(p)
      BY <1>3, <2>3, ReadyParts, Zenon DEF assign
    <2> QED
      BY <2>1, <2>2, <2>4, Replaced
  <1> QED
    BY <1>1, <1>2, <1>3

LEMMA Statements2 ==
  ASSUME Inv
  PROVE  /\ single => Inv'
         /\ interactive => Inv'
         /\ pipe => Inv'
         /\ stage => Inv'
  <1>1. ASSUME single PROVE Inv'
    <2>1. k # <<>> /\ Top.do = "single" /\ Top.do \in Inner
      BY <1>1, AtFacts DEF single, Inner, Control
    <2>2. mode' = mode /\ panics' = panics /\ held' = held /\ sh' = sh /\ reg' = reg /\ io' = io
      BY <1>1 DEF single, Same, Rest
    <2>3. /\ Ready(<<Interactive, SetLast>>) /\ NoPivot(<<Interactive, SetLast>>)
          /\ \A ss : Ready(<<Pipe(ss), SetLast>>) /\ NoPivot(<<Pipe(ss), SetLast>>)
      BY ReadyFew, ControlQuiet, Zenon
    <2>4. \E p : Go(p) /\ Ready(p) /\ NoPivot(p)
      BY <1>1, <2>3, Zenon DEF single
    <2> QED
      BY <2>1, <2>2, <2>4, Replaced
  <1>2. ASSUME interactive PROVE Inv'
    <2>1. k # <<>> /\ Top.do = "interactive" /\ Top.do \in Inner
      BY <1>2, AtFacts DEF interactive, Inner, Control
    <2>2. mode' = mode /\ panics' = panics /\ held' = held /\ sh' = sh /\ reg' = reg /\ io' = io
      BY <1>2 DEF interactive, Same, Rest
    <2>3. \E p : Go(p) /\ Ready(p) /\ NoPivot(p)
      BY <1>2, InteractiveScript, ScriptReady, Zenon DEF interactive
    <2> QED
      BY <2>1, <2>2, <2>3, Replaced
  <1>3. ASSUME pipe PROVE Inv'
    <2>1. k # <<>> /\ Top.do = "pipe" /\ Top.do \in Inner
      BY <1>3, AtFacts DEF pipe, Inner, Control
    <2>2. mode' = mode /\ panics' = panics /\ held' = held /\ sh' = sh /\ reg' = reg /\ io' = io
      BY <1>3 DEF pipe, Same, Rest
    <2>3. \A ws, st, b, ss : /\ Ready(<<Expand(ws), ToArgs, Stage(st, b), Pipe(ss)>>)
                             /\ NoPivot(<<Expand(ws), ToArgs, Stage(st, b), Pipe(ss)>>)
      <3>1. \A st, b, ss : /\ Stage(st, b).do \in Control \ {"toWord"} /\ Quiet(Pipe(ss))
                           /\ Pipe(ss).do # "secret" /\ Pipe(ss).do # "pivot"
        BY ControlQuiet, Zenon
      <3> QED
        BY <3>1, ReadyParts, Zenon
    <2>4. \E p : Go(p) /\ Ready(p) /\ NoPivot(p)
      BY <1>3, <2>3, ReadyParts, Zenon DEF pipe
    <2> QED
      BY <2>1, <2>2, <2>4, Replaced
  <1>4. ASSUME stage PROVE Inv'
    <2>1. k # <<>> /\ Top.do = "stage" /\ Top.do \in Inner
      BY <1>4, AtFacts DEF stage, Inner, Control
    <2>2. mode' = mode /\ panics' = panics /\ held' = held /\ sh' = sh /\ reg' = reg /\ io' = io
      BY <1>4 DEF stage, Same, Rest
    <2>3. \E p : Go(p) /\ Ready(p) /\ NoPivot(p)
      <3>1. CASE reg.args = <<>>
        BY <1>4, <3>1, ReadyParts DEF stage
      <3>2. CASE reg.args # <<>>
        <4> DEFINE a == runCommand(Texts(reg.args))
                   b == IF Top.last THEN <<Emit(Top.stg)>> ELSE <<Feed>>
        <4>1. Go(a \o b)
          BY <1>4, <3>2, Zenon DEF stage
        <4>2. Ready(a) /\ NoPivot(a)
          BY CommandScript, ScriptReady, Zenon
        <4>3. Ready(b) /\ NoPivot(b)
          <5>1. Ready(<<Emit(Top.stg)>>) /\ NoPivot(<<Emit(Top.stg)>>) /\ Ready(<<Feed>>) /\ NoPivot(<<Feed>>)
            BY ReadyFew, ControlQuiet, Zenon
          <5> QED
            BY <5>1
        <4> HIDE DEF a, b
        <4>4. Ready(a \o b) /\ NoPivot(a \o b)
          BY <4>2, <4>3, ReadyCat
        <4> QED
          BY <4>1, <4>4
      <3> QED
        BY <3>1, <3>2
    <2> QED
      BY <2>1, <2>2, <2>3, Replaced
  <1> QED
    BY <1>1, <1>2, <1>3, <1>4

-----------------------------------------------------------------------------
(* The effects of the programs.                                            *)

LEMMA ShellPops ==
  ASSUME Inv, k # <<>>, Top.do \notin Ends, Top.do # "log", Go(<<>>),
         mode' = mode, panics' = panics, held' = held, reg' = reg, io' = io,
         NEW me, SetMe(me), Kept(Me, me)
  PROVE  Inv'
  <1>1. RegOK(reg') /\ Talks
    BY IoSet DEF Inv
  <1>2. ~LogsIt(Top)
    BY DEF LogsIt
  <1> QED
    BY <1>1, <1>2, Pops

LEMMA SameShell ==
  ASSUME Inv, k # <<>>, sh' = sh
  PROVE  SetMe(Me) /\ Kept(Me, Me)
  <1>1. IsStack(sh) /\ sh # <<>> /\ ShellOK(Me)
    BY Running
  <1>2. SetMe(Me)
    BY <1>1, MeChanged DEF SetMe, Me
  <1> QED
    BY <1>1, <1>2, ShellSet

LEMMA IoPops ==
  ASSUME Inv, k # <<>>, Top.do \notin Ends, Go(<<>>),
         mode' = mode, panics' = panics, held' = held, reg' = reg, sh' = sh,
         Talks, LogsIt(Top) => ~io'.owed
  PROVE  Inv'
  <1>1. RegOK(reg')
    BY DEF Inv
  <1> QED
    BY <1>1, SameShell, Pops

LEMMA RegPops ==
  ASSUME Inv, k # <<>>, Top.do \notin Ends, Go(<<>>), Top.do # "log",
         mode' = mode, panics' = panics, held' = held, RegOK(reg'), sh' = sh, io' = io
  PROVE  Inv'
  <1>1. Talks
    BY IoSet DEF Inv
  <1>2. ~LogsIt(Top)
    BY DEF LogsIt
  <1> QED
    BY <1>1, <1>2, SameShell, Pops

LEMMA NotEnds ==
  \A d \in Effects \cup Control \cup {"lastIs", "expand", "ask", "edit", "loop"} : d \notin Ends
  BY DEF Effects, Control, Ends

LEMMA Effects1 ==
  ASSUME Inv
  PROVE  /\ setLast => Inv'
         /\ quit => Inv'
         /\ setCron => Inv'
         /\ remove => Inv'
         /\ writeFile => Inv'
  <1>1. ASSUME setLast PROVE Inv'
    <2>1. k # <<>> /\ Top.do \in {"setLast", "lastIs"} /\ Top.do \notin Ends /\ Top.do # "log"
      BY <1>1, AtFacts DEF setLast, Ends
    <2>2. mode' = mode /\ panics' = panics /\ held' = held /\ reg' = reg /\ io' = io /\ Go(<<>>)
      BY <1>1 DEF setLast, Same, Rest
    <2> DEFINE c == IF At("setLast") THEN reg.code ELSE Top.code
    <2>3. c \in 0..255
      <3>1. ~At("setLast") => Top.do = "lastIs"
        BY <1>1, <2>1, AtFacts DEF setLast
      <3>2. reg.code \in 0..255
        BY DEF Inv, RegOK
      <3> QED
        BY <2>1, <3>1, <3>2, TopFacts
    <2>4. SetMe([Me EXCEPT !.last = c])
      BY <1>1 DEF setLast
    <2> HIDE DEF c
    <2>5. Kept(Me, [Me EXCEPT !.last = c])
      BY <2>1, <2>3, Running, ShellSet, Zenon
    <2> QED
      BY <2>1, <2>2, <2>4, <2>5, ShellPops
  <1>2. ASSUME quit PROVE Inv'
    <2>1. k # <<>> /\ Top.do = "quit" /\ Top.do \notin Ends /\ Top.do # "log"
      BY <1>2, AtFacts DEF quit, Ends
    <2>2. mode' = mode /\ panics' = panics /\ held' = held /\ reg' = reg /\ io' = io /\ Go(<<>>)
      BY <1>2 DEF quit, Same, Rest
    <2>3. SetMe([Me EXCEPT !.quit = TRUE])
      BY <1>2 DEF quit
    <2>4. \A b : Kept(Me, [Me EXCEPT !.quit = b])
      BY <2>1, Running, ShellSet, Zenon
    <2>5. Kept(Me, [Me EXCEPT !.quit = TRUE])
      BY <2>4, Zenon
    <2> QED
      BY <2>1, <2>2, <2>3, <2>5, ShellPops
  <1>3. ASSUME setCron PROVE Inv'
    <2>1. k # <<>> /\ Top.do = "cron" /\ Top.do \notin Ends /\ Top.do # "log"
      BY <1>3, AtFacts DEF setCron, Ends
    <2>2. mode' = mode /\ panics' = panics /\ held' = held /\ reg' = reg /\ io' = io /\ Go(<<>>)
      BY <1>3 DEF setCron, Same, Rest
    <2>3. SetMe([Me EXCEPT !.cron = Top.set])
      BY <1>3 DEF setCron
    <2>4. Kept(Me, [Me EXCEPT !.cron = Top.set])
      BY <2>1, Running, ShellSet, Zenon
    <2> QED
      BY <2>1, <2>2, <2>3, <2>4, ShellPops
  <1>4. ASSUME remove PROVE Inv'
    <2>1. k # <<>> /\ Top.do = "erase" /\ Top.do \notin Ends /\ Top.do # "log"
      BY <1>4, AtFacts DEF remove, Ends
    <2>2. mode' = mode /\ panics' = panics /\ held' = held /\ reg' = reg /\ io' = io /\ Go(<<>>)
      BY <1>4 DEF remove, Same, Rest
    <2>3. SetMe([Me EXCEPT !.files[Top.file] = Absent])
      BY <1>4 DEF remove
    <2>4. Absent.len \in Int /\ Absent.len >= -1
      BY TextFacts
    <2>5. Kept(Me, [Me EXCEPT !.files[Top.file] = Absent])
      BY <2>1, <2>4, Running, ShellFiles
    <2> QED
      BY <2>1, <2>2, <2>3, <2>5, ShellPops
  <1>5. ASSUME writeFile PROVE Inv'
    <2>1. k # <<>> /\ Top.do \in {"save", "touch", "copy"} /\ Top.do \notin Ends /\ Top.do # "log"
      BY <1>5, AtFacts DEF writeFile, Ends
    <2>2. mode' = mode /\ panics' = panics /\ held' = held /\ reg' = reg /\ io' = io /\ Go(<<>>)
      BY <1>5 DEF writeFile, Same, Rest
    <2> DEFINE v == Written(Top.file)
    <2>3. v.len \in Int /\ v.len >= -1
      <3>1. At("save") \/ At("touch") \/ At("copy")
        BY <1>5 DEF writeFile
      <3>2. v = Word("payload") \/ v = Empty \/ v = Content(Me, Top.file)
        <4>0. /\ At("save") => ~At("touch") /\ ~At("copy")
              /\ At("touch") => ~At("copy")
          BY DEF At
        <4>1. CASE At("save") /\ ~At("touch") /\ ~At("copy")
          BY <4>1, Zenon DEF Written
        <4>2. CASE ~At("save") /\ At("touch") /\ ~At("copy")
          BY <4>2, Zenon DEF Written
        <4>3. CASE ~At("save") /\ ~At("touch") /\ At("copy")
          BY <4>3, Zenon DEF Written
        <4> QED
          BY <3>1, <4>0, <4>1, <4>2, <4>3, Zenon
      <3>3. Content(Me, Top.file).len \in Int /\ Content(Me, Top.file).len >= -1
        BY <2>1, Running, ShellFiles
      <3>4. Word("payload").len \in Nat /\ Empty.len \in Nat
        BY TextFacts
      <3> HIDE DEF v
      <3> QED
        BY <3>2, <3>3, <3>4
    <2>4. (\E f : SetMe([Me EXCEPT !.files[f] = v])) \/ sh' = sh
      BY <1>5, Zenon DEF writeFile, Same
    <2> HIDE DEF v
    <2>5. CASE \E f : SetMe([Me EXCEPT !.files[f] = v])
      <3>1. PICK f : SetMe([Me EXCEPT !.files[f] = v])
        BY <2>5
      <3>2. Kept(Me, [Me EXCEPT !.files[f] = v])
        BY <2>1, <2>3, Running, ShellFiles
      <3> QED
        BY <2>1, <2>2, <3>1, <3>2, ShellPops
    <2>6. CASE sh' = sh
      BY <2>1, <2>2, <2>6, SameShell, ShellPops
    <2> QED
      BY <2>4, <2>5, <2>6
  <1> QED
    BY <1>1, <1>2, <1>3, <1>4, <1>5

LEMMA Effects2 ==
  ASSUME Inv
  PROVE  /\ say => Inv'
         /\ slowWrite => Inv'
         /\ pause => Inv'
         /\ logEvent => Inv'
         /\ setIdle => Inv'
  <1>0. IoOK
    BY DEF Inv
  <1>1. ASSUME say PROVE Inv'
    <2>1. k # <<>> /\ Top.do = "say" /\ Top.do \notin Ends /\ ~LogsIt(Top)
      BY <1>1, AtFacts DEF say, Ends, LogsIt
    <2>2. mode' = mode /\ panics' = panics /\ held' = held /\ reg' = reg /\ sh' = sh /\ Go(<<>>)
      BY <1>1 DEF say, Same, Rest
    <2>3. Talks
      BY <1>0, <1>1, IoSet DEF say
    <2> QED
      BY <2>1, <2>2, <2>3, IoPops
  <1>2. ASSUME slowWrite PROVE Inv'
    <2>1. k # <<>> /\ Top.do = "slow" /\ Top.do \notin Ends /\ ~LogsIt(Top)
      BY <1>2, AtFacts DEF slowWrite, Ends, LogsIt
    <2>2. mode' = mode /\ panics' = panics /\ held' = held /\ reg' = reg /\ sh' = sh /\ Go(<<>>)
      BY <1>2 DEF slowWrite, Same, Rest
    <2>3. Talks
      BY <1>0, <1>2, IoSet, Zenon DEF slowWrite
    <2> QED
      BY <2>1, <2>2, <2>3, IoPops
  <1>3. ASSUME pause PROVE Inv'
    <2>1. k # <<>> /\ Top.do = "pause" /\ Top.do \notin Ends /\ ~LogsIt(Top)
      BY <1>3, AtFacts DEF pause, Ends, LogsIt
    <2>2. mode' = mode /\ panics' = panics /\ held' = held /\ reg' = reg /\ sh' = sh /\ Go(<<>>)
      BY <1>3 DEF pause, Same, Rest
    <2>3. Talks
      BY <1>0, <1>3, IoSet, Zenon DEF pause
    <2> QED
      BY <2>1, <2>2, <2>3, IoPops
  <1>4. ASSUME logEvent PROVE Inv'
    <2>1. k # <<>> /\ Top.do = "log" /\ Top.do \notin Ends
      BY <1>4, AtFacts DEF logEvent, Ends
    <2>2. mode' = mode /\ panics' = panics /\ held' = held /\ reg' = reg /\ sh' = sh /\ Go(<<>>)
      BY <1>4 DEF logEvent, Same, Rest
    <2>3. Talks
      BY <1>0, <1>4, IoSet, Zenon DEF logEvent
    <2>4. ASSUME LogsIt(Top) PROVE ~io'.owed
      <3> DEFINE b == io.owed /\ Top.ev \notin {"CREDENTIAL", "COMMAND"}
      <3>1. ~b
        BY <2>4 DEF LogsIt
      <3>2. io' = [io EXCEPT !.owed = b]
        BY <1>4 DEF logEvent
      <3> HIDE DEF b
      <3>3. io'.owed = b
        BY <1>0, <3>2 DEF IoOK
      <3> QED
        BY <3>1, <3>3, Zenon
    <2> QED
      BY <2>1, <2>2, <2>3, <2>4, IoPops
  <1>5. ASSUME setIdle PROVE Inv'
    <2>1. k # <<>> /\ Top.do = "idle" /\ Top.do \notin Ends /\ ~LogsIt(Top)
      BY <1>5, AtFacts DEF setIdle, Ends, LogsIt
    <2>2. mode' = mode /\ panics' = panics /\ held' = held /\ reg' = reg /\ sh' = sh /\ Go(<<>>)
      BY <1>5 DEF setIdle, Same, Rest
    <2>3. Top.min \in {5, 10}
      BY <2>1, TopFacts DEF Flat, Effects
    <2>4. io' = [io EXCEPT !.idle = Top.min]
      BY <1>5 DEF setIdle
    <2>5. Talks
      BY <1>0, <2>3, <2>4, IoSet, Zenon
    <2> QED
      BY <2>1, <2>2, <2>5, IoPops
  <1> QED
    BY <1>1, <1>2, <1>3, <1>4, <1>5

LEMMA Effects3 ==
  ASSUME Inv
  PROVE  /\ returns => Inv'
         /\ outputs => Inv'
         /\ feed => Inv'
         /\ command => Inv'
  <1>0. /\ RegOK(reg) /\ Vals(reg.args) /\ reg.stdin.len \in Nat /\ reg.out.len \in Nat
        /\ reg.code \in 0..255 /\ Empty.len \in Nat
    BY TextFacts DEF Inv, RegOK
  <1>1. ASSUME returns PROVE Inv'
    <2>1. k # <<>> /\ Top.do \in {"return", "returnLast"} /\ Top.do \notin Ends /\ Top.do # "log"
      BY <1>1, AtFacts DEF returns, Ends
    <2>2. mode' = mode /\ panics' = panics /\ held' = held /\ sh' = sh /\ io' = io /\ Go(<<>>)
      BY <1>1 DEF returns, Same, Rest
    <2> DEFINE c == IF At("return") THEN Top.code ELSE Me.last
    <2>3. c \in 0..255
      <3>1. Me.last \in 0..255
        BY <2>1, Running DEF ShellOK
      <3>2. At("return") => Top.code \in 0..255
        BY AtFacts, TopFacts DEF Flat, Effects
      <3> QED
        BY <3>1, <3>2
    <2>4. reg' = [reg EXCEPT !.code = c]
      BY <1>1 DEF returns
    <2> HIDE DEF c
    <2>5. RegOK(reg')
      BY <1>0, <2>3, <2>4, RegSet, Zenon
    <2> QED
      BY <2>1, <2>2, <2>5, RegPops
  <1>2. ASSUME outputs PROVE Inv'
    <2>1. k # <<>> /\ Top.do \in {"output", "echo", "pass"} /\ Top.do \notin Ends /\ Top.do # "log"
      BY <1>2, AtFacts DEF outputs, Ends
    <2>2. mode' = mode /\ panics' = panics /\ held' = held /\ sh' = sh /\ io' = io /\ Go(<<>>)
      BY <1>2 DEF outputs, Same, Rest
    <2>3. \A v, c : v.len \in Nat /\ c \in 0..255 => RegOK([reg EXCEPT !.out = v, !.code = c])
      BY <1>0, RegSet, Zenon
    <2>4. Word("out").len \in Nat /\ Joined(Operands(reg.args)).len \in Nat /\ 0 \in 0..255
      BY <1>0, TextFacts, ValsFacts, JoinedLen
    <2>5. ASSUME At("output"),
                 reg' = [reg EXCEPT !.out = IF Top.len = 0 THEN Empty ELSE Word("out"), !.code = Top.code]
          PROVE  RegOK(reg')
      <3>1. Top.code \in 0..255
        BY <2>5, AtFacts, TopFacts DEF Flat, Effects
      <3> DEFINE v == IF Top.len = 0 THEN Empty ELSE Word("out")
      <3>2. v.len \in Nat
        BY <1>0, <2>4
      <3>3. reg' = [reg EXCEPT !.out = v, !.code = Top.code]
        BY <2>5
      <3> HIDE DEF v
      <3> QED
        BY <2>3, <3>1, <3>2, <3>3, Zenon
    <2>6. ASSUME reg' = [reg EXCEPT !.out = Joined(Operands(reg.args)), !.code = 0] PROVE RegOK(reg')
      BY <2>3, <2>4, <2>6, Zenon
    <2>7. ASSUME reg' = [reg EXCEPT !.out = reg.stdin, !.code = 0] PROVE RegOK(reg')
      BY <1>0, <2>3, <2>4, <2>7, Zenon
    <2>8. RegOK(reg')
      BY <1>2, <2>5, <2>6, <2>7, Zenon DEF outputs
    <2> QED
      BY <2>1, <2>2, <2>8, RegPops
  <1>3. ASSUME feed PROVE Inv'
    <2>1. k # <<>> /\ Top.do = "feed" /\ Top.do \notin Ends /\ Top.do # "log"
      BY <1>3, AtFacts DEF feed, Ends
    <2>2. mode' = mode /\ panics' = panics /\ held' = held /\ sh' = sh /\ io' = io /\ Go(<<>>)
      BY <1>3 DEF feed, Same, Rest
    <2>3. RegOK(reg')
      BY <1>0, <1>3, RegSet, Zenon DEF feed
    <2> QED
      BY <2>1, <2>2, <2>3, RegPops
  <1>4. ASSUME command PROVE Inv'
    <2>1. /\ k # <<>> /\ Top.do = "command" /\ Top.do \notin Ends /\ Top.do # "log"
          /\ Top.do \notin Outside \cup {"line", "secret"}
      BY <1>4, AtFacts DEF command, Ends, Outside
    <2>2. mode' = mode /\ panics' = panics /\ held' = held /\ sh' = sh /\ io' = io
      BY <1>4 DEF command, Same, Rest
    <2>3. Go(runCommand(Top.args)) /\ Ready(runCommand(Top.args)) /\ NoPivot(runCommand(Top.args))
      BY <1>4, CommandScript, ScriptReady, Zenon DEF command
    <2> DEFINE v == IF Top.stdin THEN reg.stdin ELSE Empty
    <2>4. v.len \in Nat
      BY <1>0
    <2>5. reg' = [reg EXCEPT !.args = Operands(reg.args), !.stdin = v]
      BY <1>4 DEF command
    <2> HIDE DEF v
    <2>6. RegOK(reg')
      BY <1>0, <2>4, <2>5, RegSet, ValsFacts, Zenon
    <2>7. Talks
      BY <2>2, IoSet DEF Inv
    <2> QED
      BY <2>1, <2>2, <2>3, <2>6, <2>7, Unfolds
  <1> QED
    BY <1>1, <1>2, <1>3, <1>4

\* The branches of a program.
LEMMA BranchParts ==
  ASSUME NEW f, Branch1(f)
  PROVE  /\ f.do = "ask" => Script(f.yes) /\ Script(f.no) /\ Script(f.none)
         /\ f.do = "edit" => Script(f.saved) /\ Script(f.left) /\ Ready(<<f>>) /\ NoPivot(<<f>>)
         /\ f.do \in {"ifFile", "ifFull"} => Script(f.then) /\ Script(f.else)
         /\ f.do = "ifPivot" => Pivots(f.then) /\ Script(f.else)
         /\ f.do = "either" => Script(f.alts[1]) /\ Script(f.alts[2])
  <1>1. \A s : Script1(s) => Script(s)
    BY Nested, Zenon
  <1>2. f.do = "edit" => Ready(<<f>>) /\ NoPivot(<<f>>)
    <2>1. Quiet(f) /\ f.do # "pivot"
      BY QuietKinds
    <2>2. Quiet(f) /\ f.do # "pivot" /\ f.do # "secret" => Ready(<<f>>) /\ NoPivot(<<f>>)
      BY ReadyFew, Zenon
    <2> QED
      BY <2>1, <2>2
  <1> QED
    BY <1>1, <1>2 DEF Branch1

LEMMA Programs1 ==
  ASSUME Inv
  PROVE  /\ decode => Inv'
         /\ walkFind => Inv'
         /\ branch => Inv'
  <1>1. ASSUME decode PROVE Inv'
    <2>1. k # <<>> /\ Top.do = "decode" /\ Top.do \in Inner
      <3>1. At("decode")
        BY <1>1, Zenon DEF decode
      <3> QED
        BY <3>1, AtFacts DEF Inner, Effects
    <2>2. mode' = mode /\ panics' = panics /\ held' = held /\ sh' = sh /\ reg' = reg /\ io' = io
      BY <1>1, Zenon DEF decode, Same, Rest
    <2> DEFINE text == <<Log("EXEC_ATTEMPT")>> \o Report
    <2>3. Script0(<<Log("EXEC_ATTEMPT")>>) /\ Script0(Report) /\ Script0(Success) /\ Script0(Failure)
      BY PlainScripts, Outputs, Zenon
    <2>4. Script0(text) /\ Script0(<<Log("EXEC_ATTEMPT")>> \o Success)
      BY <2>3, ScriptCat, Zenon
    <2>5. \A t : Script0(<<Log("EXEC_ATTEMPT"), RunLine(t)>>)
      BY FlatFacts, Tuples2, Zenon
    <2>6. \A t : Script0(<<Log("EXEC_ATTEMPT"), RunLine(t)>> \o Success)
      BY <2>3, <2>5, ScriptCat, Zenon
    <2> HIDE DEF text
    <2>7. Script(<<Either(Failure, text)>>)
      BY <2>3, <2>4, Nested, BranchScripts, Zenon
    <2>8. \/ Go(<<Log("EXEC_ATTEMPT")>> \o Success) \/ Go(<<Either(Failure, text)>>) \/ Go(text)
          \/ \E t : Go(<<Log("EXEC_ATTEMPT"), RunLine(t)>> \o Success)
      BY <1>1, Zenon DEF decode, text
    <2>9. \E p : Go(p) /\ Script(p)
      BY <2>4, <2>6, <2>7, <2>8, Nested, Zenon
    <2>10. \E p : Go(p) /\ Ready(p) /\ NoPivot(p)
      BY <2>9, ScriptReady, Zenon
    <2> QED
      BY <2>1, <2>2, <2>10, Replaced
  <1>2. ASSUME walkFind PROVE Inv'
    <2>1. k # <<>> /\ Top.do = "walk" /\ Top.do \in Inner
      BY <1>2, AtFacts DEF walkFind, Inner, Effects
    <2>2. mode' = mode /\ panics' = panics /\ held' = held /\ sh' = sh /\ reg' = reg /\ io' = io
      BY <1>2 DEF walkFind, Same, Rest
    <2>3. Top.count \in 0..(MaxFind + 1) /\ MaxFind \in Nat
      BY <2>1, TopFacts, LimitsAssumption DEF Flat, Effects
    <2>4. CASE Top.count <= MaxFind /\ Go(<<Say, Pause, Walk(Top.count + 1)>>)
      <3>1. Top.count + 1 \in 0..(MaxFind + 1)
        BY <2>3, <2>4
      <3>2. Eff(Say) /\ Eff(Pause) /\ Eff(Walk(Top.count + 1))
        BY <3>1, FlatFacts
      <3>3. Script(<<Say, Pause, Walk(Top.count + 1)>>)
        BY <3>2, Tuples3, Nested, Zenon
      <3>4. Ready(<<Say, Pause, Walk(Top.count + 1)>>) /\ NoPivot(<<Say, Pause, Walk(Top.count + 1)>>)
        BY <3>3, ScriptReady, Zenon
      <3> QED
        BY <2>1, <2>2, <2>4, <3>4, Replaced
    <2>5. CASE Go(<<>>)
      BY <2>1, <2>2, <2>5, ReadyParts, Replaced
    <2> QED
      BY <1>2, <2>4, <2>5 DEF walkFind
  <1>3. ASSUME branch PROVE Inv'
    <2>1. /\ k # <<>> /\ Top.do \in {"ifFile", "ifFull", "ifPivot", "either"} /\ Top.do \in Inner
          /\ Branch1(Top)
      <3>1. k # <<>> /\ Top.do \in {"ifFile", "ifFull", "ifPivot", "either"}
        BY <1>3, AtFacts DEF branch
      <3> QED
        BY <3>1, TopFacts DEF Inner
    <2>2. mode' = mode /\ panics' = panics /\ held' = held /\ sh' = sh /\ reg' = reg /\ io' = io
      BY <1>3 DEF branch, Same, Rest
    <2>3. \/ \E p : Go(p) /\ Script(p)
          \/ \E p : Go(p) /\ Pivots(p) /\ Me.hop
      <3>1. /\ Top.do = "ifPivot" => Pivots(Top.then) /\ Script(Top.else)
            /\ Top.do = "ifFile" => Script(Top.then) /\ Script(Top.else)
            /\ Top.do = "ifFull" => Script(Top.then) /\ Script(Top.else)
            /\ Top.do = "either" => Script(Top.alts[1]) /\ Script(Top.alts[2])
        BY <2>1, BranchParts
      <3>2. CASE At("ifFile") /\ Go(IF Exists(Content(Me, Top.file)) THEN Top.then ELSE Top.else)
        BY <3>1, <3>2, AtFacts, Zenon
      <3>3. CASE At("ifFull") /\ Go(IF Content(Me, Top.file).len > 0 THEN Top.then ELSE Top.else)
        BY <3>1, <3>3, AtFacts, Zenon
      <3>4. CASE At("ifPivot") /\ Go(IF Me.hop /\ Top.host \in PivotHosts THEN Top.then ELSE Top.else)
        BY <3>1, <3>4, AtFacts, Zenon
      <3>5. CASE At("either") /\ \E i \in {1, 2} : Go(Top.alts[i])
        BY <3>1, <3>5, AtFacts, Zenon
      <3> QED
        BY <1>3, <3>2, <3>3, <3>4, <3>5, Zenon DEF branch
    <2>4. CASE \E p : Go(p) /\ Script(p)
      <3>1. \E p : Go(p) /\ Ready(p) /\ NoPivot(p)
        BY <2>4, ScriptReady, Zenon
      <3> QED
        BY <2>1, <2>2, <3>1, Replaced
    <2>5. CASE \E p : Go(p) /\ Pivots(p) /\ Me.hop
      <3>1. PICK p : Go(p) /\ Ready(p) /\ Me.hop
        BY <2>5, ScriptReady, Zenon
      <3>2. Top.do \notin Ends /\ Top.do \notin Outside \cup {"line", "secret"} /\ Top.do # "log"
        BY <2>1, InnerFacts
      <3>3. RegOK(reg') /\ Talks
        BY <2>2, IoSet DEF Inv
      <3> QED
        BY <2>1, <2>2, <3>1, <3>2, <3>3, Unfolds
    <2> QED
      BY <2>3, <2>4, <2>5
  <1> QED
    BY <1>1, <1>2, <1>3

-----------------------------------------------------------------------------
(* Reads.                                                                  *)

LEMMA InputParts ==
  ASSUME Inv, k # <<>>, Reading
  PROVE  /\ Top.do \in {"loop", "secret", "ask", "edit"} /\ Top.do \notin Ends /\ Top.do # "log"
         /\ Ready(NoInput) /\ NoPivot(NoInput)
         /\ NoInput # <<>> => Top.do \notin Outside \cup {"line", "secret"}
  <1>1. Top.do \in {"loop", "secret", "ask", "edit"}
    BY DEF Reading
  <1>2. Top.do \in {"ask", "edit"} => Branch1(Top)
    BY TopFacts
  <1>3. CASE Top.do = "ask"
    <2>1. Script(Top.none)
      BY <1>2, <1>3, BranchParts
    <2>2. At("ask") /\ ~At("edit")
      BY <1>3 DEF At, Top
    <2>3. NoInput = Top.none
      BY <2>2, Zenon DEF NoInput
    <2>4. Ready(NoInput) /\ NoPivot(NoInput)
      BY <2>1, <2>3, ScriptReady, Zenon
    <2> QED
      BY <1>3, <2>4 DEF Ends, Outside
  <1>4. CASE Top.do = "edit"
    <2>1. Script(Top.left)
      BY <1>2, <1>4, BranchParts
    <2>2. ~At("ask") /\ At("edit")
      BY <1>4 DEF At, Top
    <2>3. NoInput = Top.left
      BY <2>2, Zenon DEF NoInput
    <2>4. Ready(NoInput) /\ NoPivot(NoInput)
      BY <2>1, <2>3, ScriptReady, Zenon
    <2> QED
      BY <1>4, <2>4 DEF Ends, Outside
  <1>5. CASE Top.do \in {"loop", "secret"}
    <2>1. ~At("ask") /\ ~At("edit")
      BY <1>5 DEF At, Top
    <2>2. NoInput = <<>>
      BY <2>1, Zenon DEF NoInput
    <2> QED
      BY <1>5, <2>2, ReadyParts DEF Ends
  <1> QED
    BY <1>1, <1>3, <1>4, <1>5

LEMMA Reads1 ==
  ASSUME Inv
  PROVE  /\ leaveLoop => Inv'
         /\ readNothing => Inv'
         /\ readTimeout => Inv'
  <1>0. IoOK /\ RegOK(reg)
    BY DEF Inv
  <1>1. ASSUME leaveLoop PROVE Inv'
    <2>1. k # <<>> /\ Top.do = "loop" /\ Top.do \notin Ends /\ Top.do # "log"
      BY <1>1, AtFacts DEF leaveLoop, Ends
    <2>2. mode' = mode /\ panics' = panics /\ held' = held /\ sh' = sh /\ reg' = reg /\ io' = io /\ Go(<<>>)
      BY <1>1 DEF leaveLoop, Same, Rest
    <2> QED
      BY <1>0, <2>1, <2>2, RegPops
  <1>2. ASSUME readNothing PROVE Inv'
    <2>1. k # <<>> /\ Reading
      BY <1>2 DEF readNothing, Reading
    <2>2. mode' = mode /\ panics' = panics /\ held' = held /\ sh' = sh /\ reg' = reg /\ Go(NoInput) /\ io' = Prompted
      BY <1>2 DEF readNothing, Same, Rest
    <2>3. Talks
      BY <1>0, <2>2, IoSet, Zenon DEF Prompted
    <2> QED
      BY <1>0, <2>1, <2>2, <2>3, InputParts, Unfolds
  <1>3. ASSUME readTimeout PROVE Inv'
    <2>1. k # <<>> /\ Reading /\ ~io.cap
      BY <1>3 DEF readTimeout, Reading
    <2>2. mode' = mode /\ panics' = panics /\ held' = held /\ sh' = sh /\ reg' = reg /\ Go(NoInput)
      BY <1>3 DEF readTimeout, Same, Rest
    <2>3. Talks
      BY <1>0, <1>3, <2>1, IoRead, Zenon DEF readTimeout
    <2> QED
      BY <1>0, <2>1, <2>2, <2>3, InputParts, Unfolds
  <1> QED
    BY <1>1, <1>2, <1>3

LEMMA Reads2 ==
  ASSUME Inv, typeAnswer
  PROVE  Inv'
  <1>1. k # <<>> /\ Reading /\ ~io.cap /\ ~At("loop")
    BY DEF typeAnswer, Reading
  <1>2. mode' = mode /\ panics' = panics /\ held' = held /\ sh' = sh /\ reg' = reg
    BY DEF typeAnswer, Same, Rest
  <1>3. Talks /\ RegOK(reg')
    <2>1. IoOK /\ RegOK(reg)
      BY DEF Inv
    <2>2. Talks
      BY <1>1, <2>1, IoRead, Zenon DEF typeAnswer
    <2> QED
      BY <1>2, <2>1, <2>2
  <1>4. Top.do \in {"ask", "edit"} => Branch1(Top)
    BY <1>1, TopFacts
  <1>5. CASE At("secret") /\ Go(<<>>)
    <2>1. Top.do = "secret" /\ Top.do \notin Ends /\ Top.do # "log"
      BY <1>5, AtFacts DEF Ends
    <2> QED
      BY <1>1, <1>2, <1>3, <1>5, <2>1, ReadyParts, Unfolds
  <1>6. CASE At("ask") /\ \E a \in {Top.yes, Top.no} : Go(a)
    <2>1. Top.do = "ask" /\ Top.do \notin Ends /\ Top.do # "log" /\ Top.do \notin Outside \cup {"line", "secret"}
      BY <1>6, AtFacts DEF Ends, Outside
    <2>2. Script(Top.yes) /\ Script(Top.no)
      BY <1>4, <2>1, BranchParts
    <2>3. \E p : Go(p) /\ Ready(p) /\ NoPivot(p)
      BY <1>6, <2>2, ScriptReady, Zenon
    <2> QED
      BY <1>1, <1>2, <1>3, <2>1, <2>3, Unfolds
  <1>7. CASE At("edit") /\ \E a \in {Top.saved, Top.left, <<Top>>} : Go(a)
    <2>1. Top.do = "edit" /\ Top.do \notin Ends /\ Top.do # "log" /\ Top.do \notin Outside \cup {"line", "secret"}
      BY <1>7, AtFacts DEF Ends, Outside
    <2>2. Script(Top.saved) /\ Script(Top.left) /\ Ready(<<Top>>) /\ NoPivot(<<Top>>)
      BY <1>4, <2>1, BranchParts
    <2>3. \E p : Go(p) /\ Ready(p) /\ NoPivot(p)
      <3> DEFINE q == <<Top>>
      <3> HIDE DEF q
      <3>1. Go(Top.saved) \/ Go(Top.left) \/ Go(q)
        BY <1>7, Zenon DEF q
      <3>2. Ready(q) /\ NoPivot(q)
        BY <2>2, Zenon DEF q
      <3> QED
        BY <2>2, <3>1, <3>2, ScriptReady, Zenon
    <2> QED
      BY <1>1, <1>2, <1>3, <2>1, <2>3, Unfolds
  <1> QED
    BY <1>5, <1>6, <1>7, Zenon DEF typeAnswer

LEMMA Emits ==
  ASSUME Inv, emit
  PROVE  Inv'
  <1>1. k # <<>> /\ Top.do = "emit" /\ Top.do \notin Ends /\ Top.do # "log" /\ ~LogsIt(Top)
    <2>1. At("emit")
      BY Zenon DEF emit
    <2> QED
      BY <2>1, AtFacts DEF Ends, LogsIt
  <1>2. mode' = mode /\ panics' = panics /\ held' = held /\ reg' = reg /\ Go(<<>>)
    BY Zenon DEF emit, Same, Rest
  <1>3. IoOK /\ RegOK(reg) /\ reg.out.len \in Nat /\ ShellOK(Me)
    BY <1>1, Running DEF Inv, RegOK
  <1> DEFINE stg == Top.stg
             old == Content(Me, stg.out)
             new == IF stg.app /\ Exists(old) THEN Join(old, reg.out) ELSE reg.out
             got == takeBudget(Me, reg.out)
  <1>4. new.len \in Int /\ new.len >= -1
    <2>1. old.len \in Int /\ old.len >= -1
      BY <1>3, ShellFiles
    <2> HIDE DEF old
    <2>2. CASE stg.app /\ Exists(old)
      <3>1. old.len \in Nat
        BY <2>1, <2>2 DEF Exists
      <3>2. Join(old, reg.out).len \in Nat
        BY <1>3, <3>1, JoinLen, Zenon
      <3>3. new = Join(old, reg.out)
        BY <2>2, Zenon
      <3> QED
        BY <3>2, <3>3
    <2>3. CASE ~(stg.app /\ Exists(old))
      <3>1. new = reg.out
        BY <2>3, Zenon
      <3> QED
        BY <1>3, <3>1
    <2> QED
      BY <2>2, <2>3
  <1>5. Kept(Me, got.me) /\ got.val.len \in Nat
    BY <1>3, BudgetTaken
  <1> DEFINE w == [got.me EXCEPT !.buf = Join(got.me.buf, got.val)]
  <1>6. Kept(Me, w)
    <2>1. ShellOK(got.me) /\ got.me.buf.len \in Nat
      BY <1>5 DEF Kept, ShellOK
    <2>2. Join(got.me.buf, got.val).len \in Nat
      BY <1>5, <2>1, JoinLen, Zenon
    <2> HIDE DEF got
    <2>3. Kept(got.me, w)
      BY <2>1, <2>2, ShellSet
    <2> QED
      BY <1>5, <2>3, Zenon DEF Kept
  <1>7. \/ sh' = sh /\ (io' = io \/ io' = Write)
        \/ io' = io /\ SetMe([Me EXCEPT !.files[stg.out] = new])
        \/ io' = io /\ SetMe(w)
    <2>1. CASE stg.null
      BY <2>1, Zenon DEF emit, Same
    <2>2. CASE ~stg.null /\ stg.out # ""
      BY <2>2, Zenon DEF emit, Same
    <2>3. CASE ~stg.null /\ stg.out = "" /\ Me.cap
      BY <2>3, Zenon DEF emit, Same
    <2>4. CASE ~stg.null /\ stg.out = "" /\ ~Me.cap
      BY <2>4, Zenon DEF emit, Same
    <2> QED
      BY <2>1, <2>2, <2>3, <2>4, Zenon
  <1> HIDE DEF w, new
  <1>8. CASE sh' = sh /\ (io' = io \/ io' = Write)
    <2>1. Talks
      BY <1>3, <1>8, IoSet, Zenon
    <2> QED
      BY <1>1, <1>2, <1>8, <2>1, IoPops
  <1>9. CASE io' = io /\ SetMe([Me EXCEPT !.files[stg.out] = new])
    <2>1. Kept(Me, [Me EXCEPT !.files[stg.out] = new])
      BY <1>3, <1>4, ShellFiles
    <2> QED
      BY <1>1, <1>2, <1>9, <2>1, ShellPops
  <1>10. CASE io' = io /\ SetMe(w)
    BY <1>1, <1>2, <1>6, <1>10, ShellPops
  <1> QED
    BY <1>7, <1>8, <1>9, <1>10

-----------------------------------------------------------------------------
(* Expansion.                                                              *)

LEMMA CalmExpand ==
  ASSUME NEW f, FrameOK(f), f.do = "expand"
  PROVE  /\ Calm(<<f>>) /\ NoPivot(<<f>>) /\ Len(<<f>>) = 1 /\ <<f>>[1] = f
         /\ \A ws : LET p == <<Expand(ws), [do |-> "toWord"], f>>
                    IN Calm(p) /\ NoPivot(p) /\ Len(p) = 3 /\ p[3] = f
  <1>1. Calm(<<f>>) /\ NoPivot(<<f>>) /\ Len(<<f>>) = 1 /\ <<f>>[1] = f
    <2> DEFINE p == <<f>>
    <2>1. p \in Seq({f}) /\ Len(p) = 1 /\ DOMAIN p = 1..1 /\ p[1] = f
      OBVIOUS
    <2> HIDE DEF p
    <2>2. IsStack(p) /\ Told(p) /\ NoPivot(p)
      BY <2>1 DEF IsStack, Told, NoPivot
    <2>3. Calm(p)
      BY <2>1, <2>2 DEF Calm, Frames1, Marks
    <2> QED
      BY <2>1, <2>2, <2>3 DEF p
  <1>2. ASSUME NEW ws
        PROVE  LET p == <<Expand(ws), [do |-> "toWord"], f>>
               IN Calm(p) /\ NoPivot(p) /\ Len(p) = 3 /\ p[3] = f
    <2> DEFINE e == Expand(ws)
               g == [do |-> "toWord"]
               p == <<e, g, f>>
    <2>1. FrameOK(e) /\ e.do = "expand" /\ FrameOK(g) /\ g.do = "toWord"
      BY ExpandFrame, ValsFacts DEF Expand, FrameOK, Control
    <2> HIDE DEF e, g
    <2>2. p \in Seq({e, g, f}) /\ Len(p) = 3 /\ DOMAIN p = 1..3 /\ p[1] = e /\ p[2] = g /\ p[3] = f
      OBVIOUS
    <2> HIDE DEF p
    <2>3. \A i \in DOMAIN p : i = 1 \/ i = 2 \/ i = 3
      BY <2>2
    <2>4. IsStack(p) /\ Told(p) /\ NoPivot(p)
      BY <2>1, <2>2, <2>3 DEF IsStack, Told, NoPivot
    <2>5. \A i \in DOMAIN p : FrameOK(p[i]) /\ p[i].do \in {"expand", "toWord"}
      BY <2>1, <2>2, <2>3
    <2>6. \A i \in DOMAIN p : i < Len(p) => Fits(p[i], p[i + 1])
      BY <2>1, <2>2, <2>3 DEF Fits
    <2>7. Calm(p)
      BY <2>4, <2>5, <2>6 DEF Calm, Frames1, Marks
    <2> QED
      BY <2>2, <2>4, <2>7 DEF p, e, g
  <1> QED
    BY <1>1, <1>2

\* The frame of an expansion with one word less, and with one value more.
LEMMA ExpandNext ==
  \A f : f = [do |-> "expand", words |-> f.words, acc |-> f.acc] /\ Vals(f.acc) =>
    /\ \A v : v.len \in Nat =>
         /\ FrameOK([f EXCEPT !.words = Tail(f.words), !.acc = Append(f.acc, v)])
         /\ [f EXCEPT !.words = Tail(f.words), !.acc = Append(f.acc, v)].do = "expand"
         /\ FrameOK([f EXCEPT !.acc = Append(f.acc, v)])
         /\ [f EXCEPT !.acc = Append(f.acc, v)].do = "expand"
    /\ FrameOK([f EXCEPT !.words = Tail(f.words)])
    /\ [f EXCEPT !.words = Tail(f.words)].do = "expand"
  <1> SUFFICES ASSUME NEW f, f = [do |-> "expand", words |-> f.words, acc |-> f.acc], Vals(f.acc)
      PROVE
        /\ \A v : v.len \in Nat =>
             /\ FrameOK([f EXCEPT !.words = Tail(f.words), !.acc = Append(f.acc, v)])
             /\ [f EXCEPT !.words = Tail(f.words), !.acc = Append(f.acc, v)].do = "expand"
             /\ FrameOK([f EXCEPT !.acc = Append(f.acc, v)])
             /\ [f EXCEPT !.acc = Append(f.acc, v)].do = "expand"
        /\ FrameOK([f EXCEPT !.words = Tail(f.words)])
        /\ [f EXCEPT !.words = Tail(f.words)].do = "expand"
    BY Zenon
  <1>1. \A q : [f EXCEPT !.words = q] = [do |-> "expand", words |-> q, acc |-> f.acc]
    OBVIOUS
  <1>2. \A a : [f EXCEPT !.acc = a] = [do |-> "expand", words |-> f.words, acc |-> a]
    OBVIOUS
  <1>3. \A q, a : [f EXCEPT !.words = q, !.acc = a] = [do |-> "expand", words |-> q, acc |-> a]
    <2> SUFFICES ASSUME NEW q, NEW a
                 PROVE [f EXCEPT !.words = q, !.acc = a] = [do |-> "expand", words |-> q, acc |-> a]
      BY Zenon
    <2> DEFINE x == [f EXCEPT !.words = q]
    <2>1. x = [do |-> "expand", words |-> q, acc |-> f.acc]
      OBVIOUS
    <2> HIDE DEF x
    <2>2. [x EXCEPT !.acc = a] = [do |-> "expand", words |-> q, acc |-> a]
      BY <2>1
    <2> QED
      BY <2>2 DEF x
  <1>4. \A q, a : Vals(a) => FrameOK([do |-> "expand", words |-> q, acc |-> a])
                             /\ [do |-> "expand", words |-> q, acc |-> a].do = "expand"
    BY ExpandFrame, Zenon
  <1>5. \A v : v.len \in Nat => Vals(Append(f.acc, v))
    BY ValsFacts, Zenon
  <1>6. ASSUME NEW v, v.len \in Nat
        PROVE  /\ FrameOK([f EXCEPT !.words = Tail(f.words), !.acc = Append(f.acc, v)])
               /\ [f EXCEPT !.words = Tail(f.words), !.acc = Append(f.acc, v)].do = "expand"
               /\ FrameOK([f EXCEPT !.acc = Append(f.acc, v)])
               /\ [f EXCEPT !.acc = Append(f.acc, v)].do = "expand"
    <2> DEFINE a == Append(f.acc, v)
    <2>1. Vals(a)
      BY <1>5, <1>6
    <2> HIDE DEF a
    <2>2. /\ FrameOK([f EXCEPT !.words = Tail(f.words), !.acc = a])
          /\ [f EXCEPT !.words = Tail(f.words), !.acc = a].do = "expand"
      <3>1. [f EXCEPT !.words = Tail(f.words), !.acc = a] = [do |-> "expand", words |-> Tail(f.words), acc |-> a]
        BY <1>3, Zenon
      <3>2. FrameOK([do |-> "expand", words |-> Tail(f.words), acc |-> a])
            /\ [do |-> "expand", words |-> Tail(f.words), acc |-> a].do = "expand"
        BY <1>4, <2>1, Zenon
      <3> QED
        BY <3>1, <3>2, Zenon
    <2>3. FrameOK([f EXCEPT !.acc = a]) /\ [f EXCEPT !.acc = a].do = "expand"
      BY <1>2, <1>4, <2>1
    <2> QED
      BY <2>2, <2>3 DEF a
  <1>7. FrameOK([f EXCEPT !.words = Tail(f.words)]) /\ [f EXCEPT !.words = Tail(f.words)].do = "expand"
    BY <1>1, <1>4
  <1> QED
    BY <1>6, <1>7, Zenon

\* A step of an expansion that runs no line.
LEMMA Expands ==
  ASSUME Inv, At("expand"), NEW p, Calm(p), NoPivot(p), p # <<>>, p[Len(p)].do = "expand", Go(p),
         NEW me, SetMe(me), Kept(Me, me), reg' = reg, io' = io, mode' = mode, panics' = panics, held' = held
  PROVE  Inv'
  <1>1. /\ k # <<>> /\ Top.do = "expand" /\ Top.do \notin Ends /\ ~LogsIt(Top)
        /\ Top.do \notin Outside \cup {"line", "secret"} /\ p[Len(p)].do # "toWord"
    BY AtFacts DEF Ends, LogsIt, Outside
  <1>2. RegOK(reg') /\ Talks
    BY IoSet DEF Inv
  <1> QED
    BY <1>1, <1>2, OneStep

LEMMA OneFrame ==
  ASSUME NEW f, FrameOK(f), f.do = "expand"
  PROVE  Calm(<<f>>) /\ NoPivot(<<f>>) /\ <<f>> # <<>> /\ <<f>>[Len(<<f>>)].do = "expand"
  <1>1. Calm(<<f>>) /\ NoPivot(<<f>>) /\ Len(<<f>>) = 1 /\ <<f>>[1] = f
    BY CalmExpand
  <1> QED
    BY <1>1

\* A substitution that is run.
SubRuns == At("expand") /\ Top.words # <<>> /\ Head(Top.words).kind = "sub"
           /\ ~(Me.subs + 1 > MaxSubs \/ Me.budget <= 0 \/ Me.depth >= MaxDepth)

LEMMA ExpandPlain ==
  ASSUME Inv, expand, ~SubRuns
  PROVE  Inv'
  <1>1. /\ At("expand") /\ Top.words # <<>> /\ k # <<>>
        /\ Top = [do |-> "expand", words |-> Top.words, acc |-> Top.acc] /\ Vals(Top.acc)
    <2>1. At("expand") /\ Top.words # <<>>
      BY Zenon DEF expand
    <2>2. k # <<>> /\ Top.do = "expand"
      BY <2>1, AtFacts
    <2> QED
      BY <2>1, <2>2, TopFacts
  <1>2. mode' = mode /\ panics' = panics /\ held' = held /\ reg' = reg /\ io' = io
    <2>1. Same(<<Rest, reg, io>>)
      BY Zenon DEF expand
    <2> QED
      BY <2>1 DEF Same, Rest
  <1>3. ShellOK(Me)
    BY <1>1, Running
  <1> DEFINE w == Head(Top.words)
             got == takeBudget(Me, getenv(Me, w.val))
             more == [Top EXCEPT !.words = Tail(@)]
             sub == [Me EXCEPT !.subs = @ + 1]
  <1>4. Kept(Me, got.me) /\ got.val.len \in Nat
    <2>1. getenv(Me, w.val).len \in Nat
      BY <1>3, ShellFiles
    <2> HIDE DEF w
    <2> QED
      BY <1>3, <2>1, BudgetTaken
  <1>5. \A v : v.len \in Nat => FrameOK(Took(v)) /\ Took(v).do = "expand"
    BY <1>1, ExpandNext, Zenon DEF Took
  <1>6. FrameOK(more) /\ more.do = "expand"
    BY <1>1, ExpandNext, Zenon
  <1>7. Kept(Me, sub)
    BY <1>3, ShellSet, Zenon
  <1>8. Empty.len \in Nat /\ \A t : Word(t).len \in Nat
    BY TextFacts
  <1> HIDE DEF more, got
  <1>9. ASSUME NEW me, Kept(Me, me), SetMe(me), NEW v, v.len \in Nat, Go(<<Took(v)>>)
        PROVE  Inv'
    <2>1. FrameOK(Took(v)) /\ Took(v).do = "expand"
      BY <1>5, <1>9
    <2>2. /\ Calm(<<Took(v)>>) /\ NoPivot(<<Took(v)>>) /\ <<Took(v)>> # <<>>
          /\ <<Took(v)>>[Len(<<Took(v)>>)].do = "expand"
      BY <2>1, OneFrame
    <2> QED
      BY <1>1, <1>2, <1>9, <2>2, Expands
  <1>10. CASE w.kind = "ref"
    <2>1. SetMe(got.me) /\ Go(<<Took(got.val)>>)
      BY <1>10, Zenon DEF expand, got
    <2> QED
      BY <1>4, <1>9, <2>1
  <1>11. CASE w.kind = "sub"
    <2>1. cmdSub(w)
      BY <1>11, Zenon DEF expand
    <2>2. Me.subs + 1 > MaxSubs \/ Me.budget <= 0 \/ Me.depth >= MaxDepth
      BY <1>1, <1>11, Zenon DEF SubRuns
    <2>3. sub.subs = Me.subs + 1 /\ sub.budget = Me.budget /\ sub.depth = Me.depth
      BY <1>3 DEF ShellOK
    <2>4. sub.subs > MaxSubs \/ sub.budget <= 0 \/ sub.depth >= MaxDepth
      BY <2>2, <2>3, Zenon
    <2>5. SetMe(sub) /\ Go(<<Took(Empty)>>)
      BY <2>1, <2>4, Zenon DEF cmdSub
    <2> QED
      BY <1>7, <1>8, <1>9, <2>5
  <1>12. CASE w.kind = "assign"
    <2> DEFINE p == <<Expand(w.to), [do |-> "toWord"], more>>
    <2>1. sh' = sh /\ Go(p)
      BY <1>12, Zenon DEF expand, more, Same
    <2>2. Calm(p) /\ NoPivot(p) /\ Len(p) = 3 /\ p[3] = more
      BY <1>6, CalmExpand
    <2> HIDE DEF p
    <2>3. p # <<>> /\ p[Len(p)].do = "expand"
      BY <1>6, <2>2
    <2>4. SetMe(Me) /\ Kept(Me, Me)
      BY <1>1, <2>1, SameShell
    <2> QED
      BY <1>1, <1>2, <2>1, <2>2, <2>3, <2>4, Expands
  <1>13. CASE w.kind # "ref" /\ w.kind # "sub" /\ w.kind # "assign"
    <2>1. sh' = sh /\ Go(<<Took(Word(w.val))>>)
      BY <1>13, Zenon DEF expand, Same
    <2>2. SetMe(Me) /\ Kept(Me, Me)
      BY <1>1, <2>1, SameShell
    <2> QED
      BY <1>8, <1>9, <2>1, <2>2
  <1> QED
    BY <1>10, <1>11, <1>12, <1>13, Zenon

LEMMA EmptyCat ==
  ASSUME NEW s, IsStack(s)
  PROVE  <<>> \o s = s
  <1>1. PICK S : s \in Seq(S)
    BY DEF IsStack
  <1> QED
    BY <1>1

\* What a finished expansion is followed by.
LEMMA AfterExpand ==
  ASSUME Inv, At("expand")
  PROVE  /\ Len(k) > 2 /\ k[1].do = "expand" /\ k[2].do \in {"toArgs", "toEnv", "toWord"}
         /\ 1 \in DOMAIN k /\ 2 \in DOMAIN k /\ 3 \in DOMAIN k
         /\ \A i \in DOMAIN k : i <= 2 => k[i].do \notin Ends
         /\ k[2].do = "toWord" =>
              /\ k[3] = [do |-> "expand", words |-> k[3].words, acc |-> k[3].acc]
              /\ Vals(k[3].acc) /\ k[3].do = "expand"
              /\ \A i \in DOMAIN k : i <= 3 => k[i].do \notin Ends
  <1>1. /\ k # <<>> /\ Top.do = "expand"
    BY AtFacts
  <1>2. /\ Len(k) \in Nat \ {0} /\ DOMAIN k = 1..Len(k) /\ Top = k[1] /\ k[Len(k)].do = "endShell"
    BY <1>1, Running
  <1>3. /\ \A i \in DOMAIN k : FrameOK(k[i])
        /\ \A i \in DOMAIN k : i < Len(k) => Fits(k[i], k[i + 1])
    BY DEF Inv, Shape
  <1>4. Len(k) # 1 /\ 1 \in DOMAIN k
    BY <1>1, <1>2
  <1>5. 2 \in DOMAIN k /\ Fits(k[1], k[2])
    <2>1. 1 < Len(k) /\ 1 + 1 = 2 /\ 2 \in DOMAIN k
      BY <1>2, <1>4
    <2>2. Fits(k[1], k[1 + 1])
      BY <1>3, <1>4, <2>1, Zenon
    <2> QED
      BY <2>1, <2>2
  <1>6. k[2].do \in {"toArgs", "toEnv", "toWord"}
    BY <1>1, <1>2, <1>5 DEF Fits
  <1>7. Len(k) # 2
    BY <1>2, <1>6
  <1>8. Len(k) > 2 /\ 3 \in DOMAIN k /\ Fits(k[2], k[3])
    BY <1>2, <1>3, <1>4, <1>5, <1>7
  <1>9. \A i \in DOMAIN k : (i <= 2 => i = 1 \/ i = 2) /\ (i <= 3 => i = 1 \/ i = 2 \/ i = 3)
    BY <1>2
  <1>10. \A i \in DOMAIN k : i <= 2 => k[i].do \notin Ends
    BY <1>1, <1>2, <1>6, <1>9 DEF Ends
  <1>11. ASSUME k[2].do = "toWord"
         PROVE  /\ k[3] = [do |-> "expand", words |-> k[3].words, acc |-> k[3].acc]
                /\ Vals(k[3].acc) /\ k[3].do = "expand"
                /\ \A i \in DOMAIN k : i <= 3 => k[i].do \notin Ends
    <2>1. k[3].do = "expand"
      BY <1>8, <1>11 DEF Fits
    <2> DEFINE f == k[3]
    <2>2. FrameOK(f) /\ f.do = "expand"
      BY <1>3, <1>8, <2>1
    <2> HIDE DEF f
    <2>3. ~Flat(f) /\ ~Branch1(f)
      BY <2>2, BranchKinds DEF Flat, Effects
    <2>4. f = [do |-> "expand", words |-> f.words, acc |-> f.acc] /\ Vals(f.acc)
      BY <2>2, <2>3 DEF FrameOK, Control
    <2>5. \A i \in DOMAIN k : i <= 3 => k[i].do \notin Ends
      BY <1>1, <1>2, <1>6, <1>9, <2>1 DEF Ends
    <2> QED
      BY <2>1, <2>4, <2>5 DEF f
  <1> QED
    BY <1>1, <1>2, <1>4, <1>5, <1>6, <1>8, <1>10, <1>11

LEMMA Expanded1 ==
  ASSUME Inv, expanded
  PROVE  Inv'
  <1>1. At("expand") /\ k # <<>> /\ Top.do = "expand"
    <2>1. At("expand")
      BY Zenon DEF expanded
    <2> QED
      BY <2>1, AtFacts
  <1>2. mode' = mode /\ panics' = panics /\ held' = held /\ io' = io
    <2>1. Same(<<Rest, io, due>>)
      BY Zenon DEF expanded
    <2> QED
      BY <2>1 DEF Same, Rest
  <1>3. /\ Len(k) \in Nat \ {0} /\ DOMAIN k = 1..Len(k) /\ Top = k[1] /\ IsStack(k) /\ ShellOK(Me)
    BY <1>1, Running
  <1>4. /\ Len(k) > 2 /\ k[1].do = "expand" /\ k[2].do \in {"toArgs", "toEnv", "toWord"}
        /\ 3 \in DOMAIN k /\ \A i \in DOMAIN k : i <= 2 => k[i].do \notin Ends
    BY <1>1, AfterExpand
  <1>5. Vals(Top.acc) /\ Joined(Top.acc).len \in Nat
    BY <1>1, TopFacts, JoinedLen
  <1>6. RegOK(reg) /\ Talks
    BY <1>2, IoSet DEF Inv
  <1>7. Calm(<<>>)
    BY ReadyParts DEF Ready
  <1>8. \A n \in Nat : n <= Len(k) => SubSeq(k, n + 1, Len(k)) = <<>> \o SubSeq(k, n + 1, Len(k))
    BY <1>3, RestOf, EmptyCat
  <1>9. ASSUME k' = SubSeq(k, 3, Len(k)), NEW me, SetMe(me), Kept(Me, me), RegOK(reg')
        PROVE  Inv'
    <2>1. 2 \in Nat /\ 2 <= Len(k) /\ 2 + 1 = 3 /\ 2 \in Nat \ {0}
      BY <1>3, <1>4
    <2>2. SubSeq(k, 2 + 1, Len(k)) = <<>> \o SubSeq(k, 2 + 1, Len(k))
      BY <1>8, <2>1, Zenon
    <2>3. k' = <<>> \o SubSeq(k, 2 + 1, Len(k))
      BY <1>9, <2>1, <2>2
    <2>4. sh' = [sh EXCEPT ![Len(sh)] = me] /\ ShellOK(me) /\ me.hop = Me.hop /\ me.depth = Me.depth /\ me.cap = Me.cap
      BY <1>9 DEF SetMe, Kept
    <2>5. ~(k[1].do \in {"say", "secret"}) /\ ~LogsIt(k[1])
      BY <1>4 DEF LogsIt
    <2>6. ~\E i \in DOMAIN <<>> : <<>>[i].do = "pivot"
      OBVIOUS
    <2>7. Works(2, <<>>, me)
      BY <1>2, <1>4, <1>6, <1>7, <1>9, <2>1, <2>3, <2>4, <2>5, <2>6, Zenon DEF Works
    <2> QED
      BY <1>1, <2>7, PlainStep
  <1>10. CASE k[2].do = "toArgs"
    <2>1. /\ reg' = [reg EXCEPT !.args = Top.acc]
          /\ k' = SubSeq(k, 3, Len(k)) /\ sh' = sh
      BY <1>10, Zenon DEF expanded, Same
    <2>2. RegOK(reg')
      BY <1>5, <1>6, <2>1, RegSet, Zenon
    <2>3. SetMe(Me) /\ Kept(Me, Me)
      BY <1>1, <2>1, SameShell
    <2> QED
      BY <1>9, <2>1, <2>2, <2>3
  <1>11. CASE k[2].do = "toEnv"
    <2> DEFINE w == [Me EXCEPT !.env[k[2].name] = Joined(Top.acc)]
    <2>1. SetMe(w) /\ k' = SubSeq(k, 3, Len(k)) /\ reg' = reg
      BY <1>11, Zenon DEF expanded, Same
    <2>2. Kept(Me, w)
      BY <1>3, <1>5, ShellFiles
    <2> HIDE DEF w
    <2> QED
      BY <1>6, <1>9, <2>1, <2>2
  <1>12. CASE k[2].do = "toWord"
    <2> DEFINE f == [k[3] EXCEPT !.acc = Append(k[3].acc, Joined(Top.acc))]
               p == <<f>>
    <2>1. k' = p \o SubSeq(k, 4, Len(k)) /\ sh' = sh /\ reg' = reg
      BY <1>12, Zenon DEF expanded, Same
    <2>2. /\ k[3] = [do |-> "expand", words |-> k[3].words, acc |-> k[3].acc]
          /\ Vals(k[3].acc) /\ k[3].do = "expand"
          /\ \A i \in DOMAIN k : i <= 3 => k[i].do \notin Ends
      BY <1>1, <1>12, AfterExpand
    <2>3. FrameOK(f) /\ f.do = "expand"
      <3> DEFINE g == k[3]
                 v == Joined(Top.acc)
      <3>1. g = [do |-> "expand", words |-> g.words, acc |-> g.acc] /\ Vals(g.acc) /\ v.len \in Nat
        BY <1>5, <2>2
      <3> HIDE DEF g, v
      <3>2. FrameOK([g EXCEPT !.acc = Append(g.acc, v)]) /\ [g EXCEPT !.acc = Append(g.acc, v)].do = "expand"
        BY <3>1, ExpandNext, Zenon
      <3> QED
        BY <3>2, Zenon DEF g, v
    <2> HIDE DEF f
    <2>4. Calm(p) /\ NoPivot(p) /\ p # <<>> /\ p[Len(p)].do = "expand"
      BY <2>3, OneFrame
    <2> HIDE DEF p
    <2>5. 3 \in Nat \ {0} /\ 3 <= Len(k) /\ 3 + 1 = 4
      BY <1>3, <1>4
    <2>6. k' = p \o SubSeq(k, 3 + 1, Len(k))
      BY <2>1, <2>5
    <2>7. sh' = [sh EXCEPT ![Len(sh)] = Me] /\ ShellOK(Me)
      BY <1>1, <1>3, <2>1, SameShell DEF SetMe
    <2>8. ~(k[1].do \in {"say", "secret"}) /\ ~LogsIt(k[1])
      BY <1>4 DEF LogsIt
    <2>9. ~\E i \in DOMAIN p : p[i].do = "pivot"
      BY <2>4 DEF NoPivot
    <2>10. k[1].do \notin Outside \cup {"line"} /\ k[3].do # "line" /\ p[Len(p)].do # "toWord"
      BY <1>4, <2>2, <2>4 DEF Outside
    <2>11. Works(3, p, Me)
      BY <1>2, <1>6, <2>1, <2>2, <2>4, <2>5, <2>6, <2>7, <2>8, <2>9, <2>10 DEF Works
    <2> QED
      BY <1>1, <2>11, PlainStep
  <1> QED
    BY <1>4, <1>10, <1>11, <1>12

\* A line that is refused.
LEMMA LineRefused ==
  ASSUME Inv, runLine, Me.depth >= MaxDepth
  PROVE  Inv'
  <1>1. k # <<>> /\ Top.do = "line" /\ Top.do \notin Ends /\ ~LogsIt(Top)
    <2>1. At("line")
      BY Zenon DEF runLine
    <2> QED
      BY <2>1, AtFacts DEF Ends, LogsIt
  <1>2. ShellOK(Me)
    BY <1>1, Running
  <1>3. Me.depth # 0
    BY <1>2, LimitsAssumption DEF ShellOK
  <1>4. Refill(Me) = Me
    BY <1>3, Zenon DEF Refill
  <1>5. SetMe([Me EXCEPT !.last = 139]) /\ io' = Write /\ Go(<<>>)
    BY <1>4 DEF runLine
  <1>6. mode' = mode /\ panics' = panics /\ held' = held /\ reg' = reg
    BY DEF runLine, Same, Rest
  <1>7. Kept(Me, [Me EXCEPT !.last = 139])
    <2>1. 139 \in 0..255
      OBVIOUS
    <2> QED
      BY <1>2, <2>1, ShellSet
  <1>8. RegOK(reg') /\ Talks
    BY <1>5, <1>6, IoSet DEF Inv
  <1> QED
    BY <1>1, <1>5, <1>6, <1>7, <1>8, Pops

-----------------------------------------------------------------------------
(* The steps that begin or end a line, a substitution or a shell.          *)

LEMMA NotOwing ==
  ASSUME Inv, k # <<>>, Top.do \notin {"say", "secret", "log"}
  PROVE  ~(panics = 0 /\ io.owed)
  <1> SUFFICES ASSUME panics = 0, io.owed PROVE FALSE
    OBVIOUS
  <1>1. Top = k[1] /\ DOMAIN k = 1..Len(k) /\ Len(k) \in Nat
    BY Running
  <1>2. PICK j \in DOMAIN k : LogsIt(k[j]) /\ \A h \in 1..(j - 1) : k[h].do \in {"say", "secret"}
    BY DEF Inv, Owes
  <1>3. j # 1
    BY <1>1, <1>2 DEF LogsIt
  <1>4. 1 \in 1..(j - 1)
    BY <1>1, <1>3
  <1> QED
    BY <1>1, <1>2, <1>4

LEMMA Capturing ==
  ASSUME Inv, k # <<>>, \E i \in DOMAIN k : k[i].do # "endShell", mode = "bridge"
  PROVE  io.cap /\ ~io.wire /\ ~io.slept /\ ~io.waited
  BY DEF Inv, Bridged

\* The session is as it was, and owes nothing.
LEMMA Unspoken ==
  ASSUME Inv, k # <<>>, Top.do \notin {"say", "secret", "log", "endShell"},
         io' = io, mode' = mode, panics' = panics
  PROVE  IoOK' /\ Bridged' /\ Owes'
  <1>1. Top = k[1] /\ 1 \in DOMAIN k
    BY Running
  <1>2. IoOK'
    BY DEF Inv, IoOK
  <1>3. mode = "bridge" => io.cap /\ ~io.wire /\ ~io.slept /\ ~io.waited
    BY <1>1, Capturing
  <1>4. Bridged'
    BY <1>3 DEF Bridged
  <1>5. Owes'
    BY NotOwing DEF Owes
  <1> QED
    BY <1>2, <1>4, <1>5

LEMMA OnStep ==
  ASSUME Inv, k # <<>>, NEW p, IsStack(p), Go(p)
  PROVE  Put(k, 1, p, k')
  <1>1. IsStack(k) /\ Len(k) \in Nat \ {0}
    BY Running
  <1>2. Tail(k) = SubSeq(k, 1 + 1, Len(k))
    <2>1. PICK S : k \in Seq(S)
      BY <1>1 DEF IsStack
    <2> QED
      BY <1>1, <2>1
  <1>3. 1 \in Nat /\ 1 <= Len(k)
    BY <1>1
  <1>4. Put(k, 1, p, p \o SubSeq(k, 1 + 1, Len(k)))
    BY <1>1, <1>3, SplicedPut
  <1> QED
    BY <1>2, <1>4 DEF Go

LEMMA OneMore ==
  ASSUME NEW B, IsFiniteSet(B), NEW e, e \notin B
  PROVE  Cardinality(B \cup {e}) = Cardinality(B) + 1
  BY FS_AddElement

LEMMA LineBegun ==
  ASSUME NEW s, NEW n, NEW p, NEW t, Put(s, n, p, t), NEW x, NEW e \in DOMAIN p,
         \A i \in DOMAIN s : i <= n => s[i].do # "endLine",
         \A i \in DOMAIN p : p[i].do = "endLine" <=> i = e, OwnerIn(t, e) = x
  PROVE  Cardinality(Lines(t, x)) = Cardinality(Lines(s, x)) + 1
  <1> DEFINE d == Len(p) - n
  <1>1. Moved(s, n, t, d) /\ n + d = Len(p) /\ n \in Nat /\ Len(p) \in Nat /\ e <= Len(p) /\ e \in Int
    <2>1. n \in Nat /\ Len(p) \in Nat /\ DOMAIN p = 1..Len(p)
      BY PutFacts
    <2> QED
      BY <2>1 DEF Put
  <1> HIDE DEF d
  <1>2. /\ Cardinality(Behind(t, Len(p), x)) = Cardinality(Behind(s, n, x))
        /\ IsFiniteSet(Behind(t, Len(p), x))
    BY <1>1, BehindShift
  <1>3. Behind(s, n, x) = Lines(s, x)
    <2>1. n \in Nat /\ \A i \in DOMAIN s : i \in Int
      BY PutFacts
    <2>2. \A i \in Lines(s, x) : i > n
      BY <2>1 DEF Lines
    <2> QED
      BY <2>2, Zenon DEF Behind
  <1>4. Lines(t, x) = Behind(t, Len(p), x) \cup {e} /\ e \notin Behind(t, Len(p), x)
    <2>1. \A j \in DOMAIN t : j > Len(p) \/ (j \in DOMAIN p /\ t[j] = p[j])
      BY DEF Put
    <2>2. e \in DOMAIN t /\ t[e].do = "endLine" /\ ~(e > Len(p))
      BY <1>1 DEF Put
    <2>3. \A i \in Lines(t, x) : i > Len(p) \/ i = e
      BY <2>1 DEF Lines
    <2>4. e \in Lines(t, x)
      BY <2>2 DEF Lines
    <2> QED
      BY <2>2, <2>3, <2>4 DEF Behind
  <1>5. Cardinality(Behind(t, Len(p), x) \cup {e}) = Cardinality(Behind(t, Len(p), x)) + 1
    BY <1>2, <1>4, OneMore
  <1> QED
    BY <1>2, <1>3, <1>4, <1>5, Zenon

LEMMA LineEnded ==
  ASSUME NEW s, NEW t, Put(s, 1, <<>>, t), NEW x, s # <<>>, s[1].do = "endLine", OwnerIn(s, 1) = x
  PROVE  Cardinality(Lines(s, x)) = Cardinality(Lines(t, x)) + 1 /\ Cardinality(Lines(t, x)) \in Nat
  <1> DEFINE d == Len(<<>>) - 1
  <1>1. Moved(s, 1, t, d) /\ 1 + d = 0
    BY DEF Put
  <1> HIDE DEF d
  <1>2. /\ Cardinality(Behind(t, 0, x)) = Cardinality(Behind(s, 1, x))
        /\ IsFiniteSet(Behind(s, 1, x)) /\ Cardinality(Behind(s, 1, x)) \in Nat
    BY <1>1, BehindShift
  <1>3. Behind(t, 0, x) = Lines(t, x)
    <2>1. \A i \in DOMAIN t : i > 0
      <3>1. DOMAIN t = 1..Len(t)
        BY PutFacts
      <3> QED
        BY <3>1
    <2> QED
      BY <2>1 DEF Behind, Lines
  <1>4. Lines(s, x) = Behind(s, 1, x) \cup {1} /\ 1 \notin Behind(s, 1, x)
    <2>1. DOMAIN s = 1..Len(s) /\ 1 \in DOMAIN s
      BY PutFacts, StackFacts
    <2>2. 1 \in Lines(s, x) /\ \A i \in Lines(s, x) : i > 1 \/ i = 1
      BY <2>1 DEF Lines
    <2> QED
      BY <2>2 DEF Behind
  <1>5. Cardinality(Behind(s, 1, x) \cup {1}) = Cardinality(Behind(s, 1, x)) + 1
    BY <1>2, <1>4, OneMore
  <1>6. Cardinality(Lines(s, x)) = Cardinality(Lines(t, x)) + 1
    BY <1>2, <1>3, <1>4, <1>5, Zenon
  <1>7. Cardinality(Lines(t, x)) \in Nat
    BY <1>2, <1>3, Zenon
  <1> QED
    BY <1>6, <1>7

\* A line that is run: outside another one nothing was expanded for it yet.
LEMMA EntersOK ==
  ASSUME Inv, At("line"), ~(Me.depth >= MaxDepth)
  PROVE  LET me == [Refill(Me) EXCEPT !.depth = @ + 1]
         IN ShellOK(me) /\ me.hop = Me.hop /\ me.cap = Me.cap /\ me.depth = Me.depth + 1
  <1>1. k # <<>> /\ Top.do = "line"
    BY AtFacts
  <1>2. /\ ShellOK(Me) /\ Top = k[1] /\ 1 \in DOMAIN k /\ OwnerIn(k, 1) = Len(sh) /\ Len(sh) \in DOMAIN sh
        /\ IsStack(k)
    BY <1>1, Running
  <1>3. Me.depth \in 0..MaxDepth /\ MaxDepth \in Nat /\ MaxExpand \in Nat /\ MaxSubs \in Nat
    BY <1>2, LimitsAssumption DEF ShellOK
  <1>4. Me.depth + 1 \in 0..MaxDepth
    BY <1>3
  <1>5. \A w : ShellOK(w) /\ w.depth = Me.depth =>
               /\ ShellOK([w EXCEPT !.depth = @ + 1]) /\ [w EXCEPT !.depth = @ + 1].depth = Me.depth + 1
               /\ [w EXCEPT !.depth = @ + 1].hop = w.hop /\ [w EXCEPT !.depth = @ + 1].cap = w.cap
    BY <1>4 DEF ShellOK
  <1>6. CASE Me.depth # 0
    <2>1. Refill(Me) = Me
      BY <1>6, Zenon DEF Refill
    <2> QED
      BY <1>2, <1>5, <2>1
  <1>7. CASE Me.depth = 0
    <2>1. Cardinality(Lines(k, Len(sh))) = 0
      BY <1>2, <1>7 DEF Inv, Shells, Me
    <2>2. Lines(k, Len(sh)) = {}
      <3>1. IsFiniteSet(Lines(k, Len(sh)))
        BY <1>2, FramesFinite DEF Lines
      <3> QED
        BY <2>1, <3>1, FS_EmptySet
    <2>3. ~InLine(k, 1)
      BY <1>2, <2>2 DEF InLine, Lines
    <2>4. Fresher(k, sh, 1)
      BY <1>1, <1>2, <2>3 DEF Inv, Shells, Outside
    <2>5. Me.taken = 0 /\ Me.ran = 0
      BY <2>4 DEF Fresher, Me
    <2> DEFINE x == [Me EXCEPT !.budget = MaxExpand]
               w == [x EXCEPT !.subs = 0]
    <2>6. Refill(Me) = w
      BY <1>7 DEF Refill
    <2>7. x = [last |-> Me.last, quit |-> Me.quit, depth |-> Me.depth, budget |-> MaxExpand,
               subs |-> Me.subs, cap |-> Me.cap, buf |-> Me.buf, hop |-> Me.hop,
               cron |-> Me.cron, env |-> Me.env, files |-> Me.files,
               taken |-> Me.taken, ran |-> Me.ran]
      BY <1>2 DEF ShellOK
    <2> HIDE DEF x
    <2>8. w = [last |-> Me.last, quit |-> Me.quit, depth |-> Me.depth, budget |-> MaxExpand,
               subs |-> 0, cap |-> Me.cap, buf |-> Me.buf, hop |-> Me.hop,
               cron |-> Me.cron, env |-> Me.env, files |-> Me.files,
               taken |-> Me.taken, ran |-> Me.ran]
      BY <2>7
    <2> HIDE DEF w
    <2>9. ShellOK(w) /\ w.depth = Me.depth /\ w.hop = Me.hop /\ w.cap = Me.cap
      BY <1>2, <1>3, <2>5, <2>8 DEF ShellOK
    <2> QED
      BY <1>5, <2>6, <2>9
  <1> QED
    BY <1>6, <1>7

\* A step that begins and ends no shell, on which the session has no part.
LEMMA ShellStep ==
  ASSUME Inv, k # <<>>, Top.do \notin {"say", "secret", "log", "endShell"},
         NEW n, NEW p, Put(k, n, p, k'), n # 0, Frames1(p),
         p # <<>> => /\ n < Len(k) /\ Fits(p[Len(p)], k[n + 1])
                     /\ Len(p) > 1 /\ k[n + 1].do = "endCapture" => p[Len(p)].do # "line",
         \A i \in DOMAIN k : i <= n => k[i].do # "endShell",
         \A i \in DOMAIN p : p[i].do # "endShell",
         NEW me, ShellOK(me), me.hop = Me.hop, SetMe(me),
         me.depth = Cardinality(Lines(k', Len(sh))), me.cap => Diverted(k', Len(sh), 0),
         Belong(p, k', sh'), RegOK(reg'),
         io' = io, mode' = mode, panics' = panics, held' = held
  PROVE  Inv'
  <1>1. /\ IsStack(sh) /\ sh # <<>> /\ OwnerIn(k, 1) = Len(sh)
    BY Running
  <1>2. /\ Shape(k) /\ Shells(k, sh) /\ mode \in {"terminal", "exec", "bridge"} /\ panics \in Nat
        /\ held = Len(sh)
    BY DEF Inv
  <1>3. /\ n \in Nat /\ Len(p) \in Nat /\ DOMAIN p = 1..Len(p) /\ DOMAIN k = 1..Len(k)
        /\ 0 \in Nat /\ 0 <= n /\ 0 \in 0..Len(p) /\ 1 \in 1..(Len(p) + 1)
        /\ \A i \in DOMAIN k : i <= n => i \in 1..(n + 1)
        /\ \A i \in DOMAIN p : i \in 1..(Len(p) + 1)
    <2>1. n \in Nat /\ Len(p) \in Nat /\ DOMAIN p = 1..Len(p) /\ DOMAIN k = 1..Len(k)
      BY PutFacts
    <2> QED
      BY <2>1
  <1>4. /\ \A i \in 1..(n + 1) : OwnerIn(k, i) = OwnerIn(k, 1)
        /\ \A i \in 1..(Len(p) + 1) : OwnerIn(k', i) = OwnerIn(k, 1)
    BY TopOwner
  <1>5. /\ \A i \in DOMAIN k : i <= n => OwnerIn(k, i) = Len(sh)
        /\ \A i \in DOMAIN p : OwnerIn(k', i) = Len(sh)
    BY <1>1, <1>3, <1>4, Zenon
  <1>6. ASSUME NEW x, x # Len(sh) PROVE Cardinality(Lines(k', x)) = Cardinality(Lines(k, x))
    <2>1. /\ \A i \in DOMAIN k : i <= n /\ k[i].do = "endLine" => OwnerIn(k, i) # x
          /\ \A i \in DOMAIN p : p[i].do = "endLine" => OwnerIn(k', i) # x
      BY <1>5, <1>6, Zenon
    <2> QED
      BY <2>1, LinesKept
  <1>7. ASSUME NEW x, x # Len(sh), Diverted(k, x, 0) PROVE Diverted(k', x, 0)
    <2>1. \A i \in DOMAIN k : i > 0 /\ i <= n => k[i].do # "endCapture" \/ OwnerIn(k, i) # x
      BY <1>5, <1>7, Zenon
    <2>2. \A i \in 0..Len(p) : Diverted(k', x, i)
      BY <1>3, <1>7, <2>1, DivertedKept
    <2> QED
      BY <1>3, <2>2
  <1>8. OwnerIn(k', 1) = OwnerIn(k, 1) /\ me.hop = sh[Len(sh)].hop
    BY <1>3, <1>4 DEF Me
  <1>9. Counts(k', [sh EXCEPT ![Len(sh)] = me])
    BY <1>1, <1>2, <1>6, <1>7, <1>8, CountsKept
  <1>10. Counts(k', sh')
    BY <1>9 DEF SetMe
  <1>11. Shells(k', sh')
    BY <1>2, <1>10, ShellsKept
  <1>12. Shape(k')
    BY <1>2, ShapeKept
  <1>13. IoOK' /\ Bridged' /\ Owes'
    BY Unspoken
  <1>14. held' = Len(sh')
    BY <1>1, <1>2, MeChanged DEF SetMe
  <1>15. RegOK(reg)' /\ Shape(k)' /\ Shells(k, sh)'
    BY <1>11, <1>12 DEF Shape, Shells
  <1> QED
    BY <1>2, <1>13, <1>14, <1>15 DEF Inv

\* Frames that take the place of the first one are followed by another.
LEMMA NotLast ==
  ASSUME Inv, k # <<>>, Top.do # "endShell"
  PROVE  1 < Len(k) /\ 2 \in DOMAIN k /\ Fits(k[1], k[2]) /\ FrameOK(k[2]) /\ 1 + 1 = 2
  <1>1. Len(k) \in Nat \ {0} /\ DOMAIN k = 1..Len(k) /\ Top = k[1] /\ k[Len(k)].do = "endShell" /\ 1 \in DOMAIN k
    BY Running
  <1>2. Len(k) # 1
    BY <1>1
  <1>3. 1 < Len(k) /\ 2 \in DOMAIN k /\ 1 + 1 = 2
    BY <1>1, <1>2
  <1>4. Fits(k[1], k[1 + 1])
    BY <1>1, <1>3, Zenon DEF Inv, Shape
  <1> QED
    BY <1>3, <1>4 DEF Inv, Shape

\* Output of the running shell is diverted behind the first frame.
LEMMA StillDiverted ==
  ASSUME Inv, k # <<>>, Top.do # "endCapture", NEW p, Put(k, 1, p, k'), Me.cap
  PROVE  \A i \in 0..Len(p) : Diverted(k', Len(sh), i)
  <1>1. Top = k[1] /\ DOMAIN k = 1..Len(k) /\ Len(k) \in Nat \ {0} /\ Len(sh) \in DOMAIN sh
    BY Running
  <1>2. Diverted(k, Len(sh), 0)
    BY <1>1 DEF Inv, Shells, Me
  <1>3. 0 \in Nat /\ 0 <= 1 /\ \A i \in DOMAIN k : i > 0 /\ i <= 1 => i = 1
    BY <1>1
  <1>4. \A i \in DOMAIN k : i > 0 /\ i <= 1 => k[i].do # "endCapture" \/ OwnerIn(k, i) # Len(sh)
    BY <1>1, <1>3
  <1> QED
    BY <1>2, <1>3, <1>4, DivertedKept

LEMMA TopOnly ==
  ASSUME Inv, k # <<>>
  PROVE  \A i \in DOMAIN k : i <= 1 => k[i] = Top
  <1>1. Top = k[1] /\ DOMAIN k = 1..Len(k) /\ Len(k) \in Nat \ {0}
    BY Running
  <1>2. \A i \in DOMAIN k : i <= 1 => i = 1
    BY <1>1
  <1> QED
    BY <1>1, <1>2

LEMMA LineEntered ==
  ASSUME Inv, runLine, ~(Me.depth >= MaxDepth)
  PROVE  Inv'
  <1>1. At("line") /\ k # <<>> /\ Top.do = "line"
    <2>1. At("line")
      BY Zenon DEF runLine
    <2> QED
      BY <2>1, AtFacts
  <1> DEFINE me == [Refill(Me) EXCEPT !.depth = @ + 1]
             a == Stmts(Statements(Top.line), TRUE)
             p == <<a, EndLine>>
  <1>2. SetMe(me) /\ Go(p) /\ io' = io
    BY Zenon DEF runLine, Same
  <1>3. mode' = mode /\ panics' = panics /\ held' = held /\ reg' = reg
    BY DEF runLine, Same, Rest
  <1>4. ShellOK(me) /\ me.hop = Me.hop /\ me.cap = Me.cap /\ me.depth = Me.depth + 1
    BY <1>1, EntersOK
  <1>5. a.do = "stmts" /\ EndLine.do = "endLine"
    BY DEF Stmts, EndLine
  <1> HIDE DEF me, a
  <1>6. /\ p \in Seq({a, EndLine}) /\ Len(p) = 2 /\ DOMAIN p = {1, 2} /\ p[1] = a /\ p[2] = EndLine /\ p # <<>>
    OBVIOUS
  <1> HIDE DEF p
  <1>7. \A i \in DOMAIN p : i = 1 \/ i = 2
    BY <1>6
  <1>8. IsStack(p) /\ Told(p)
    BY <1>5, <1>6, <1>7 DEF IsStack, Told
  <1>9. FrameOK(a) /\ FrameOK(EndLine)
    BY <1>5 DEF FrameOK, Control
  <1>10. Frames1(p)
    <2>1. Fits(a, EndLine)
      BY <1>5 DEF Fits
    <2> QED
      BY <1>5, <1>6, <1>7, <1>8, <1>9, <2>1 DEF Frames1
  <1>11. Put(k, 1, p, k')
    BY <1>1, <1>2, <1>8, OnStep
  <1>12. /\ 1 < Len(k) /\ Fits(p[Len(p)], k[1 + 1])
         /\ Len(p) > 1 /\ k[1 + 1].do = "endCapture" => p[Len(p)].do # "line"
    <2>1. 1 < Len(k)
      BY <1>1, NotLast
    <2> QED
      BY <1>5, <1>6, <2>1 DEF Fits
  <1>13. \A i \in DOMAIN k : i <= 1 => k[i].do = "line"
    BY <1>1, TopOnly
  <1>14. \A i \in DOMAIN p : p[i].do # "endShell" /\ (p[i].do = "endLine" <=> i = 2)
    BY <1>5, <1>6, <1>7
  <1>15. OwnerIn(k', 1) = Len(sh) /\ OwnerIn(k', 2) = Len(sh)
    <2>1. OwnerIn(k, 1) = Len(sh)
      BY <1>1, Running
    <2>2. \A i \in 1..(Len(p) + 1) : OwnerIn(k', i) = OwnerIn(k, 1)
      BY <1>11, <1>13, <1>14, TopOwner
    <2> QED
      BY <1>6, <2>1, <2>2
  <1>16. me.depth = Cardinality(Lines(k', Len(sh)))
    <2>1. Cardinality(Lines(k', Len(sh))) = Cardinality(Lines(k, Len(sh))) + 1
      BY <1>6, <1>11, <1>13, <1>14, <1>15, LineBegun
    <2>2. Me.depth = Cardinality(Lines(k, Len(sh)))
      BY <1>1, Running DEF Inv, Shells, Me
    <2> QED
      BY <1>4, <2>1, <2>2
  <1>17. me.cap => Diverted(k', Len(sh), 0)
    <2>1. Me.cap => \A i \in 0..Len(p) : Diverted(k', Len(sh), i)
      BY <1>1, <1>11, StillDiverted
    <2> QED
      BY <1>4, <1>6, <2>1
  <1>18. Belong(p, k', sh')
    <2>1. 1 \in DOMAIN k' /\ 2 \in DOMAIN k' /\ k'[2] = EndLine /\ 2 > 1
      BY <1>6, <1>11, PutFacts
    <2>2. InLine(k', 1)
      BY <1>5, <1>15, <2>1 DEF InLine
    <2> QED
      BY <1>5, <1>6, <1>7, <2>2 DEF Belong, Outside
  <1>19. RegOK(reg')
    BY <1>3 DEF Inv
  <1>20. Top.do \notin {"say", "secret", "log", "endShell"} /\ 1 # 0
    BY <1>1
  <1>21. /\ \A i \in DOMAIN k : i <= 1 => k[i].do # "endShell"
         /\ \A i \in DOMAIN p : p[i].do # "endShell"
    BY <1>13, <1>14
  <1> QED
    BY <1>1, <1>2, <1>3, <1>4, <1>10, <1>11, <1>12, <1>16, <1>17, <1>18, <1>19, <1>20, <1>21, ShellStep

LEMMA NoFrames ==
  /\ Frames1(<<>>) /\ IsStack(<<>>) /\ Len(<<>>) = 0 /\ \A t, m : Belong(<<>>, t, m)
  <1>1. Frames1(<<>>) /\ IsStack(<<>>)
    BY ReadyParts DEF Ready, Calm, Frames1
  <1>2. Len(<<>>) = 0 /\ DOMAIN <<>> = {}
    OBVIOUS
  <1>3. \A t, m : Belong(<<>>, t, m)
    BY <1>2 DEF Belong
  <1> QED
    BY <1>1, <1>2, <1>3

LEMMA LineLeft ==
  ASSUME Inv, endLine
  PROVE  Inv'
  <1>1. At("endLine") /\ k # <<>> /\ Top.do = "endLine"
    <2>1. At("endLine")
      BY Zenon DEF endLine
    <2> QED
      BY <2>1, AtFacts
  <1> DEFINE me == [Me EXCEPT !.depth = @ - 1]
  <1>2. SetMe(me) /\ Go(<<>>)
    BY Zenon DEF endLine
  <1>3. mode' = mode /\ panics' = panics /\ held' = held /\ reg' = reg /\ io' = io
    BY DEF endLine, Same, Rest
  <1>4. Put(k, 1, <<>>, k')
    BY <1>1, <1>2, OnStep, NoFrames
  <1>5. /\ Top = k[1] /\ OwnerIn(k, 1) = Len(sh) /\ Len(sh) \in DOMAIN sh /\ ShellOK(Me)
    BY <1>1, Running
  <1>6. /\ Cardinality(Lines(k, Len(sh))) = Cardinality(Lines(k', Len(sh))) + 1
        /\ Cardinality(Lines(k', Len(sh))) \in Nat
    BY <1>1, <1>4, <1>5, LineEnded
  <1>7. Me.depth = Cardinality(Lines(k, Len(sh)))
    BY <1>5 DEF Inv, Shells, Me
  <1>8. Me.depth - 1 = Cardinality(Lines(k', Len(sh))) /\ Me.depth - 1 \in 0..MaxDepth
    <2>1. Me.depth \in 0..MaxDepth /\ MaxDepth \in Nat
      BY <1>5, LimitsAssumption DEF ShellOK
    <2> QED
      BY <1>6, <1>7, <2>1
  <1>9. ShellOK(me) /\ me.hop = Me.hop /\ me.cap = Me.cap /\ me.depth = Me.depth - 1
    BY <1>5, <1>8 DEF ShellOK
  <1> HIDE DEF me
  <1>10. me.cap => Diverted(k', Len(sh), 0)
    <2>1. Me.cap => \A i \in 0..Len(<<>>) : Diverted(k', Len(sh), i)
      BY <1>1, <1>4, StillDiverted
    <2>2. 0 \in 0..Len(<<>>)
      OBVIOUS
    <2> QED
      BY <1>9, <2>1, <2>2, Zenon
  <1>11. /\ \A i \in DOMAIN k : i <= 1 => k[i].do # "endShell"
         /\ \A i \in DOMAIN <<>> : <<>>[i].do # "endShell"
    BY <1>1, TopOnly
  <1>12. Top.do \notin {"say", "secret", "log", "endShell"} /\ 1 # 0
    BY <1>1
  <1>13. RegOK(reg') /\ me.depth = Cardinality(Lines(k', Len(sh)))
    BY <1>3, <1>8, <1>9 DEF Inv
  <1>14. Frames1(<<>>) /\ Belong(<<>>, k', sh')
    BY NoFrames
  <1> QED
    BY <1>1, <1>2, <1>3, <1>4, <1>9, <1>10, <1>11, <1>12, <1>13, <1>14, ShellStep

\* The shell a substitution is run in.
LEMMA SubShellOK ==
  ASSUME NEW me, ShellOK(me), me.subs + 1 <= MaxSubs, NEW t \in BOOLEAN
  PROVE  LET w == [[me EXCEPT !.subs = @ + 1] EXCEPT !.cap = t, !.buf = Empty, !.ran = @ + 1]
         IN ShellOK(w) /\ w.hop = me.hop /\ w.depth = me.depth
  <1> DEFINE a == [me EXCEPT !.subs = @ + 1]
             b == [a EXCEPT !.cap = t]
             c == [b EXCEPT !.buf = Empty]
             w == [c EXCEPT !.ran = @ + 1]
  <1>1. a = [last |-> me.last, quit |-> me.quit, depth |-> me.depth, budget |-> me.budget,
             subs |-> me.subs + 1, cap |-> me.cap, buf |-> me.buf, hop |-> me.hop,
             cron |-> me.cron, env |-> me.env, files |-> me.files,
             taken |-> me.taken, ran |-> me.ran]
    BY DEF ShellOK
  <1> HIDE DEF a
  <1>2. b = [last |-> me.last, quit |-> me.quit, depth |-> me.depth, budget |-> me.budget,
             subs |-> me.subs + 1, cap |-> t, buf |-> me.buf, hop |-> me.hop,
             cron |-> me.cron, env |-> me.env, files |-> me.files,
             taken |-> me.taken, ran |-> me.ran]
    BY <1>1
  <1> HIDE DEF b
  <1>3. c = [last |-> me.last, quit |-> me.quit, depth |-> me.depth, budget |-> me.budget,
             subs |-> me.subs + 1, cap |-> t, buf |-> Empty, hop |-> me.hop,
             cron |-> me.cron, env |-> me.env, files |-> me.files,
             taken |-> me.taken, ran |-> me.ran]
    BY <1>2
  <1> HIDE DEF c
  <1>4. w = [last |-> me.last, quit |-> me.quit, depth |-> me.depth, budget |-> me.budget,
             subs |-> me.subs + 1, cap |-> t, buf |-> Empty, hop |-> me.hop,
             cron |-> me.cron, env |-> me.env, files |-> me.files,
             taken |-> me.taken, ran |-> me.ran + 1]
    BY <1>3
  <1> HIDE DEF w
  <1>5. /\ me.subs + 1 \in Nat /\ me.ran + 1 \in Nat /\ me.ran + 1 <= me.subs + 1
        /\ me.ran + 1 <= MaxSubs
    BY LimitsAssumption DEF ShellOK
  <1>6. Empty.len \in Nat
    BY TextFacts
  <1>7. ShellOK(w) /\ w.hop = me.hop /\ w.depth = me.depth
    BY <1>4, <1>5, <1>6 DEF ShellOK
  <1> QED
    BY <1>7, Zenon DEF a, b, c, w

\* Nothing is begun or ended but a substitution.
LEMMA LinesSame ==
  ASSUME Inv, k # <<>>, NEW n, NEW p, Put(k, n, p, k'),
         \A i \in DOMAIN k : i <= n => k[i].do # "endLine", \A i \in DOMAIN p : p[i].do # "endLine"
  PROVE  Me.depth = Cardinality(Lines(k', Len(sh)))
  <1>1. Cardinality(Lines(k', Len(sh))) = Cardinality(Lines(k, Len(sh)))
    BY LinesKept
  <1>2. Me.depth = Cardinality(Lines(k, Len(sh)))
    BY Running DEF Inv, Shells, Me
  <1> QED
    BY <1>1, <1>2

LEMMA SubBegun ==
  ASSUME Inv, expand, SubRuns
  PROVE  Inv'
  <1>1. /\ At("expand") /\ Top.words # <<>> /\ k # <<>> /\ Top.do = "expand" /\ Head(Top.words).kind = "sub"
        /\ ~(Me.subs + 1 > MaxSubs \/ Me.budget <= 0 \/ Me.depth >= MaxDepth)
    BY AtFacts DEF SubRuns
  <1>2. /\ Top = k[1] /\ OwnerIn(k, 1) = Len(sh) /\ Len(sh) \in DOMAIN sh /\ ShellOK(Me) /\ 1 \in DOMAIN k
    BY <1>1, Running
  <1> DEFINE l == RunLine(Head(Top.words).val)
             e == EndCapture(Me)
             f == [Top EXCEPT !.words = Tail(@)]
             p == <<l, e, f>>
             x == [Me EXCEPT !.subs = @ + 1]
             me == [x EXCEPT !.cap = TRUE, !.buf = Empty, !.ran = @ + 1]
  <1>3. x.subs = Me.subs + 1 /\ x.budget = Me.budget /\ x.depth = Me.depth
    BY <1>2 DEF ShellOK
  <1>4. cmdSub(Head(Top.words))
    BY <1>1, Zenon DEF expand
  <1>5. SetMe(me) /\ Go(p)
    BY <1>1, <1>3, <1>4, Zenon DEF cmdSub
  <1>6. mode' = mode /\ panics' = panics /\ held' = held /\ reg' = reg /\ io' = io
    <2>1. Same(<<Rest, reg, io>>)
      BY Zenon DEF expand
    <2> QED
      BY <2>1 DEF Same, Rest
  <1>7. ShellOK(me) /\ me.hop = Me.hop /\ me.depth = Me.depth
    <2>1. Me.subs + 1 <= MaxSubs
      BY <1>1, <1>2, LimitsAssumption DEF ShellOK
    <2>2. TRUE \in BOOLEAN
      OBVIOUS
    <2> QED
      BY <1>2, <2>1, <2>2, SubShellOK, Zenon
  <1>8. FrameOK(f) /\ f.do = "expand"
    <2>1. Top = [do |-> "expand", words |-> Top.words, acc |-> Top.acc] /\ Vals(Top.acc)
      BY <1>1, TopFacts
    <2> HIDE DEF Top
    <2> QED
      BY <2>1, ExpandNext, Zenon
  <1>9. FrameOK(l) /\ l.do = "line"
    BY DEF RunLine, FrameOK, Flat, Effects
  <1>10. FrameOK(e) /\ e.do = "endCapture" /\ e.cap = Me.cap
    <2>1. RegOK(reg) /\ Me.cap \in BOOLEAN /\ Me.buf.len \in Nat
      BY <1>2 DEF Inv, ShellOK
    <2>2. e.do = "endCapture" /\ e.cap = Me.cap /\ e.reg = reg /\ e.buf = Me.buf
      BY DEF EndCapture
    <2> QED
      BY <2>1, <2>2 DEF FrameOK
  <1> HIDE DEF x, me, l, e, f
  <1>11. /\ p \in Seq({l, e, f}) /\ Len(p) = 3 /\ DOMAIN p = {1, 2, 3} /\ p[1] = l /\ p[2] = e /\ p[3] = f /\ p # <<>>
    OBVIOUS
  <1> HIDE DEF p
  <1>12. \A i \in DOMAIN p : i = 1 \/ i = 2 \/ i = 3
    BY <1>11
  <1>13. IsStack(p) /\ Told(p)
    BY <1>8, <1>9, <1>10, <1>11, <1>12 DEF IsStack, Told
  <1>14. Frames1(p)
    <2>1. Fits(l, e) /\ Fits(e, f)
      BY <1>8, <1>9, <1>10 DEF Fits
    <2> QED
      BY <1>8, <1>9, <1>10, <1>11, <1>12, <1>13, <2>1 DEF Frames1
  <1>15. Put(k, 1, p, k')
    BY <1>1, <1>5, <1>13, OnStep
  <1>16. /\ 1 < Len(k) /\ Fits(p[Len(p)], k[1 + 1])
         /\ Len(p) > 1 /\ k[1 + 1].do = "endCapture" => p[Len(p)].do # "line"
    <2>1. 1 < Len(k) /\ Fits(k[1], k[2]) /\ 1 + 1 = 2
      BY <1>1, NotLast
    <2>2. Fits(f, k[2])
      BY <1>1, <1>2, <1>8, <2>1 DEF Fits
    <2> QED
      BY <1>8, <1>11, <2>1, <2>2
  <1>17. \A i \in DOMAIN k : i <= 1 => k[i].do = "expand"
    BY <1>1, TopOnly
  <1>18. \A i \in DOMAIN p : p[i].do # "endShell" /\ p[i].do # "endLine" /\ p[i].do # "pivot"
                              /\ (p[i].do = "endCapture" => i = 2)
    BY <1>8, <1>9, <1>10, <1>11, <1>12
  <1>19. OwnerIn(k', 2) = Len(sh)
    <2>1. \A i \in 1..(Len(p) + 1) : OwnerIn(k', i) = OwnerIn(k, 1)
      BY <1>15, <1>17, <1>18, TopOwner
    <2> QED
      BY <1>2, <1>11, <2>1
  <1>20. me.depth = Cardinality(Lines(k', Len(sh)))
    BY <1>1, <1>7, <1>15, <1>17, <1>18, LinesSame
  <1>21. Diverted(k', Len(sh), 0)
    <2>1. 2 \in DOMAIN k' /\ k'[2] = e /\ 2 > 0
      BY <1>11, <1>15, PutFacts
    <2> QED
      BY <1>10, <1>19, <2>1 DEF Diverted
  <1>22. Belong(p, k', sh')
    <2>1. InLine(k, 1)
      BY <1>1, <1>2 DEF Inv, Shells, Fresher, Outside
    <2>2. \A i \in DOMAIN p : InLine(k', i)
      BY <1>15, <1>17, <1>18, <2>1, InLineNew
    <2>3. Me.cap => Diverted(k', Len(sh), 2)
      <3>1. Me.cap => \A i \in 0..Len(p) : Diverted(k', Len(sh), i)
        BY <1>1, <1>15, StillDiverted
      <3> QED
        BY <1>11, <3>1
    <2> QED
      BY <1>10, <1>11, <1>18, <1>19, <2>2, <2>3 DEF Belong
  <1>23. RegOK(reg')
    BY <1>6 DEF Inv
  <1>24. Top.do \notin {"say", "secret", "log", "endShell"} /\ 1 # 0
    BY <1>1
  <1>25. /\ \A i \in DOMAIN k : i <= 1 => k[i].do # "endShell"
         /\ \A i \in DOMAIN p : p[i].do # "endShell"
    BY <1>17, <1>18
  <1> QED
    BY <1>1, <1>5, <1>6, <1>7, <1>14, <1>15, <1>16, <1>20, <1>21, <1>22, <1>23, <1>24, <1>25, ShellStep

LEMMA SubEnded ==
  ASSUME Inv, endCapture
  PROVE  Inv'
  <1>1. At("endCapture") /\ k # <<>> /\ Top.do = "endCapture"
    <2>1. At("endCapture")
      BY Zenon DEF endCapture
    <2> QED
      BY <2>1, AtFacts
  <1>2. /\ Top = k[1] /\ OwnerIn(k, 1) = Len(sh) /\ Len(sh) \in DOMAIN sh /\ ShellOK(Me) /\ 1 \in DOMAIN k
        /\ IsStack(k) /\ DOMAIN k = 1..Len(k) /\ Len(k) \in Nat /\ k[Len(k)].do = "endShell"
    BY <1>1, Running
  <1>3. 1 < Len(k) /\ 2 \in DOMAIN k /\ Fits(k[1], k[2]) /\ FrameOK(k[2])
    BY <1>1, NotLast
  <1>4. k[2].do = "expand"
    BY <1>1, <1>2, <1>3 DEF Fits
  <1>5. Len(k) # 2
    BY <1>2, <1>4
  <1>6. 2 < Len(k) /\ Fits(k[2], k[2 + 1])
    <2>1. 2 < Len(k)
      BY <1>2, <1>3, <1>5
    <2> QED
      BY <1>3, <2>1, Zenon DEF Inv, Shape
  <1> DEFINE g == k[2]
             f == [g EXCEPT !.acc = Append(@, Me.buf)]
             p == <<f>>
             me == [Me EXCEPT !.cap = Top.cap, !.buf = Top.buf]
  <1>7. k' = p \o SubSeq(k, 3, Len(k)) /\ SetMe(me) /\ reg' = Top.reg
    BY Zenon DEF endCapture
  <1>8. mode' = mode /\ panics' = panics /\ held' = held /\ io' = io
    BY DEF endCapture, Same, Rest
  <1>9. RegOK(Top.reg) /\ Top.cap \in BOOLEAN /\ Top.buf.len \in Nat
    BY <1>1, TopFacts
  <1>10. FrameOK(f) /\ f.do = "expand"
    <2>1. FrameOK(g) /\ g.do = "expand"
      BY <1>3, <1>4
    <2>2. Me.buf.len \in Nat
      BY <1>2 DEF ShellOK
    <2> HIDE DEF g
    <2>3. ~Flat(g) /\ ~Branch1(g)
      BY <2>1, BranchKinds DEF Flat, Effects
    <2>4. g = [do |-> "expand", words |-> g.words, acc |-> g.acc] /\ Vals(g.acc)
      BY <2>1, <2>3 DEF FrameOK, Control
    <2> QED
      BY <2>2, <2>4, ExpandNext, Zenon
  <1>11. ShellOK(me) /\ me.hop = Me.hop /\ me.depth = Me.depth /\ me.cap = Top.cap
    <2> DEFINE b == Top.cap
               v == Top.buf
               x == [Me EXCEPT !.cap = b]
               y == [x EXCEPT !.buf = v]
    <2>1. b \in BOOLEAN /\ v.len \in Nat
      BY <1>9
    <2> HIDE DEF b, v
    <2>2. x = [last |-> Me.last, quit |-> Me.quit, depth |-> Me.depth, budget |-> Me.budget,
               subs |-> Me.subs, cap |-> b, buf |-> Me.buf, hop |-> Me.hop,
               cron |-> Me.cron, env |-> Me.env, files |-> Me.files,
               taken |-> Me.taken, ran |-> Me.ran]
      BY <1>2 DEF ShellOK
    <2> HIDE DEF x
    <2>3. y = [last |-> Me.last, quit |-> Me.quit, depth |-> Me.depth, budget |-> Me.budget,
               subs |-> Me.subs, cap |-> b, buf |-> v, hop |-> Me.hop,
               cron |-> Me.cron, env |-> Me.env, files |-> Me.files,
               taken |-> Me.taken, ran |-> Me.ran]
      BY <2>2
    <2> HIDE DEF y
    <2>4. ShellOK(y) /\ y.hop = Me.hop /\ y.depth = Me.depth /\ y.cap = b
      BY <1>2, <2>1, <2>3 DEF ShellOK
    <2> QED
      BY <2>4, Zenon DEF x, y, b, v
  <1> HIDE DEF f, me, g
  <1>12. Calm(p) /\ NoPivot(p) /\ Len(p) = 1 /\ p[1] = f
    BY <1>10, CalmExpand
  <1> HIDE DEF p
  <1>13. IsStack(p) /\ Frames1(p) /\ DOMAIN p = 1..1 /\ p # <<>>
    <2>1. IsStack(p) /\ Frames1(p)
      BY <1>12 DEF Calm, Frames1
    <2> QED
      BY <1>12, <2>1, StackFacts
  <1>14. Put(k, 2, p, k')
    <2>1. 2 \in Nat /\ 2 <= Len(k) /\ 2 + 1 = 3
      BY <1>2, <1>6
    <2>2. Put(k, 2, p, p \o SubSeq(k, 2 + 1, Len(k)))
      BY <1>2, <1>13, <2>1, SplicedPut
    <2> QED
      BY <1>7, <2>1, <2>2
  <1>15. /\ 2 < Len(k) /\ Fits(p[Len(p)], k[2 + 1])
         /\ Len(p) > 1 /\ k[2 + 1].do = "endCapture" => p[Len(p)].do # "line"
    <2>1. Fits(f, k[2 + 1])
      BY <1>4, <1>6, <1>10 DEF Fits
    <2> QED
      BY <1>6, <1>10, <1>12, <2>1
  <1>16. \A i \in DOMAIN k : i <= 2 => k[i].do \in {"endCapture", "expand"}
    <2>1. \A i \in DOMAIN k : i <= 2 => i = 1 \/ i = 2
      BY <1>2
    <2> QED
      BY <1>1, <1>2, <1>4, <2>1
  <1>17. \A i \in DOMAIN p : p[i].do = "expand" /\ i = 1
    BY <1>10, <1>12, <1>13
  <1>18. me.depth = Cardinality(Lines(k', Len(sh)))
    BY <1>1, <1>11, <1>14, <1>16, <1>17, LinesSame
  <1>19. me.cap => Diverted(k', Len(sh), 0)
    <2> SUFFICES ASSUME Top.cap PROVE Diverted(k', Len(sh), 0)
      BY <1>11
    <2>1. Diverted(k, Len(sh), 1)
      BY <1>1, <1>2 DEF Inv, Shells
    <2>2. 1 \in Nat /\ 1 <= 2 /\ \A i \in DOMAIN k : i > 1 /\ i <= 2 => i = 2
      BY <1>2
    <2>3. \A i \in DOMAIN k : i > 1 /\ i <= 2 => k[i].do # "endCapture" \/ OwnerIn(k, i) # Len(sh)
      BY <1>4, <2>2
    <2>4. \A i \in 0..Len(p) : Diverted(k', Len(sh), i)
      BY <1>14, <2>1, <2>2, <2>3, DivertedKept
    <2> QED
      BY <1>12, <2>4
  <1>20. Belong(p, k', sh')
    <2>1. InLine(k, 1)
      BY <1>1, <1>2 DEF Inv, Shells, Fresher, Outside
    <2>2. \A i \in DOMAIN p : InLine(k', i)
      BY <1>14, <1>16, <1>17, <2>1, InLineNew
    <2> QED
      BY <1>17, <2>2 DEF Belong
  <1>21. RegOK(reg')
    BY <1>7, <1>9
  <1>22. Top.do \notin {"say", "secret", "log", "endShell"} /\ 2 # 0
    BY <1>1
  <1>23. /\ \A i \in DOMAIN k : i <= 2 => k[i].do # "endShell"
         /\ \A i \in DOMAIN p : p[i].do # "endShell"
    BY <1>16, <1>17
  <1> QED
    BY <1>1, <1>7, <1>8, <1>11, <1>13, <1>14, <1>15, <1>18, <1>19, <1>20, <1>21, <1>22, <1>23, ShellStep

-----------------------------------------------------------------------------
(* Shells begin and end, a line is typed, the client hangs up.             *)

LEMMA Unplugged ==
  ASSUME Inv, hangUp
  PROVE  Inv'
  <1>1. mode' = mode /\ panics' = panics /\ held' = held /\ k' = k /\ sh' = sh /\ reg' = reg
    BY DEF hangUp, Same, Rest
  <1>2. io' = [io EXCEPT !.alive = FALSE]
    BY DEF hangUp
  <1>3. /\ IoOK' /\ io'.cap = io.cap /\ io'.wire = io.wire /\ io'.slept = io.slept
        /\ io'.waited = io.waited /\ io'.owed = io.owed
    BY <1>2 DEF Inv, IoOK
  <1>4. Bridged'
    BY <1>1, <1>3 DEF Inv, Bridged
  <1>5. Owes'
    BY <1>1, <1>3 DEF Inv, Owes
  <1>6. RegOK(reg)' /\ Shape(k)' /\ Shells(k, sh)'
    BY <1>1, Zenon DEF Inv
  <1> QED
    BY <1>1, <1>3, <1>4, <1>5, <1>6 DEF Inv

LEMMA OutputTaken ==
  ASSUME Inv, endOutput
  PROVE  Inv'
  <1>1. k # <<>> /\ Top.do = "endOutput"
    <2>1. At("endOutput")
      BY Zenon DEF endOutput
    <2> QED
      BY <2>1, AtFacts
  <1>2. /\ mode' = mode /\ panics' = panics /\ held' = held /\ sh' = sh /\ reg' = reg
        /\ Go(<<>>) /\ io' = [io EXCEPT !.cap = FALSE]
    BY DEF endOutput, Same, Rest
  <1>3. /\ Top = k[1] /\ 1 \in DOMAIN k /\ DOMAIN k = 1..Len(k) /\ Len(k) \in Nat
        /\ k[Len(k)].do = "endShell" /\ sh # <<>> /\ ShellOK(Me)
    BY <1>1, Running
  <1>4. Len(k) = 2
    <2>1. 1 = Len(k) - 1
      BY <1>1, <1>3 DEF Inv, Shape
    <2>2. Len(k) \in Nat
      BY <1>3
    <2>3. \A n \in Nat : 1 = n - 1 => n = 2
      OBVIOUS
    <2> QED
      BY <2>1, <2>2, <2>3, Zenon
  <1>5. Put(k, 1, <<>>, k')
    BY <1>1, <1>2, OnStep, NoFrames
  <1>6. Shape(k')
    BY <1>5, NoFrames, ShapeKept DEF Inv
  <1>7. Shells(k', sh')
    <2>1. \A i \in DOMAIN k : i <= 1 => k[i].do \notin Ends \ {"endOutput"}
      BY <1>1, TopOnly
    <2>2. \A i \in DOMAIN <<>> : <<>>[i].do \notin Marks
      OBVIOUS
    <2>3. ~\E i \in DOMAIN <<>> : <<>>[i].do = "pivot"
      OBVIOUS
    <2>4. Shells(k, sh) /\ ShellOK(sh[Len(sh)]) /\ 1 # 0
      BY <1>3 DEF Inv, Me
    <2>5. Shells(k', [sh EXCEPT ![Len(sh)] = sh[Len(sh)]])
      BY <1>3, <1>5, <2>1, <2>2, <2>3, <2>4, PlainShells
    <2>6. [sh EXCEPT ![Len(sh)] = sh[Len(sh)]] = sh
      BY <1>1, <1>3, MeChanged, Running
    <2> QED
      BY <1>2, <2>5, <2>6
  <1>8. /\ IoOK' /\ io'.wire = io.wire /\ io'.slept = io.slept
        /\ io'.waited = io.waited /\ io'.owed = io.owed
    BY <1>2 DEF Inv, IoOK
  <1>9. \A j \in DOMAIN k' : k'[j].do = "endShell"
    <2>1. Len(k') = 1 /\ DOMAIN k' = 1..Len(k') /\ \A j \in DOMAIN k' : j > Len(<<>>) => k'[j] = k[j - (Len(<<>>) - 1)]
      <3>1. /\ Len(k') = Len(<<>>) + (Len(k) - 1) /\ DOMAIN k' = 1..Len(k')
            /\ \A j \in DOMAIN k' : j > Len(<<>>) => k'[j] = k[j - (Len(<<>>) - 1)]
        BY <1>5, PutFacts
      <3> QED
        BY <1>4, <3>1
    <2>2. \A j \in DOMAIN k' : j > Len(<<>>) /\ j - (Len(<<>>) - 1) = 2
      BY <2>1
    <2> QED
      BY <1>3, <1>4, <2>1, <2>2
  <1>10. Bridged'
    BY <1>2, <1>8, <1>9 DEF Inv, Bridged
  <1>11. Owes'
    BY <1>1, <1>2, <1>8, NotOwing DEF Owes
  <1>12. RegOK(reg)' /\ Shape(k)' /\ Shells(k, sh)'
    BY <1>2, <1>6, <1>7 DEF Inv, Shape, Shells
  <1> QED
    BY <1>2, <1>8, <1>10, <1>11, <1>12 DEF Inv

LEMMA LineTyped ==
  ASSUME Inv, typeLine
  PROVE  Inv'
  <1>1. At("loop") /\ k # <<>> /\ Top.do = "loop" /\ ~io.cap
    <2>1. At("loop") /\ ~io.cap
      BY Zenon DEF typeLine
    <2> QED
      BY <2>1, AtFacts
  <1> DEFINE me == [Me EXCEPT !.taken = 0, !.ran = 0]
  <1>2. PICK l : k' = <<RunLine(l)>> \o k
    BY Zenon DEF typeLine
  <1>3. SetMe(me) /\ io' = [Write EXCEPT !.waited = TRUE]
    BY Zenon DEF typeLine
  <1>4. mode' = mode /\ panics' = panics /\ held' = held /\ reg' = reg
    BY DEF typeLine, Same
  <1>5. /\ Top = k[1] /\ 1 \in DOMAIN k /\ DOMAIN k = 1..Len(k) /\ Len(k) \in Nat \ {0} /\ IsStack(k)
        /\ IsStack(sh) /\ sh # <<>> /\ ShellOK(Me) /\ Len(sh) \in DOMAIN sh /\ OwnerIn(k, 1) = Len(sh)
    BY <1>1, Running
  <1>6. ShellOK(me) /\ me.hop = Me.hop /\ me.depth = Me.depth /\ me.cap = Me.cap /\ me.taken = 0 /\ me.ran = 0
    <2> DEFINE x == [Me EXCEPT !.taken = 0]
               y == [x EXCEPT !.ran = 0]
    <2>1. x = [last |-> Me.last, quit |-> Me.quit, depth |-> Me.depth, budget |-> Me.budget,
               subs |-> Me.subs, cap |-> Me.cap, buf |-> Me.buf, hop |-> Me.hop,
               cron |-> Me.cron, env |-> Me.env, files |-> Me.files,
               taken |-> 0, ran |-> Me.ran]
      BY <1>5 DEF ShellOK
    <2> HIDE DEF x
    <2>2. y = [last |-> Me.last, quit |-> Me.quit, depth |-> Me.depth, budget |-> Me.budget,
               subs |-> Me.subs, cap |-> Me.cap, buf |-> Me.buf, hop |-> Me.hop,
               cron |-> Me.cron, env |-> Me.env, files |-> Me.files,
               taken |-> 0, ran |-> 0]
      BY <2>1
    <2> HIDE DEF y
    <2>3. Me.budget \in 0..MaxExpand /\ MaxExpand \in Nat /\ MaxSubs \in Nat /\ Me.subs \in Nat
      BY <1>5, LimitsAssumption DEF ShellOK
    <2>4. ShellOK(y) /\ y.hop = Me.hop /\ y.depth = Me.depth /\ y.cap = Me.cap /\ y.taken = 0 /\ y.ran = 0
      BY <1>5, <2>2, <2>3 DEF ShellOK
    <2> QED
      BY <2>4, Zenon DEF x, y
  <1> HIDE DEF me
  <1> DEFINE a == RunLine(l)
             p == <<a>>
  <1>7. FrameOK(a) /\ a.do = "line"
    BY DEF RunLine, FrameOK, Flat, Effects
  <1>8. k' = p \o k
    BY <1>2
  <1> HIDE DEF a
  <1>9. p \in Seq({a}) /\ Len(p) = 1 /\ DOMAIN p = {1} /\ p[1] = a /\ p # <<>>
    OBVIOUS
  <1> HIDE DEF p
  <1>10. IsStack(p) /\ Told(p) /\ Frames1(p)
    <2>1. IsStack(p) /\ Told(p)
      BY <1>7, <1>9 DEF IsStack, Told
    <2> QED
      BY <1>7, <1>9, <2>1 DEF Frames1
  <1>11. Put(k, 0, p, k')
    <2>1. SubSeq(k, 0 + 1, Len(k)) = k
      <3>1. PICK S : k \in Seq(S)
        BY <1>5 DEF IsStack
      <3> QED
        BY <3>1
    <2>2. 0 \in Nat /\ 0 <= Len(k)
      BY <1>5
    <2>3. Put(k, 0, p, p \o SubSeq(k, 0 + 1, Len(k)))
      BY <1>5, <1>10, <2>2, SplicedPut
    <2> QED
      BY <1>8, <2>1, <2>3
  <1>12. Shape(k')
    <2>1. 0 < Len(k) /\ Fits(p[Len(p)], k[0 + 1]) /\ ~(Len(p) > 1)
      <3>1. Fits(a, k[1])
        BY <1>1, <1>5, <1>7 DEF Fits
      <3> QED
        BY <1>5, <1>9, <3>1
    <2>2. Shape(k) /\ k[1].do # "line"
      BY <1>1, <1>5 DEF Inv
    <2> QED
      BY <1>1, <1>10, <1>11, <2>1, <2>2, ShapeKept
  <1>13. \A i \in DOMAIN k : ~(i <= 0)
    BY <1>5
  <1>14. \A i \in DOMAIN p : p[i].do = "line" /\ i = 1
    BY <1>7, <1>9
  <1>15. OwnerIn(k', 1) = OwnerIn(k, 1)
    <2>1. \A i \in 1..(Len(p) + 1) : OwnerIn(k', i) = OwnerIn(k, 1)
      BY <1>11, <1>13, <1>14, TopOwner
    <2> QED
      BY <1>9, <2>1
  <1>16. \A x : Cardinality(Lines(k', x)) = Cardinality(Lines(k, x))
    BY <1>11, <1>13, <1>14, LinesKept
  <1>17. ASSUME NEW x, Diverted(k, x, 0) PROVE Diverted(k', x, 0)
    <2>1. 0 \in Nat /\ 0 <= 0
      OBVIOUS
    <2>2. \A i \in 0..Len(p) : Diverted(k', x, i)
      BY <1>11, <1>13, <1>17, <2>1, DivertedKept
    <2> QED
      BY <1>9, <2>2
  <1>18. Counts(k', sh')
    <2>1. me.hop = sh[Len(sh)].hop /\ Shells(k, sh)
      BY <1>6 DEF Me, Inv
    <2>2. me.depth = Cardinality(Lines(k', Len(sh)))
      BY <1>5, <1>6, <1>16 DEF Inv, Shells, Me
    <2>3. me.cap => Diverted(k', Len(sh), 0)
      BY <1>5, <1>6, <1>17 DEF Inv, Shells, Me
    <2>4. Counts(k', [sh EXCEPT ![Len(sh)] = me])
      BY <1>5, <1>6, <1>15, <1>16, <1>17, <2>1, <2>2, <2>3, CountsKept
    <2> QED
      BY <1>3, <2>4 DEF SetMe
  <1>19. sh'[Len(sh')] = me /\ Len(sh') = Len(sh)
    BY <1>3, <1>5, MeChanged DEF SetMe
  <1>20. Belong(p, k', sh')
    <2>1. k'[1] = a
      BY <1>9, <1>11, PutFacts
    <2>2. Fresher(k', sh', 1)
      BY <1>6, <1>7, <1>19, <2>1 DEF Fresher
    <2> QED
      BY <1>14, <2>2 DEF Belong
  <1>21. Shells(k', sh')
    <2>1. Shells(k, sh) /\ k[1].do \in Outside
      BY <1>1, <1>5 DEF Inv, Outside
    <2> QED
      BY <1>1, <1>11, <1>18, <1>20, <2>1, ShellsKept
  <1>22. Talks
    <2>1. Prompted = Write
      BY <1>1 DEF Prompted, At, Top
    <2>2. io' = [Prompted EXCEPT !.waited = TRUE]
      BY <1>3, <2>1
    <2> QED
      BY <1>1, <2>2, IoRead DEF Inv
  <1>23. ~(mode = "bridge")
    <2>1. k[1].do # "endShell"
      BY <1>1, <1>5
    <2> QED
      BY <1>1, <1>5, <2>1, Capturing
  <1>24. Bridged'
    BY <1>4, <1>23 DEF Bridged
  <1>25. Owes'
    <2>1. io'.owed => io.owed
      BY <1>1, <1>22 DEF Talks, At, Top
    <2> QED
      BY <1>1, <1>4, <2>1, NotOwing DEF Owes
  <1>26. RegOK(reg)' /\ Shape(k)' /\ Shells(k, sh)' /\ held' = Len(sh') /\ IoOK'
    BY <1>4, <1>12, <1>19, <1>21, <1>22 DEF Inv, Shape, Shells, Talks
  <1> QED
    BY <1>4, <1>24, <1>25, <1>26 DEF Inv

LEMMA NewShellOK ==
  ASSUME NEW b
  PROVE  /\ ShellOK(NewShell(b)) /\ NewShell(b).hop = b /\ NewShell(b).depth = 0
         /\ NewShell(b).taken = 0 /\ NewShell(b).ran = 0 /\ ~NewShell(b).cap
  <1>1. MaxExpand \in Nat /\ MaxDepth \in Nat /\ MaxSubs \in Nat
    BY LimitsAssumption
  <1>2. Empty.len \in Nat /\ Absent.len = -1
    BY TextFacts
  <1>3. \A f : NewShell(b).cap = f => ~f \/ NewShell(b).cap
    OBVIOUS
  <1> HIDE DEF NewShell
  <1> DEFINE w == NewShell(b)
  <1>4. /\ w = [last |-> w.last, quit |-> w.quit, depth |-> w.depth, budget |-> w.budget,
           subs |-> w.subs, cap |-> w.cap, buf |-> w.buf, hop |-> w.hop,
           cron |-> w.cron, env |-> w.env, files |-> w.files,
           taken |-> w.taken, ran |-> w.ran]
        /\ w.hop = b /\ w.last = 0 /\ w.depth = 0 /\ w.budget = MaxExpand /\ w.subs = 0 /\ w.buf = Empty
        /\ w.env = [x \in Vars |-> Empty] /\ w.files = [f \in Files |-> Absent]
        /\ w.taken = 0 /\ w.ran = 0 /\ w.cap = FALSE
    BY DEF NewShell
  <1> HIDE DEF w
  <1>5. w.cap \in BOOLEAN /\ ~w.cap
    BY <1>4
  <1>6. ShellOK(w)
    BY <1>1, <1>2, <1>4, <1>5 DEF ShellOK
  <1> QED
    BY <1>4, <1>5, <1>6 DEF w

\* A step in the shells around which nothing changes.
LEMMA OuterKept ==
  ASSUME NEW n, NEW p, Put(k, n, p, k'), NEW x,
         \A i \in DOMAIN k : i <= n => k[i].do # "endLine" /\ k[i].do # "endCapture",
         \A i \in DOMAIN p : p[i].do # "endLine"
  PROVE  /\ Cardinality(Lines(k', x)) = Cardinality(Lines(k, x))
         /\ Diverted(k, x, 0) => Diverted(k', x, 0)
  <1>1. Cardinality(Lines(k', x)) = Cardinality(Lines(k, x))
    BY LinesKept
  <1>2. n \in Nat /\ Len(p) \in Nat /\ 0 \in Nat /\ 0 <= n /\ 0 \in 0..Len(p)
    <2>1. n \in Nat /\ Len(p) \in Nat
      BY PutFacts
    <2> QED
      BY <2>1
  <1>3. ASSUME Diverted(k, x, 0) PROVE Diverted(k', x, 0)
    <2>1. \A i \in 0..Len(p) : Diverted(k', x, i)
      BY <1>2, <1>3, DivertedKept
    <2> QED
      BY <1>2, <2>1
  <1> QED
    BY <1>1, <1>3

LEMMA Cats ==
  ASSUME NEW S, NEW s \in Seq(S), NEW t \in Seq(S)
  PROVE  /\ s \o t \in Seq(S) /\ Len(s \o t) = Len(s) + Len(t)
         /\ \A i \in 1..Len(s) : (s \o t)[i] = s[i]
         /\ \A i \in 1..Len(t) : (s \o t)[Len(s) + i] = t[i]
  OBVIOUS

LEMMA Welcomed ==
  ASSUME NEW a, NEW b, NEW c, NEW d, NEW e
  PROVE  <<a, b>> \o <<c, d>> \o <<e>> = <<a, b, c, d, e>>
  <1> DEFINE S == {a, b, c, d, e}
             u == <<a, b>>
             v == <<c, d>>
             w == <<e>>
             x == <<a, b, c, d, e>>
  <1>1. /\ u \in Seq(S) /\ Len(u) = 2 /\ u[1] = a /\ u[2] = b
        /\ v \in Seq(S) /\ Len(v) = 2 /\ v[1] = c /\ v[2] = d
        /\ w \in Seq(S) /\ Len(w) = 1 /\ w[1] = e
    OBVIOUS
  <1>2. x \in Seq(S) /\ Len(x) = 5 /\ x[1] = a /\ x[2] = b /\ x[3] = c /\ x[4] = d /\ x[5] = e
    OBVIOUS
  <1> HIDE DEF S, u, v, w, x
  <1> DEFINE y == u \o v
             z == y \o w
  <1>3. y \in Seq(S) /\ Len(y) = 4 /\ y[1] = a /\ y[2] = b /\ y[3] = c /\ y[4] = d
    <2>0. u \in Seq(S) /\ v \in Seq(S)
      BY <1>1
    <2>1. y \in Seq(S) /\ Len(y) = Len(u) + Len(v)
      BY <2>0, Cats
    <2>2. (\A i \in 1..Len(u) : y[i] = u[i]) /\ \A i \in 1..Len(v) : y[Len(u) + i] = v[i]
      BY <2>0, Cats
    <2> HIDE DEF y
    <2>3. y[2 + 1] = v[1] /\ y[2 + 2] = v[2] /\ y[1] = u[1] /\ y[2] = u[2]
      BY <1>1, <2>2
    <2>4. 2 + 1 = 3 /\ 2 + 2 = 4
      OBVIOUS
    <2> QED
      BY <1>1, <2>1, <2>3, <2>4
  <1> HIDE DEF y
  <1>4. z \in Seq(S) /\ Len(z) = 5 /\ z[1] = a /\ z[2] = b /\ z[3] = c /\ z[4] = d /\ z[5] = e
    <2>0. w \in Seq(S) /\ y \in Seq(S)
      BY <1>1, <1>3
    <2>1. z \in Seq(S) /\ Len(z) = Len(y) + Len(w)
      BY <2>0, Cats
    <2>2. (\A i \in 1..Len(y) : z[i] = y[i]) /\ \A i \in 1..Len(w) : z[Len(y) + i] = w[i]
      BY <2>0, Cats
    <2> HIDE DEF z
    <2>3. z[4 + 1] = w[1] /\ z[1] = y[1] /\ z[2] = y[2] /\ z[3] = y[3] /\ z[4] = y[4]
      BY <1>1, <1>3, <2>2
    <2>4. 4 + 1 = 5
      OBVIOUS
    <2> QED
      BY <1>1, <1>3, <2>1, <2>3, <2>4
  <1> HIDE DEF z
  <1>5. \A i \in 1..5 : i = 1 \/ i = 2 \/ i = 3 \/ i = 4 \/ i = 5
    OBVIOUS
  <1>6. z = x
    BY <1>2, <1>4, <1>5, SeqEqual
  <1> QED
    BY <1>6 DEF u, v, w, x, y, z

LEMMA ShellBegun ==
  ASSUME Inv, pivotShell
  PROVE  Inv'
  <1>1. k # <<>> /\ Top.do = "pivot"
    <2>1. At("pivot")
      BY Zenon DEF pivotShell
    <2> QED
      BY <2>1, AtFacts
  <1> DEFINE w == NewShell(FALSE)
             a == SetIdle(10)
             p == <<Slow, Say, a, Loop, EndShell>>
  <1>2. sh' = Append(sh, w) /\ held' = held + 1 /\ Go(p)
    <2>1. welcome \o loop \o <<EndShell>> = p
      BY Welcomed, Zenon DEF welcome, loop
    <2>2. sh' = Append(sh, w) /\ held' = held + 1 /\ Go(welcome \o loop \o <<EndShell>>)
      BY Zenon DEF pivotShell
    <2> QED
      BY <2>1, <2>2, Zenon
  <1>3. mode' = mode /\ panics' = panics /\ reg' = reg /\ io' = io
    BY DEF pivotShell, Same
  <1>4. /\ Top = k[1] /\ 1 \in DOMAIN k /\ DOMAIN k = 1..Len(k) /\ Len(k) \in Nat \ {0} /\ IsStack(k)
        /\ IsStack(sh) /\ OwnerIn(k, 1) = Len(sh)
    BY <1>1, Running
  <1>5. Len(sh) = 1
    BY <1>1, <1>4 DEF Inv, Shells
  <1>6. ShellOK(w) /\ w.hop = FALSE /\ w.depth = 0 /\ ~w.cap
    BY NewShellOK, Zenon
  <1> HIDE DEF w
  <1>7. /\ Slow.do = "slow" /\ Say.do = "say" /\ a.do = "idle" /\ Loop.do = "loop" /\ EndShell.do = "endShell"
        /\ FrameOK(Slow) /\ FrameOK(Say) /\ FrameOK(a) /\ FrameOK(Loop) /\ FrameOK(EndShell)
    <2>1. Slow.do = "slow" /\ Say.do = "say" /\ a.do = "idle" /\ a.min = 10 /\ Loop.do = "loop" /\ EndShell.do = "endShell"
      BY DEF Slow, Say, SetIdle, Loop, EndShell
    <2>2. Flat(Slow) /\ Flat(Say) /\ Flat(a)
      BY <2>1 DEF Flat, Effects
    <2> HIDE DEF a
    <2> QED
      BY <2>1, <2>2 DEF FrameOK
  <1> HIDE DEF a
  <1>8. /\ p \in Seq({Slow, Say, a, Loop, EndShell}) /\ Len(p) = 5 /\ DOMAIN p = 1..5
        /\ p[1] = Slow /\ p[2] = Say /\ p[3] = a /\ p[4] = Loop /\ p[5] = EndShell /\ p # <<>>
    OBVIOUS
  <1> HIDE DEF p
  <1>9. \A i \in DOMAIN p : i = 1 \/ i = 2 \/ i = 3 \/ i = 4 \/ i = 5
    BY <1>8
  <1>10. \A i \in DOMAIN p : /\ FrameOK(p[i]) /\ p[i].do \in {"slow", "say", "idle", "loop", "endShell"}
                             /\ (p[i].do = "endShell" => i = 5) /\ (p[i].do = "loop" => i = 4)
    BY <1>7, <1>8, <1>9
  <1>11. Frames1(p)
    <2>1. IsStack(p) /\ Told(p)
      BY <1>8, <1>10 DEF IsStack, Told
    <2>2. \A i \in DOMAIN p : i < 5 => i + 1 \in DOMAIN p
      BY <1>8
    <2>3. p[5].do = "endShell" /\ 4 + 1 = 5
      BY <1>7, <1>8
    <2>4. \A i \in DOMAIN p : i < 5 => Fits(p[i], p[i + 1])
      BY <1>10, <2>2, <2>3 DEF Fits
    <2> QED
      BY <1>8, <1>10, <2>1, <2>4 DEF Frames1
  <1>12. Put(k, 1, p, k')
    BY <1>1, <1>2, <1>11, OnStep DEF Frames1
  <1>13. Shape(k')
    <2>1. 1 < Len(k) /\ Fits(k[1], k[2]) /\ 1 + 1 = 2
      BY <1>1, NotLast
    <2>2. k[2].do # "endCapture"
      BY <1>1, <1>4, <2>1 DEF Fits
    <2>3. Fits(p[Len(p)], k[1 + 1]) /\ p[Len(p)].do # "line"
      BY <1>7, <1>8, <2>1, <2>2 DEF Fits
    <2> QED
      BY <1>11, <1>12, <2>1, <2>3, ShapeKept DEF Inv
  <1>14. OwnerIn(k', 1) = 2
    <2>1. IsStack(k') /\ DOMAIN k' = 1..Len(k') /\ (\A j \in DOMAIN p : j \in DOMAIN k' /\ k'[j] = p[j])
          /\ Moved(k, 1, k', 4)
      <3>1. Len(p) - 1 = 4
        BY <1>8
      <3>2. Moved(k, 1, k', Len(p) - 1)
        BY <1>12 DEF Put
      <3>3. Moved(k, 1, k', 4)
        BY <3>1, <3>2
      <3>4. IsStack(k') /\ DOMAIN k' = 1..Len(k') /\ (\A j \in DOMAIN p : j \in DOMAIN k' /\ k'[j] = p[j])
        BY <1>12, PutFacts
      <3> QED
        BY <3>3, <3>4
    <2>2. OwnerIn(k', 6) = OwnerIn(k, 2)
      <3>1. 2 \in Int /\ 2 > 1 /\ 2 + 4 = 6
        OBVIOUS
      <3>2. OwnerIn(k', 2 + 4) = OwnerIn(k, 2)
        BY <2>1, <3>1, OwnerShift
      <3> QED
        BY <3>1, <3>2
    <2>3. OwnerIn(k, 1) = OwnerIn(k, 2)
      <3>1. \A h \in DOMAIN k : h >= 1 /\ h < 2 => h = 1
        BY <1>4
      <3>2. \A h \in DOMAIN k : h >= 1 /\ h < 2 => k[h].do # "endShell"
        BY <1>1, <1>4, <3>1
      <3>3. 1 \in Int /\ 2 \in Int /\ 1 <= 2
        OBVIOUS
      <3> QED
        BY <1>4, <3>2, <3>3, OwnerRun
    <2>4. OwnerIn(k', 5) = OwnerIn(k', 6) + 1
      <3>1. 5 \in DOMAIN k' /\ k'[5].do = "endShell" /\ 5 + 1 = 6
        BY <1>7, <1>8, <2>1
      <3>2. OwnerIn(k', 5) = OwnerIn(k', 5 + 1) + 1
        BY <2>1, <3>1, OwnerFacts
      <3> QED
        BY <3>1, <3>2
    <2>5. OwnerIn(k', 1) = OwnerIn(k', 5)
      <3>1. \A h \in DOMAIN k' : h >= 1 /\ h < 5 => h \in DOMAIN p /\ h # 5
        BY <1>8, <2>1
      <3>2. \A h \in DOMAIN k' : h >= 1 /\ h < 5 => k'[h].do # "endShell"
        BY <1>10, <2>1, <3>1
      <3>3. 1 \in Int /\ 5 \in Int /\ 1 <= 5
        OBVIOUS
      <3> QED
        BY <2>1, <3>2, <3>3, OwnerRun
    <2>6. OwnerIn(k, 1) = 1
      BY <1>4, <1>5
    <2> QED
      BY <2>2, <2>3, <2>4, <2>5, <2>6
  <1>15. \A x : /\ Cardinality(Lines(k', x)) = Cardinality(Lines(k, x))
                /\ Diverted(k, x, 0) => Diverted(k', x, 0)
    <2>1. \A i \in DOMAIN k : i <= 1 => k[i].do # "endLine" /\ k[i].do # "endCapture"
      BY <1>1, TopOnly
    <2>2. \A i \in DOMAIN p : p[i].do # "endLine"
      BY <1>10
    <2> QED
      BY <1>12, <2>1, <2>2, OuterKept
  <1>16. Cardinality(Lines(k', 2)) = 0
    <2>1. \A i \in DOMAIN k : OwnerIn(k, i) # 2
      <3>1. \A i \in DOMAIN k : OwnerIn(k, i) <= OwnerIn(k, 1) /\ OwnerIn(k, i) \in Nat
        <4>1. \A i, j \in Int : i <= j => OwnerIn(k, j) <= OwnerIn(k, i)
          BY <1>4, OwnerFacts
        <4>2. \A i \in DOMAIN k : i \in Int /\ 1 <= i /\ 1 \in Int
          BY <1>4
        <4>3. \A i : OwnerIn(k, i) \in Nat
          BY <1>4, OwnerFacts
        <4> QED
          BY <4>1, <4>2, <4>3, Zenon
      <3>2. OwnerIn(k, 1) = 1
        BY <1>4, <1>5
      <3>3. \A n \in Nat : n <= 1 => n # 2
        OBVIOUS
      <3> QED
        BY <3>1, <3>2, <3>3, Zenon
    <2>2. Lines(k, 2) = {}
      BY <2>1, Zenon DEF Lines
    <2>3. Cardinality({}) = 0
      BY FS_EmptySet
    <2> QED
      BY <1>15, <2>2, <2>3, Zenon
  <1>17. IsStack(sh') /\ Len(sh') = 2 /\ DOMAIN sh' = {1, 2} /\ sh'[1] = sh[1] /\ sh'[2] = w
    <2>1. PICK S : sh \in Seq(S)
      BY <1>4 DEF IsStack
    <2>2. \A A, B : \A s \in Seq(A) : s \in Seq(A \cup B)
      OBVIOUS
    <2>3. sh \in Seq(S \cup {w})
      BY <2>1, <2>2
    <2>4. /\ sh' \in Seq(S \cup {w}) /\ Len(sh') = 2 /\ sh'[1] = sh[1] /\ sh'[2] = w
      <3> DEFINE v == Append(sh, w)
      <3>1. /\ v \in Seq(S \cup {w}) /\ Len(v) = Len(sh) + 1 /\ v[Len(sh) + 1] = w
            /\ \A i \in 1..Len(sh) : v[i] = sh[i]
        BY <2>3
      <3>2. sh' = v
        BY <1>2
      <3> HIDE DEF v
      <3>3. 1 \in 1..1 /\ 1 + 1 = 2
        OBVIOUS
      <3> QED
        BY <1>5, <3>1, <3>2, <3>3
    <2>5. DOMAIN sh' = 1..2
      BY <2>4
    <2> QED
      BY <2>4, <2>5 DEF IsStack
  <1>18. Counts(k', sh')
    <2>1. /\ ShellOK(sh[1]) /\ sh[1].hop = (1 = 1) /\ sh[1].depth = Cardinality(Lines(k, 1))
          /\ sh[1].cap => Diverted(k, 1, 0)
      <3>1. 1 \in DOMAIN sh
        BY <1>4, <1>5, StackFacts
      <3> QED
        BY <3>1, Zenon DEF Inv, Shells
    <2>2. (2 = 1) = FALSE /\ 2 <= 2
      OBVIOUS
    <2>3. ASSUME NEW i \in DOMAIN sh'
          PROVE  /\ ShellOK(sh'[i]) /\ sh'[i].hop = (i = 1)
                 /\ sh'[i].depth = Cardinality(Lines(k', i))
                 /\ sh'[i].cap => Diverted(k', i, 0)
      <3>1. CASE i = 1
        <4>1. sh'[1].depth = Cardinality(Lines(k', 1)) /\ (sh'[1].cap => Diverted(k', 1, 0))
          BY <1>15, <1>17, <2>1, Zenon
        <4> QED
          BY <1>17, <2>1, <3>1, <4>1, Zenon
      <3>2. CASE i = 2
        <4>1. sh'[2].hop = (2 = 1)
          BY <1>6, <1>17, <2>2, Zenon
        <4> QED
          BY <1>6, <1>16, <1>17, <3>2, <4>1, Zenon
      <3>3. i = 1 \/ i = 2
        BY <1>17
      <3> QED
        BY <3>1, <3>2, <3>3
    <2>4. Len(sh') = OwnerIn(k', 1) /\ Len(sh') <= 2
      BY <1>14, <1>17
    <2> QED
      BY <1>17, <2>3, <2>4, Zenon DEF Counts
  <1>19. Belong(p, k', sh')
    BY <1>10 DEF Belong, Outside
  <1>20. Shells(k', sh')
    <2>1. Shells(k, sh) /\ 1 # 0
      BY DEF Inv
    <2> QED
      BY <1>12, <1>18, <1>19, <2>1, ShellsKept
  <1>21. IoOK' /\ Bridged' /\ Owes'
    <2>1. Top.do \notin {"say", "secret", "log", "endShell"}
      BY <1>1
    <2> QED
      BY <1>1, <1>3, <2>1, Unspoken
  <1>22. held' = Len(sh')
    BY <1>2, <1>5, <1>17 DEF Inv
  <1>23. RegOK(reg)' /\ Shape(k)' /\ Shells(k, sh)'
    BY <1>3, <1>13, <1>20 DEF Inv, Shape, Shells
  <1> QED
    BY <1>3, <1>21, <1>22, <1>23 DEF Inv

LEMMA ShellEnded ==
  ASSUME Inv, endShell
  PROVE  Inv'
  <1>1. k # <<>> /\ Top.do = "endShell"
    <2>1. At("endShell")
      BY Zenon DEF endShell
    <2> QED
      BY <2>1, AtFacts
  <1>2. sh' = SubSeq(sh, 1, Len(sh) - 1) /\ held' = held - 1 /\ Go(<<>>)
    BY Zenon DEF endShell
  <1>3. mode' = mode /\ panics' = panics /\ reg' = reg /\ io' = io
    BY DEF endShell, Same
  <1>4. /\ Top = k[1] /\ 1 \in DOMAIN k /\ DOMAIN k = 1..Len(k) /\ Len(k) \in Nat \ {0} /\ IsStack(k)
        /\ IsStack(sh) /\ sh # <<>> /\ OwnerIn(k, 1) = Len(sh)
    BY <1>1, Running
  <1>5. Put(k, 1, <<>>, k')
    BY <1>1, <1>2, OnStep, NoFrames
  <1>6. Shape(k')
    BY <1>5, NoFrames, ShapeKept DEF Inv
  <1>7. OwnerIn(k', 1) = Len(sh) - 1
    <2>1. Len(<<>>) - 1 = 1 - 2 /\ 2 + (1 - 2) = 1 /\ 2 \in Int /\ 2 > 1 /\ 1 + 1 = 2
      OBVIOUS
    <2>2. Moved(k, 1, k', 1 - 2)
      BY <1>5, <2>1 DEF Put
    <2>3. OwnerIn(k', 2 + (1 - 2)) = OwnerIn(k, 2)
      BY <2>1, <2>2, OwnerShift
    <2>4. OwnerIn(k, 1) = OwnerIn(k, 1 + 1) + 1 /\ OwnerIn(k, 2) \in Nat
      BY <1>1, <1>4, OwnerFacts
    <2> QED
      BY <1>4, <2>1, <2>3, <2>4
  <1>8. \A x : /\ Cardinality(Lines(k', x)) = Cardinality(Lines(k, x))
               /\ Diverted(k, x, 0) => Diverted(k', x, 0)
    <2>1. \A i \in DOMAIN k : i <= 1 => k[i].do # "endLine" /\ k[i].do # "endCapture"
      BY <1>1, TopOnly
    <2>2. \A i \in DOMAIN <<>> : <<>>[i].do # "endLine"
      OBVIOUS
    <2> QED
      BY <1>5, <2>1, <2>2, OuterKept
  <1>9. /\ IsStack(sh') /\ Len(sh') = Len(sh) - 1 /\ Len(sh) \in Nat /\ Len(sh') <= 2
        /\ \A i \in DOMAIN sh' : i \in DOMAIN sh /\ sh'[i] = sh[i]
    <2>1. PICK S : sh \in Seq(S)
      BY <1>4 DEF IsStack
    <2>2. Len(sh) \in Nat /\ Len(sh) # 0 /\ DOMAIN sh = 1..Len(sh) /\ Len(sh) <= 2
      BY <1>4, StackFacts DEF Inv, Shells
    <2>3. sh' \in Seq(S) /\ Len(sh') = Len(sh) - 1
      BY <1>2, <2>1, <2>2
    <2>4. \A i \in 1..(Len(sh) - 1) : sh'[i] = sh[i]
      BY <1>2, <2>1, <2>2
    <2>5. DOMAIN sh' = 1..(Len(sh) - 1)
      BY <2>3
    <2>6. \A i \in 1..(Len(sh) - 1) : i \in 1..Len(sh)
      BY <2>2
    <2> QED
      BY <2>2, <2>3, <2>4, <2>5, <2>6 DEF IsStack
  <1>10. Counts(k', sh')
    <2>1. ASSUME NEW i \in DOMAIN sh'
          PROVE  /\ ShellOK(sh'[i]) /\ sh'[i].hop = (i = 1)
                 /\ sh'[i].depth = Cardinality(Lines(k', i))
                 /\ sh'[i].cap => Diverted(k', i, 0)
      <3>1. i \in DOMAIN sh /\ sh'[i] = sh[i]
        BY <1>9
      <3>2. /\ ShellOK(sh[i]) /\ sh[i].hop = (i = 1)
            /\ sh[i].depth = Cardinality(Lines(k, i))
            /\ sh[i].cap => Diverted(k, i, 0)
        BY <3>1, Zenon DEF Inv, Shells
      <3> QED
        BY <1>8, <3>1, <3>2, Zenon
    <2>2. Len(sh') = OwnerIn(k', 1)
      BY <1>7, <1>9
    <2> QED
      BY <1>9, <2>1, <2>2, Zenon DEF Counts
  <1>11. Shells(k', sh')
    <2>1. Shells(k, sh) /\ Belong(<<>>, k', sh') /\ 1 # 0
      BY NoFrames DEF Inv
    <2> QED
      BY <1>5, <1>10, <2>1, ShellsKept
  <1>12. Bridged'
    <2>1. \A j \in DOMAIN k' : \E i \in DOMAIN k : k'[j] = k[i]
      <3>1. \A j \in DOMAIN k' : j > Len(<<>>) =>
              j - (Len(<<>>) - 1) \in DOMAIN k /\ k'[j] = k[j - (Len(<<>>) - 1)]
        BY <1>5, PutFacts
      <3>2. \A j \in DOMAIN k' : j > Len(<<>>)
        <4>1. DOMAIN k' = 1..Len(k')
          BY <1>5, PutFacts
        <4> QED
          BY <4>1
      <3> QED
        BY <3>1, <3>2
    <2> QED
      BY <1>3, <2>1 DEF Inv, Bridged
  <1>13. IoOK' /\ Owes'
    <2>1. Top.do \notin {"say", "secret", "log"}
      BY <1>1
    <2>2. ~(panics = 0 /\ io.owed)
      BY <1>1, <2>1, NotOwing
    <2> QED
      BY <1>3, <2>2 DEF Inv, IoOK, Owes
  <1>14. held' = Len(sh')
    BY <1>2, <1>9 DEF Inv
  <1>15. RegOK(reg)' /\ Shape(k)' /\ Shells(k, sh)'
    BY <1>3, <1>6, <1>11 DEF Inv, Shape, Shells
  <1> QED
    BY <1>3, <1>12, <1>13, <1>14, <1>15 DEF Inv

-----------------------------------------------------------------------------
(* A panic stops at the innermost line.                                    *)

LEMMA Recovers ==
  ASSUME Inv, k # <<>>, Frames("endLine") # {}, Top.do \notin {"line", "endLine", "endCapture"}
  PROVE  /\ Recover \in DOMAIN k /\ Recover > 1 /\ Recover \in Nat /\ k[Recover].do = "endLine"
         /\ \A i \in DOMAIN k : i <= Recover - 1 => k[i].do # "endLine" /\ k[i].do # "endCapture"
  <1>1. /\ Top = k[1] /\ 1 \in DOMAIN k /\ DOMAIN k = 1..Len(k) /\ Len(k) \in Nat \ {0} /\ IsStack(k)
    BY Running
  <1> DEFINE T == Frames("endLine")
             R == Recover
  <1>2. T \in SUBSET Nat /\ \A i \in T : i \in DOMAIN k /\ k[i].do = "endLine"
    BY <1>1 DEF Frames
  <1>3. \E i \in T : \A j \in T : i <= j
    BY <1>2, LeastNat
  <1>4. R \in T /\ \A j \in T : R <= j
    BY <1>3, Zenon DEF Recover
  <1>5. \A i \in DOMAIN k : k[i].do = "endLine" => i \in T
    BY DEF Frames
  <1> HIDE DEF T, R
  <1>6. R \in DOMAIN k /\ R \in Nat /\ k[R].do = "endLine"
    BY <1>2, <1>4
  <1>7. R > 1
    <2>1. R # 1
      BY <1>1, <1>6
    <2> QED
      BY <1>1, <1>6, <2>1
  <1>8. ASSUME NEW i \in DOMAIN k, i <= R - 1 PROVE k[i].do # "endLine"
    <2>1. i \in Int /\ ~(R <= i)
      BY <1>1, <1>6, <1>8
    <2> QED
      BY <1>4, <1>5, <2>1
  <1>9. ASSUME NEW i \in DOMAIN k, i <= R - 1, k[i].do = "endCapture" PROVE FALSE
    <2>1. i # 1
      BY <1>1, <1>9
    <2> DEFINE h == i - 1
    <2>2. h \in DOMAIN k /\ h < Len(k) /\ h + 1 = i /\ h <= R - 1 /\ i \in Int
      BY <1>1, <1>6, <1>9, <2>1
    <2> HIDE DEF h
    <2>3. Fits(k[h], k[i])
      <3>1. Fits(k[h], k[h + 1])
        BY <2>2, Zenon DEF Inv, Shape
      <3> QED
        BY <2>2, <3>1
    <2>4. k[h].do = "line"
      <3>1. k[h].do \in {"endLine", "line"}
        BY <1>9, <2>3 DEF Fits
      <3>2. k[h].do # "endLine"
        BY <1>8, <2>2
      <3> QED
        BY <3>1, <3>2
    <2>5. h # 1
      BY <1>1, <2>4
    <2>6. i > 2 /\ i - 1 = h
      BY <1>1, <2>2, <2>5
    <2>7. k[i - 1].do # "line"
      BY <1>9, <2>6 DEF Inv, Shape
    <2> QED
      BY <2>4, <2>6, <2>7
  <1> QED
    BY <1>6, <1>7, <1>8, <1>9 DEF R

\* The shells that end before it, and the others.
LEMMA LeftAndKept ==
  ASSUME NEW R \in Nat, IsStack(k), Left = Cardinality({i \in Frames("endShell") : i < R})
  PROVE  Left \in Nat /\ OwnerIn(k, 1) = Left + OwnerIn(k, R)
  <1> DEFINE A == {j \in DOMAIN k : k[j].do = "endShell" /\ j >= 1}
             B == {j \in DOMAIN k : k[j].do = "endShell" /\ j >= R}
             L == {i \in Frames("endShell") : i < R}
  <1>1. DOMAIN k = 1..Len(k) /\ Len(k) \in Nat
    BY StackFacts
  <1>2. L = {j \in DOMAIN k : k[j].do = "endShell" /\ j < R}
    BY DEF Frames
  <1>3. \A j \in DOMAIN k : j >= 1 /\ (j < R \/ j >= R) /\ ~(j < R /\ j >= R)
    BY <1>1
  <1>4. OwnerIn(k, 1) = Cardinality(A) /\ OwnerIn(k, R) = Cardinality(B) /\ Left = Cardinality(L)
    BY DEF OwnerIn
  <1>5. A = L \cup B /\ L \cap B = {} /\ L \in SUBSET DOMAIN k /\ B \in SUBSET DOMAIN k
    BY <1>2, <1>3
  <1> HIDE DEF A, B, L
  <1>6. IsFiniteSet(L) /\ Cardinality(L) \in Nat /\ IsFiniteSet(B) /\ Cardinality(B) \in Nat
    BY <1>5, FramesFinite
  <1>7. Cardinality(L \cup B) = Cardinality(L) + Cardinality(B)
    <2>1. Cardinality({}) = 0
      BY FS_EmptySet
    <2>2. Cardinality(L \cup B) = Cardinality(L) + Cardinality(B) - Cardinality(L \cap B)
      BY <1>6, FS_Union
    <2>3. Cardinality(L \cap B) = 0
      BY <1>5, <2>1, Zenon
    <2>4. \A a, b \in Nat : a + b - 0 = a + b
      OBVIOUS
    <2> QED
      BY <1>6, <2>2, <2>3, <2>4, Zenon
  <1> QED
    BY <1>4, <1>5, <1>6, <1>7

LEMMA PrefixKept ==
  ASSUME NEW s, IsStack(s), NEW m \in Nat, m <= Len(s)
  PROVE  /\ IsStack(SubSeq(s, 1, m)) /\ Len(SubSeq(s, 1, m)) = m
         /\ \A i \in DOMAIN SubSeq(s, 1, m) : i \in DOMAIN s /\ SubSeq(s, 1, m)[i] = s[i]
  <1>1. PICK S : s \in Seq(S)
    BY DEF IsStack
  <1>2. Len(s) \in Nat /\ DOMAIN s = 1..Len(s)
    BY StackFacts
  <1> DEFINE t == SubSeq(s, 1, m)
  <1>3. t \in Seq(S) /\ Len(t) = m
    BY <1>1, <1>2
  <1>4. \A i \in 1..m : t[i] = s[i]
    BY <1>1, <1>2
  <1> HIDE DEF t
  <1>5. DOMAIN t = 1..m
    BY <1>3
  <1>6. \A i \in 1..m : i \in 1..Len(s)
    BY <1>2
  <1>7. IsStack(t) /\ Len(t) = m /\ \A i \in DOMAIN t : i \in DOMAIN s /\ t[i] = s[i]
    BY <1>2, <1>3, <1>4, <1>5, <1>6 DEF IsStack
  <1> QED
    BY <1>7 DEF t

LEMMA Panicked ==
  ASSUME Inv, panic
  PROVE  Inv'
  <1>1. Frames("endLine") # {} /\ Top.do \notin {"line", "endLine", "endCapture"}
    BY Zenon DEF panic
  <1>2. /\ panics' = panics + 1 /\ sh' = SubSeq(sh, 1, Len(sh) - Left) /\ held' = held - Left
        /\ k' = <<Say>> \o SubSeq(k, Recover, Len(k))
    BY Zenon DEF panic, Released
  <1>3. mode' = mode /\ reg' = reg /\ io' = io
    BY DEF panic, Same
  <1>4. IsStack(k) /\ k # <<>>
    <2>1. IsStack(k)
      BY DEF Inv, Shape
    <2>2. DOMAIN <<>> = {}
      OBVIOUS
    <2>3. k = <<>> => Frames("endLine") = {}
      BY <2>2 DEF Frames
    <2> QED
      BY <1>1, <2>1, <2>3
  <1>5. /\ Top = k[1] /\ 1 \in DOMAIN k /\ DOMAIN k = 1..Len(k) /\ Len(k) \in Nat
        /\ IsStack(sh) /\ OwnerIn(k, 1) = Len(sh) /\ Len(sh) \in DOMAIN sh
    BY <1>4, Running
  <1> DEFINE R == Recover
             n == R - 1
             p == <<Say>>
  <1>6. /\ R \in DOMAIN k /\ R > 1 /\ R \in Nat /\ k[R].do = "endLine"
        /\ \A i \in DOMAIN k : i <= n => k[i].do # "endLine" /\ k[i].do # "endCapture"
    BY <1>1, <1>4, Recovers
  <1>7. Left \in Nat /\ OwnerIn(k, 1) = Left + OwnerIn(k, R)
    BY <1>4, <1>6, LeftAndKept DEF Left
  <1>8. k' = p \o SubSeq(k, R, Len(k))
    BY <1>2
  <1> HIDE DEF R
  <1>9. n \in Nat /\ n # 0 /\ n + 1 = R /\ n < Len(k) /\ n <= Len(k)
    BY <1>5, <1>6
  <1>10. /\ p \in Seq({Say}) /\ Len(p) = 1 /\ DOMAIN p = {1} /\ p[1] = Say /\ p # <<>>
    OBVIOUS
  <1>11. Say.do = "say" /\ FrameOK(Say)
    <2>1. Say.do = "say"
      BY DEF Say
    <2> QED
      BY <2>1 DEF FrameOK, Flat, Effects
  <1> HIDE DEF p, n
  <1>12. Frames1(p)
    <2>1. IsStack(p) /\ Told(p)
      BY <1>10, <1>11 DEF IsStack, Told
    <2> QED
      BY <1>10, <1>11, <2>1 DEF Frames1
  <1>13. Put(k, n, p, k')
    <2>1. Put(k, n, p, p \o SubSeq(k, n + 1, Len(k)))
      BY <1>4, <1>9, <1>12, SplicedPut DEF Frames1
    <2> QED
      BY <1>8, <1>9, <2>1
  <1>14. Shape(k')
    <2>1. Fits(p[Len(p)], k[n + 1]) /\ ~(Len(p) > 1)
      BY <1>6, <1>9, <1>10, <1>11 DEF Fits
    <2> QED
      BY <1>9, <1>12, <1>13, <2>1, ShapeKept DEF Inv
  <1>15. OwnerIn(k', 1) = OwnerIn(k, R)
    <2> DEFINE d == Len(p) - n
    <2>1. R \in Int /\ R > n /\ R + d = 2
      BY <1>6, <1>9, <1>10
    <2>2. Moved(k, n, k', d)
      BY <1>13 DEF Put
    <2> HIDE DEF d
    <2>3. OwnerIn(k', R + d) = OwnerIn(k, R)
      BY <2>1, <2>2, OwnerShift
    <2>4. IsStack(k') /\ DOMAIN k' = 1..Len(k') /\ k'[1] = Say
      BY <1>10, <1>13, PutFacts
    <2>5. \A h \in DOMAIN k' : h >= 1 /\ h < 2 => h = 1
      BY <2>4
    <2>6. \A h \in DOMAIN k' : h >= 1 /\ h < 2 => k'[h].do # "endShell"
      BY <1>11, <2>4, <2>5
    <2>7. 1 \in Int /\ 2 \in Int /\ 1 <= 2
      OBVIOUS
    <2>8. OwnerIn(k', 1) = OwnerIn(k', 2)
      BY <2>4, <2>6, <2>7, OwnerRun
    <2> QED
      BY <2>1, <2>3, <2>8
  <1> DEFINE m == Len(sh) - Left
  <1>16. m \in Nat /\ m <= Len(sh) /\ m = OwnerIn(k, R) /\ Len(sh) <= 2 /\ Len(sh) \in Nat
    <2>1. OwnerIn(k, R) \in Nat
      BY <1>4, OwnerFacts
    <2>2. Len(sh) <= 2 /\ Len(sh) \in Nat
      BY <1>5, StackFacts DEF Inv, Shells
    <2> QED
      BY <1>5, <1>7, <2>1, <2>2
  <1>17. sh' = SubSeq(sh, 1, m)
    BY <1>2
  <1>18. m <= 2 /\ held' = m
    BY <1>2, <1>16 DEF Inv
  <1> HIDE DEF m
  <1>19. /\ IsStack(sh') /\ Len(sh') = m /\ \A i \in DOMAIN sh' : i \in DOMAIN sh /\ sh'[i] = sh[i]
    BY <1>5, <1>16, <1>17, PrefixKept
  <1>20. \A x : /\ Cardinality(Lines(k', x)) = Cardinality(Lines(k, x))
                /\ Diverted(k, x, 0) => Diverted(k', x, 0)
    <2>1. \A i \in DOMAIN p : p[i].do # "endLine"
      BY <1>10, <1>11
    <2> QED
      BY <1>6, <1>13, <2>1, OuterKept
  <1>21. Counts(k', sh')
    <2>1. ASSUME NEW i \in DOMAIN sh'
          PROVE  /\ ShellOK(sh'[i]) /\ sh'[i].hop = (i = 1)
                 /\ sh'[i].depth = Cardinality(Lines(k', i))
                 /\ sh'[i].cap => Diverted(k', i, 0)
      <3>1. i \in DOMAIN sh /\ sh'[i] = sh[i]
        BY <1>19
      <3>2. /\ ShellOK(sh[i]) /\ sh[i].hop = (i = 1)
            /\ sh[i].depth = Cardinality(Lines(k, i))
            /\ sh[i].cap => Diverted(k, i, 0)
        BY <3>1, Zenon DEF Inv, Shells
      <3> QED
        BY <1>20, <3>1, <3>2, Zenon
    <2>2. Len(sh') = OwnerIn(k', 1) /\ Len(sh') <= 2
      BY <1>15, <1>16, <1>18, <1>19
    <2> QED
      BY <1>19, <2>1, <2>2, Zenon DEF Counts
  <1>22. Shells(k', sh')
    <2>1. Shells(k, sh)
      BY DEF Inv
    <2>2. Belong(p, k', sh')
      BY <1>10, <1>11 DEF Belong, Outside
    <2> QED
      BY <1>9, <1>13, <1>21, <2>1, <2>2, ShellsKept
  <1>23. Bridged'
    <2>1. mode = "bridge" => io.cap /\ ~io.wire /\ ~io.slept /\ ~io.waited
      BY <1>4, <1>6, Capturing
    <2> QED
      BY <1>3, <2>1 DEF Bridged
  <1>24. Owes' /\ panics' \in Nat
    <2>1. panics \in Nat
      BY DEF Inv
    <2>2. panics' # 0 /\ panics' \in Nat
      BY <1>2, <2>1
    <2> QED
      BY <2>2 DEF Owes
  <1>25. IoOK' /\ RegOK(reg)' /\ Shape(k)' /\ Shells(k, sh)' /\ held' = Len(sh')
    BY <1>3, <1>14, <1>18, <1>19, <1>22 DEF Inv, Shape, Shells, IoOK
  <1> QED
    BY <1>3, <1>23, <1>24, <1>25 DEF Inv

-----------------------------------------------------------------------------
(* The stacks a shell starts with.                                         *)

FirstShell == <<NewShell(TRUE)>>

LEMMA Started ==
  ASSUME NEW s, IsStack(s), s # <<>>, \A i \in DOMAIN s : FrameOK(s[i]),
         \A i \in DOMAIN s : i < Len(s) => Fits(s[i], s[i + 1]),
         s[Len(s)].do = "endShell",
         \A i \in DOMAIN s : s[i].do = "endShell" => i = Len(s),
         \A i \in DOMAIN s : s[i].do = "endOutput" => i = Len(s) - 1,
         \A i \in DOMAIN s : s[i].do \in Outside \/ (i = 1 /\ s[i].do = "line"),
         \A i \in DOMAIN s : s[i].do # "endLine"
  PROVE  Shape(s) /\ Shells(s, FirstShell)
  <1>1. Len(s) \in Nat /\ DOMAIN s = 1..Len(s) /\ Len(s) \in DOMAIN s
    BY StackFacts
  <1>2. \A i \in DOMAIN s : s[i].do \notin {"secret", "endCapture", "pivot"}
    BY DEF Outside
  <1>3. Shape(s)
    BY <1>2 DEF Shape, Told
  <1>4. OwnerIn(s, 1) = 1
    <2> DEFINE e == Len(s)
    <2>1. OwnerIn(s, e) = OwnerIn(s, e + 1) + 1
      BY <1>1, OwnerFacts
    <2>2. OwnerIn(s, e + 1) = 0
      <3>1. \A j \in DOMAIN s : ~(j >= e + 1)
        BY <1>1
      <3>2. {j \in DOMAIN s : s[j].do = "endShell" /\ j >= e + 1} = {}
        BY <3>1
      <3>3. Cardinality({}) = 0
        BY FS_EmptySet
      <3> QED
        BY <3>2, <3>3, Zenon DEF OwnerIn
    <2>3. OwnerIn(s, 1) = OwnerIn(s, e)
      <3>1. \A h \in DOMAIN s : h >= 1 /\ h < e => s[h].do # "endShell"
        BY <1>1
      <3>2. 1 \in Int /\ e \in Int /\ 1 <= e
        BY <1>1
      <3> HIDE DEF e
      <3> QED
        BY <3>1, <3>2, OwnerRun
    <2> HIDE DEF e
    <2> QED
      BY <2>1, <2>2, <2>3
  <1>5. \A m : Cardinality(Lines(s, m)) = 0
    <2>1. \A m : Lines(s, m) = {}
      BY DEF Lines
    <2>2. Cardinality({}) = 0
      BY FS_EmptySet
    <2> QED
      BY <2>1, <2>2, Zenon
  <1> DEFINE w == NewShell(TRUE)
             m == <<w>>
  <1>6. ShellOK(w) /\ w.hop = TRUE /\ w.depth = 0 /\ ~w.cap /\ w.taken = 0 /\ w.ran = 0
    BY NewShellOK, Zenon
  <1> HIDE DEF w
  <1>7. m \in Seq({w}) /\ Len(m) = 1 /\ DOMAIN m = {1} /\ m[1] = w
    OBVIOUS
  <1> HIDE DEF m
  <1>8. IsStack(m) /\ Len(m) = OwnerIn(s, 1) /\ Len(m) <= 2
    BY <1>4, <1>7 DEF IsStack
  <1>9. ASSUME NEW i \in DOMAIN m
        PROVE  /\ ShellOK(m[i]) /\ m[i].hop = (i = 1)
               /\ m[i].depth = Cardinality(Lines(s, i))
               /\ m[i].cap => Diverted(s, i, 0)
    <2>1. i = 1 /\ m[i] = w
      BY <1>7
    <2>2. w.hop = (i = 1)
      BY <1>6, <2>1, Zenon
    <2> QED
      BY <1>5, <1>6, <2>1, <2>2, Zenon
  <1>10. ASSUME NEW i \in DOMAIN s
         PROVE  /\ s[i].do # "pivot" /\ s[i].do # "endCapture"
                /\ s[i].do \notin Outside => Fresher(s, m, i)
    BY <1>2, <1>6, <1>7 DEF Fresher
  <1>11. Shells(s, m)
    BY <1>8, <1>9, <1>10, Zenon DEF Shells
  <1> QED
    BY <1>3, <1>11, Zenon DEF m, w, FirstShell

LEMMA Entries ==
  \A x, l, s : x \in {"terminal", "exec", "bridge"} /\ s = Entry(x, l) =>
                Shape(s) /\ Shells(s, FirstShell)
  <1> SUFFICES ASSUME NEW x, NEW l, NEW s, x \in {"terminal", "exec", "bridge"}, s = Entry(x, l)
               PROVE  Shape(s) /\ Shells(s, FirstShell)
    OBVIOUS
  <1>1. /\ Entry("terminal", l) = welcome \o loop \o <<EndShell>>
        /\ Entry("exec", l) = <<RunLine(l), EndShell>>
        /\ Entry("bridge", l) = <<RunLine(l), EndOutput, EndShell>>
    BY DEF Entry
  <1> DEFINE a == SetIdle(10)
             r == RunLine(l)
  <1>2. /\ Slow.do = "slow" /\ Say.do = "say" /\ a.do = "idle" /\ Loop.do = "loop" /\ EndShell.do = "endShell"
        /\ r.do = "line" /\ EndOutput.do = "endOutput"
        /\ FrameOK(Slow) /\ FrameOK(Say) /\ FrameOK(a) /\ FrameOK(Loop) /\ FrameOK(EndShell)
        /\ FrameOK(r) /\ FrameOK(EndOutput)
    <2>1. /\ Slow.do = "slow" /\ Say.do = "say" /\ a.do = "idle" /\ a.min = 10 /\ Loop.do = "loop"
          /\ EndShell.do = "endShell" /\ r.do = "line" /\ EndOutput.do = "endOutput"
      BY DEF Slow, Say, SetIdle, Loop, EndShell, RunLine, EndOutput
    <2>2. Flat(Slow) /\ Flat(Say) /\ Flat(a) /\ Flat(r)
      BY <2>1 DEF Flat, Effects
    <2> HIDE DEF a, r
    <2> QED
      BY <2>1, <2>2 DEF FrameOK
  <1>3. CASE x = "terminal"
    <2> DEFINE p == <<Slow, Say, a, Loop, EndShell>>
    <2>1. s = p
      BY <1>1, <1>3, Welcomed DEF welcome, loop
    <2> HIDE DEF a
    <2>2. /\ p \in Seq({Slow, Say, a, Loop, EndShell}) /\ Len(p) = 5 /\ DOMAIN p = 1..5
          /\ p[1] = Slow /\ p[2] = Say /\ p[3] = a /\ p[4] = Loop /\ p[5] = EndShell /\ p # <<>>
      OBVIOUS
    <2> HIDE DEF p
    <2>3. \A i \in DOMAIN p : i = 1 \/ i = 2 \/ i = 3 \/ i = 4 \/ i = 5
      BY <2>2
    <2>4. \A i \in DOMAIN p : /\ FrameOK(p[i]) /\ p[i].do \in {"slow", "say", "idle", "loop", "endShell"}
                              /\ (p[i].do = "endShell" => i = 5) /\ (p[i].do = "loop" => i = 4)
      BY <1>2, <2>2, <2>3
    <2>5. \A i \in DOMAIN p : i < 5 => i + 1 \in DOMAIN p
      BY <2>2
    <2>6. p[5].do = "endShell" /\ 4 + 1 = 5 /\ IsStack(p)
      BY <1>2, <2>2 DEF IsStack
    <2>7. \A i \in DOMAIN p : i < 5 => Fits(p[i], p[i + 1])
      BY <2>4, <2>5, <2>6 DEF Fits
    <2>8. \A i \in DOMAIN p : p[i].do \in Outside /\ p[i].do # "endOutput" /\ p[i].do # "endLine"
      BY <2>4 DEF Outside
    <2>9. Shape(p) /\ Shells(p, FirstShell)
      BY <2>2, <2>4, <2>6, <2>7, <2>8, Started
    <2> QED
      BY <2>1, <2>9
  <1> HIDE DEF r
  <1>4. CASE x = "exec"
    <2> DEFINE p == <<r, EndShell>>
    <2>1. s = p
      BY <1>1, <1>4 DEF r
    <2>2. /\ p \in Seq({r, EndShell}) /\ Len(p) = 2 /\ DOMAIN p = {1, 2}
          /\ p[1] = r /\ p[2] = EndShell /\ p # <<>>
      OBVIOUS
    <2> HIDE DEF p
    <2>3. \A i \in DOMAIN p : i = 1 \/ i = 2
      BY <2>2
    <2>4. IsStack(p) /\ Fits(r, EndShell) /\ 1 + 1 = 2
      BY <1>2, <2>2 DEF IsStack, Fits
    <2>5. \A i \in DOMAIN p : FrameOK(p[i]) /\ (i < Len(p) => Fits(p[i], p[i + 1]))
      BY <1>2, <2>2, <2>3, <2>4
    <2>6. \A i \in DOMAIN p : /\ p[i].do \in Outside \/ (i = 1 /\ p[i].do = "line")
                              /\ p[i].do # "endOutput" /\ p[i].do # "endLine"
                              /\ p[i].do = "endShell" => i = Len(p)
      BY <1>2, <2>2, <2>3 DEF Outside
    <2>7. p[Len(p)].do = "endShell"
      BY <1>2, <2>2
    <2>8. Shape(p) /\ Shells(p, FirstShell)
      BY <2>2, <2>4, <2>5, <2>6, <2>7, Started
    <2> QED
      BY <2>1, <2>8
  <1>5. CASE x = "bridge"
    <2> DEFINE p == <<r, EndOutput, EndShell>>
    <2>1. s = p
      BY <1>1, <1>5 DEF r
    <2>2. /\ p \in Seq({r, EndOutput, EndShell}) /\ Len(p) = 3 /\ DOMAIN p = {1, 2, 3}
          /\ p[1] = r /\ p[2] = EndOutput /\ p[3] = EndShell /\ p # <<>>
      OBVIOUS
    <2> HIDE DEF p
    <2>3. \A i \in DOMAIN p : i = 1 \/ i = 2 \/ i = 3
      BY <2>2
    <2>4. IsStack(p) /\ Fits(r, EndOutput) /\ Fits(EndOutput, EndShell) /\ 1 + 1 = 2 /\ 2 + 1 = 3
      BY <1>2, <2>2 DEF IsStack, Fits
    <2>5. \A i \in DOMAIN p : FrameOK(p[i]) /\ (i < Len(p) => Fits(p[i], p[i + 1]))
      BY <1>2, <2>2, <2>3, <2>4
    <2>6. \A i \in DOMAIN p : /\ p[i].do \in Outside \/ (i = 1 /\ p[i].do = "line")
                              /\ p[i].do = "endOutput" => i = Len(p) - 1
                              /\ p[i].do # "endLine"
                              /\ p[i].do = "endShell" => i = Len(p)
      BY <1>2, <2>2, <2>3 DEF Outside
    <2>7. p[Len(p)].do = "endShell"
      BY <1>2, <2>2
    <2>8. Shape(p) /\ Shells(p, FirstShell)
      BY <2>2, <2>4, <2>5, <2>6, <2>7, Started
    <2> QED
      BY <2>1, <2>8
  <1> QED
    BY <1>3, <1>4, <1>5

LEMMA InitInv == Init => Inv
  <1> SUFFICES ASSUME Init PROVE Inv
    OBVIOUS
  <1>1. /\ mode \in {"terminal", "exec", "bridge"} /\ sh = FirstShell /\ reg = NoReg
        /\ panics = 0 /\ held = 1 /\ \E l : k = Entry(mode, l)
    BY Zenon DEF Init, FirstShell
  <1>2. Shape(k) /\ Shells(k, sh)
    <2>1. PICK l : k = Entry(mode, l)
      BY <1>1
    <2>2. Shape(k) /\ Shells(k, FirstShell)
      <3>1. mode \in {"terminal", "exec", "bridge"}
        BY <1>1
      <3> QED
        BY <2>1, <3>1, Entries, Zenon
    <2> QED
      BY <1>1, <2>2, Zenon
  <1> DEFINE b == (mode = "bridge")
  <1>3. /\ io = [alive |-> TRUE, cap |-> b, idle |-> 10, wire |-> FALSE,
                 slept |-> FALSE, waited |-> FALSE, owed |-> FALSE]
        /\ mode = "bridge" => b
    BY Zenon DEF Init
  <1> HIDE DEF b
  <1>4. io.cap = b /\ io.idle = 10 /\ io.wire = FALSE /\ io.slept = FALSE /\ io.waited = FALSE /\ io.owed = FALSE
    BY <1>3
  <1>5. IoOK
    BY <1>3 DEF IoOK
  <1>6. Bridged /\ Owes
    BY <1>3, <1>4 DEF Bridged, Owes
  <1>7. RegOK(reg) /\ held = Len(sh) /\ panics \in Nat
    <2>1. \A w : Len(<<w>>) = 1
      OBVIOUS
    <2>2. Len(FirstShell) = 1
      BY <2>1, Zenon DEF FirstShell
    <2> QED
      BY <1>1, <2>2, NoRegOK
  <1> QED
    BY <1>1, <1>2, <1>5, <1>6, <1>7 DEF Inv

-----------------------------------------------------------------------------
(* Every step keeps the invariant.                                         *)

LEMMA NextInv == Inv /\ [Next]_vars => Inv'
  <1> SUFFICES ASSUME Inv, [Next]_vars PROVE Inv'
    OBVIOUS
  <1>1. CASE runLine
    BY <1>1, LineRefused, LineEntered
  <1>2. CASE endLine
    BY <1>2, LineLeft
  <1>3. CASE nextStatement \/ chain \/ assign
    BY <1>3, Statements1
  <1>4. CASE single \/ interactive \/ pipe \/ stage
    BY <1>4, Statements2
  <1>5. CASE setLast \/ quit \/ setCron \/ remove \/ writeFile
    BY <1>5, Effects1
  <1>6. CASE say \/ slowWrite \/ pause \/ logEvent \/ setIdle
    BY <1>6, Effects2
  <1>7. CASE returns \/ outputs \/ feed \/ command
    BY <1>7, Effects3
  <1>8. CASE decode \/ walkFind \/ branch
    BY <1>8, Programs1
  <1>9. CASE emit
    BY <1>9, Emits
  <1>10. CASE expand
    BY <1>10, ExpandPlain, SubBegun
  <1>11. CASE expanded
    BY <1>11, Expanded1
  <1>12. CASE endCapture
    BY <1>12, SubEnded
  <1>13. CASE pivotShell
    BY <1>13, ShellBegun
  <1>14. CASE endShell
    BY <1>14, ShellEnded
  <1>15. CASE endOutput
    BY <1>15, OutputTaken
  <1>16. CASE leaveLoop \/ readNothing \/ readTimeout
    BY <1>16, Reads1
  <1>17. CASE typeLine
    BY <1>17, LineTyped
  <1>18. CASE typeAnswer
    BY <1>18, Reads2
  <1>19. CASE hangUp
    BY <1>19, Unplugged
  <1>20. CASE panic
    BY <1>20, Panicked
  <1>21. CASE UNCHANGED vars
    <2>1. mode' = mode /\ k' = k /\ sh' = sh /\ reg' = reg /\ io' = io /\ panics' = panics /\ held' = held
      BY <1>21 DEF vars
    <2> QED
      BY <2>1, Zenon DEF Inv, IoOK, Bridged, Owes
  <1>22. Done => UNCHANGED vars
    BY Zenon DEF Done
  <1> QED
    BY <1>1, <1>2, <1>3, <1>4, <1>5, <1>6, <1>7, <1>8, <1>9, <1>10, <1>11, <1>12, <1>13, <1>14,
       <1>15, <1>16, <1>17, <1>18, <1>19, <1>20, <1>21, <1>22, Zenon DEF Next, Step

\* The stack, the shells, the session and their locals keep together.
THEOREM ShellInvariant == Spec => []Inv
  <1> QED
    BY InitInv, NextInv, PTL DEF Spec

-----------------------------------------------------------------------------
(* What follows from it.                                                   *)

LEMMA InvTypes == Inv => TypeOK
  <1> SUFFICES ASSUME Inv PROVE TypeOK
    OBVIOUS
  <1>1. mode \in {"terminal", "exec", "bridge"} /\ io.idle \in {5, 10}
    BY DEF Inv, IoOK
  <1>2. ASSUME NEW i \in DOMAIN sh
        PROVE  /\ sh[i].depth \in Nat /\ sh[i].budget \in 0..MaxExpand /\ sh[i].last \in 0..255
               /\ \A x \in Vars : sh[i].env[x].len \in Nat
               /\ \A f \in Files : sh[i].files[f].len >= -1
    <2> DEFINE me == sh[i]
    <2>1. ShellOK(me)
      BY DEF Inv, Shells
    <2> HIDE DEF me
    <2>2. /\ me.depth \in 0..MaxDepth /\ me.budget \in 0..MaxExpand /\ me.last \in 0..255
          /\ \A x \in Vars : me.env[x].len \in Nat
          /\ \A f \in Files : me.files[f].len >= -1
      BY <2>1 DEF ShellOK
    <2>3. me.depth \in Nat
      BY <2>2, LimitsAssumption
    <2> QED
      BY <2>2, <2>3 DEF me
  <1>3. ASSUME NEW i \in Frames("walk") PROVE k[i].count \in 0..(MaxFind + 1)
    <2> DEFINE f == k[i]
    <2>1. f.do = "walk" /\ FrameOK(f)
      BY DEF Frames, Inv, Shape
    <2> HIDE DEF f
    <2>2. ~Branch1(f)
      BY <2>1, BranchKinds
    <2>3. Flat(f)
      BY <2>1, <2>2 DEF FrameOK, Control
    <2>4. f.count \in 0..(MaxFind + 1)
      BY <2>1, <2>3 DEF Flat
    <2> QED
      BY <2>4 DEF f
  <1> QED
    BY <1>1, <1>2, <1>3, Zenon DEF TypeOK

LEMMA InvNesting == Inv => NestingBounded
  <1> SUFFICES ASSUME Inv PROVE NestingBounded
    OBVIOUS
  <1>1. \A i : Owner(i) = OwnerIn(k, i)
    <2>1. \A i : {j \in Frames("endShell") : j >= i} = {j \in DOMAIN k : k[j].do = "endShell" /\ j >= i}
      BY DEF Frames
    <2> QED
      BY <2>1, Zenon DEF Owner, OwnerIn
  <1>2. \A m : {j \in Frames("endLine") : Owner(j) = m} = Lines(k, m)
    BY <1>1 DEF Frames, Lines
  <1>3. Len(sh) <= 2
    BY DEF Inv, Shells
  <1>4. ASSUME NEW i \in DOMAIN sh
        PROVE  /\ sh[i].depth <= MaxDepth
               /\ sh[i].depth = Cardinality({j \in Frames("endLine") : Owner(j) = i})
    <2> DEFINE me == sh[i]
    <2>1. ShellOK(me) /\ me.depth = Cardinality(Lines(k, i))
      BY DEF Inv, Shells
    <2> HIDE DEF me
    <2>2. me.depth \in 0..MaxDepth /\ MaxDepth \in Nat
      BY <2>1, LimitsAssumption DEF ShellOK
    <2>3. me.depth <= MaxDepth
      BY <2>2
    <2> QED
      BY <1>2, <2>1, <2>3, Zenon DEF me
  <1> QED
    BY <1>3, <1>4, Zenon DEF NestingBounded

LEMMA InvExpansion == Inv => ExpansionBounded
  <1> SUFFICES ASSUME Inv, NEW i \in DOMAIN sh PROVE sh[i].taken <= MaxExpand /\ sh[i].ran <= MaxSubs
    BY DEF ExpansionBounded
  <1> DEFINE me == sh[i]
  <1>1. ShellOK(me)
    BY DEF Inv, Shells
  <1> HIDE DEF me
  <1>2. /\ me.taken \in Nat /\ me.budget \in 0..MaxExpand /\ me.taken + me.budget <= MaxExpand /\ me.ran <= MaxSubs
        /\ MaxExpand \in Nat
    BY <1>1, LimitsAssumption DEF ShellOK
  <1>3. me.taken <= MaxExpand
    BY <1>2
  <1> QED
    BY <1>2, <1>3 DEF me

LEMMA InvCapture == Inv => CaptureRestored
  <1> SUFFICES ASSUME Inv PROVE CaptureRestored
    OBVIOUS
  <1>1. Frames("endCapture") = {} => \A i \in DOMAIN sh : ~sh[i].cap
    <2>1. \A i \in DOMAIN sh : sh[i].cap => Diverted(k, i, 0)
      BY DEF Inv, Shells
    <2> QED
      BY <2>1 DEF Diverted, Frames
  <1>2. ASSUME At("loop"), Me.cap PROVE FALSE
    <2>1. k # <<>> /\ Top.do = "loop"
      BY <1>2, AtFacts
    <2>2. /\ Top = k[1] /\ IsStack(k) /\ DOMAIN k = 1..Len(k) /\ Len(k) \in Nat /\ OwnerIn(k, 1) = Len(sh)
          /\ Len(sh) \in DOMAIN sh
      BY <2>1, Running
    <2>3. 2 \in DOMAIN k /\ k[2].do = "endShell"
      BY <2>1, <2>2, NotLast DEF Fits
    <2>4. PICK j \in DOMAIN k : k[j].do = "endCapture" /\ OwnerIn(k, j) = Len(sh)
      BY <1>2, <2>2 DEF Inv, Shells, Diverted, Me
    <2>5. j # 1 /\ j # 2
      BY <2>1, <2>2, <2>3, <2>4
    <2>6. j \in Int /\ 3 <= j /\ 3 \in Int /\ 1 \in Int /\ 2 \in Int /\ 1 <= 2 /\ 2 + 1 = 3
      BY <2>2, <2>5
    <2>7. /\ \A i : OwnerIn(k, i) \in Nat
          /\ \A i, h \in Int : i <= h => OwnerIn(k, h) <= OwnerIn(k, i)
          /\ \A i \in DOMAIN k : k[i].do = "endShell" => OwnerIn(k, i) = OwnerIn(k, i + 1) + 1
      BY <2>2, OwnerFacts
    <2>8. OwnerIn(k, j) <= OwnerIn(k, 3) /\ OwnerIn(k, 2) <= OwnerIn(k, 1)
      BY <2>6, <2>7, Zenon
    <2>9. OwnerIn(k, 2) = OwnerIn(k, 2 + 1) + 1
      BY <2>3, <2>7, Zenon
    <2>10. OwnerIn(k, 3) \in Nat /\ OwnerIn(k, 2) \in Nat /\ OwnerIn(k, 1) \in Nat
      BY <2>7, Zenon
    <2> QED
      BY <2>2, <2>4, <2>6, <2>8, <2>9, <2>10
  <1> QED
    BY <1>1, <1>2 DEF CaptureRestored

LEMMA InvSecrets == Inv => SecretsLogged
  <1> SUFFICES ASSUME Inv, At("loop") \/ k = <<>>, panics = 0, io.owed PROVE FALSE
    BY DEF SecretsLogged
  <1>1. CASE At("loop")
    <2>1. k # <<>> /\ Top.do = "loop"
      BY <1>1, AtFacts
    <2> QED
      BY <2>1, NotOwing
  <1>2. CASE k = <<>>
    <2>1. \E j \in DOMAIN k : LogsIt(k[j])
      BY DEF Inv, Owes
    <2> QED
      BY <1>2, <2>1
  <1> QED
    BY <1>1, <1>2

\* Type correctness of the interpreter: in every state the depth, budget, exit
\* status, environment and overlay of each Shell, the idle timeout of the
\* Session and the counter of find's walk are in range, so takeBudget never
\* overdraws the budget and find stops after its 5000 entries.
THEOREM ShellTypeCorrect == Spec => []TypeOK
  <1> QED
    BY ShellInvariant, InvTypes, PTL

\* RunLine's depth counter is exact per shell, whatever runs, is refused or
\* panics: it counts the lines running in that shell and never passes
\* maxExecDepth, and a pivoted shell (newPivotShell) opens no further one.
THEOREM NestingIsBounded == Spec => []NestingBounded
  <1> QED
    BY ShellInvariant, InvNesting, PTL

\* takeBudget and cmdSub bound what one typed line can make the shell do: at
\* most maxExpandBytes of expanded text and maxCmdSubs substitutions, over all
\* lines nested in it.
THEOREM ExpansionIsBounded == Spec => []ExpansionBounded
  <1> QED
    BY ShellInvariant, InvExpansion, PTL

\* The capture buffer that cmdSub installs is taken off again on every path
\* out of it, a recovered panic and a pivoted shell included: a shell at its
\* prompt, or with no substitution running, writes to the terminal.
THEOREM CaptureIsRestored == Spec => []CaptureRestored
  <1> QED
    BY ShellInvariant, InvCapture, PTL

\* RunOnceCaptured, the HTTP bridge's entry: no program, no nested line and no
\* substitution sleeps, waits for input or writes to the connection.
THEOREM BridgesAreSilent == Spec => []BridgeIsSilent
  <1>1. Inv => BridgeIsSilent
    BY DEF Inv, Bridged, BridgeIsSilent
  <1> QED
    BY <1>1, ShellInvariant, PTL

\* Every password a program prompts for (sudo, su, passwd, ssh, mysql, ftp)
\* is logged before the shell prompts again or ends, unless its code panicked.
THEOREM SecretsAreLogged == Spec => []SecretsLogged
  <1> QED
    BY ShellInvariant, InvSecrets, PTL

\* The deferred Releases: overlays not given back to the pool are those of the
\* shells still running, in every state, after a panic unwound a pivoted shell
\* too.
THEOREM OverlaysAreReleased == Spec => []OverlaysReleased
  <1>1. Inv => OverlaysReleased
    BY DEF Inv, OverlaysReleased
  <1> QED
    BY <1>1, ShellInvariant, PTL

=============================================================================
