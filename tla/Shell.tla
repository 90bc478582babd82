------------------------------- MODULE Shell -------------------------------
(***************************************************************************)
(* The fake shell of internal/shell: one goroutine reads lines, parses,    *)
(* expands and runs them.  Its call stack is explicit: k holds what is     *)
(* still to be done, innermost first, and one step performs the head of k. *)
(* The frames whose `do` starts with "end" are the returns of calls that   *)
(* restore something.  The programs are the scripts of ShellPrograms.      *)
(***************************************************************************)
EXTENDS Integers, Sequences, FiniteSets, SequencesExt, ShellParse, ShellPrograms

CONSTANTS
  Text,        \* a line's name -> its tokens; any other text is one plain word
  Plain,       \* a base64 word -> the text it decodes to
  Typed,       \* the lines a client may send first, second, ... in a session
  Vars, Files,
  PivotHosts,  \* the hosts the pivot resolver knows
  MaxDepth,    \* maxExecDepth
  MaxExpand,   \* maxExpandBytes
  MaxSubs,     \* maxCmdSubs
  MaxFind,     \* the entries find lists, 5000 in the code
  MaxPanics    \* bound: faults of the shell's own code

ASSUME LimitsAssumption == {MaxDepth, MaxExpand, MaxSubs, MaxFind} \subseteq Nat \ {0}

VARIABLES
  mode,    \* who drives the shell: a "terminal", an ssh "exec", the HTTP "bridge"
  k,       \* the pending work of the goroutine
  sh,      \* the shells, the pivoted one last
  reg,     \* locals of the statement being run: args, stdin, out, code
  io,      \* the Session: its connection, capture buffer and timeout
  typed, panics,
  held,    \* overlays not released yet
  due      \* substitutions met in the statements of this line, less those run

vars == <<mode, k, sh, reg, io, typed, panics, held, due>>

(***************************************************************************)
(* Values: a text and how many bytes it has.                               *)
(***************************************************************************)
Empty == [text |-> "", len |-> 0]
Word(t) == IF t = "" THEN Empty ELSE [text |-> t, len |-> 2]
Join(v, w) == CASE v.len = 0 -> w
                [] v.len # 0 /\ w.len = 0 -> v
                [] OTHER -> [text |-> "joined", len |-> v.len + w.len]
Cut(v, n) == IF v.len <= n THEN v ELSE [text |-> "cut", len |-> n]
Joined(vs) ==
  LET upto[i \in 0..Len(vs)] == IF i = 0 THEN Empty ELSE Join(upto[i - 1], vs[i])
  IN upto[Len(vs)]
Absent == [text |-> "absent", len |-> -1]
Exists(v) == v.len >= 0

\* What is not set or not there: the empty text, no file.
getenv(me, x) == IF x \in Vars THEN me.env[x] ELSE Empty
Content(me, f) == IF f \in Files THEN me.files[f] ELSE Absent

Texts(args) == [i \in DOMAIN args |-> args[i].text]
Operands(args) == SubSeq(args, 2, Len(args))
Parsed == [l \in DOMAIN Text |-> parse(Text[l])]
Statements(l) == CASE l = ""            -> <<>>
                   [] l # "" /\ l \in DOMAIN Text -> Parsed[l]
                   [] OTHER -> parse(<<Lit(l)>>)

NewShell(hop) ==
  [last |-> 0, quit |-> FALSE, depth |-> 0, budget |-> MaxExpand, subs |-> 0,
   cap |-> FALSE, buf |-> Empty, hop |-> hop, cron |-> FALSE,
   env |-> [x \in Vars |-> Empty], files |-> [f \in Files |-> Absent],
   taken |-> 0, ran |-> 0]

NoReg == [args |-> <<>>, stdin |-> Empty, out |-> Empty, code |-> 0]

(***************************************************************************)
(* Frames.                                                                 *)
(***************************************************************************)
Loop      == [do |-> "loop"]
EndLine   == [do |-> "endLine"]
EndShell  == [do |-> "endShell"]
EndOutput == [do |-> "endOutput"]
Stmts(ss, run)   == [do |-> "stmts", stmts |-> ss, run |-> run]
Chain(op, ss)    == [do |-> "chain", op |-> op, stmts |-> ss]
Expand(ws)       == [do |-> "expand", words |-> ws, acc |-> <<>>]
ToArgs           == [do |-> "toArgs"]
ToEnv(x)         == [do |-> "toEnv", name |-> x]
Assigns(todo)    == [do |-> "assigns", todo |-> todo]
Interactive      == [do |-> "interactive"]
Single(stg)      == [do |-> "single", stg |-> stg]
Pipe(stages)     == [do |-> "pipe", stages |-> stages]
Stage(stg, last) == [do |-> "stage", stg |-> stg, last |-> last]
Emit(stg)        == [do |-> "emit", stg |-> stg]
Feed             == [do |-> "feed"]
SetLast          == [do |-> "setLast"]
LastIs(c)        == [do |-> "lastIs", code |-> c]
EndCapture(me)   == [do |-> "endCapture", reg |-> reg, cap |-> me.cap, buf |-> me.buf]

welcome == <<Slow, Say>>
loop == <<SetIdle(10), Loop>>

(***************************************************************************)
(* Run, RunOnce and RunOnceCaptured.                                       *)
(***************************************************************************)
Entry(m, l) ==
  CASE m = "terminal" -> welcome \o loop \o <<EndShell>>
    [] m = "exec"     -> <<RunLine(l), EndShell>>
    [] m = "bridge"   -> <<RunLine(l), EndOutput, EndShell>>

Init ==
  /\ mode \in {"terminal", "exec", "bridge"}
  /\ \/ mode = "terminal" /\ k = Entry(mode, "")
     \/ mode # "terminal" /\ \E l \in Typed[1] : k = Entry(mode, l)
  /\ sh = <<NewShell(TRUE)>>
  /\ reg = NoReg
  /\ io = [alive |-> TRUE, cap |-> mode = "bridge", idle |-> 10, wire |-> FALSE,
           slept |-> FALSE, waited |-> FALSE, owed |-> FALSE]
  /\ typed = 0 /\ panics = 0 /\ held = 1 /\ due = 0

(***************************************************************************)
(* Helpers of the steps.                                                   *)
(***************************************************************************)
At(d) == k # <<>> /\ Head(k).do = d
Top == Head(k)
Go(frames) == k' = frames \o Tail(k)
Me == sh[Len(sh)]
SetMe(me) == sh' = [sh EXCEPT ![Len(sh)] = me]

\* Session.Write: into the capture buffer when there is one.
Write == [io EXCEPT !.wire = @ \/ ~io.cap]

\* Shell.takeBudget: the shell afterwards, and what is left of v.
takeBudget(me, v) ==
  LET got == IF me.budget <= 0 THEN Empty ELSE Cut(v, me.budget)
  IN [val |-> got, me |-> [me EXCEPT !.budget = @ - got.len, !.taken = @ + got.len]]

Same(vs) == UNCHANGED vs
Rest == <<mode, typed, panics, held>>

(***************************************************************************)
(* A line: its statements, one after another.                              *)
(***************************************************************************)
\* Fault: every line run gets a fresh budget, nested ones too.
RefillAlways(me) == [me EXCEPT !.budget = MaxExpand, !.subs = 0]

Refill(me) == IF me.depth = 0 THEN [me EXCEPT !.budget = MaxExpand, !.subs = 0] ELSE me

runLine ==
  /\ At("line")
  /\ IF Me.depth >= MaxDepth
       THEN /\ SetMe([Refill(Me) EXCEPT !.last = 139])
            /\ io' = Write
            /\ Go(<<>>)
       ELSE /\ SetMe([Refill(Me) EXCEPT !.depth = @ + 1])
            /\ Go(<<Stmts(Statements(Top.line), TRUE), EndLine>>)
            /\ Same(io)
  /\ Same(<<Rest, reg, due>>)

endLine ==
  /\ At("endLine")
  /\ SetMe([Me EXCEPT !.depth = @ - 1])
  /\ Go(<<>>)
  /\ Same(<<Rest, reg, io, due>>)

\* The substitutions written in a statement.
Parts(ws) == FlattenSeq([i \in DOMAIN ws |-> IF ws[i].kind = "assign" THEN ws[i].to ELSE <<ws[i]>>])
SubWords(st) ==
  LET words == FlattenSeq([i \in DOMAIN st.stages |->
                             Parts(st.stages[i].assigns \o st.stages[i].args)])
  IN Len(SelectSeq(words, LAMBDA w : w.kind = "sub"))

\* The names an assignment statement sets, the last value of a name given.
Latest(as) == {as[i] : i \in {i \in DOMAIN as : \A j \in (i+1)..Len(as) : as[j].val # as[i].val}}

\* A shell at the end of a pipeline is recognised by its unexpanded word.
PipesToShell(st) ==
  /\ Len(st.stages) > 1
  /\ Last(st.stages).args # <<>>
  /\ Head(Last(st.stages).args) = Lit("sh")

runStatement(st) ==
  CASE Len(st.stages) = 1 /\ st.stages[1].args = <<>> ->
         <<Assigns(Latest(st.stages[1].assigns)), LastIs(0)>>
    [] PipesToShell(st) ->
         <<Log("EXEC_ATTEMPT"), Expand(st.stages[1].args), ToArgs, Interactive, LastIs(0)>>
    [] Len(st.stages) = 1 /\ st.stages[1].args # <<>> ->
         <<Expand(st.stages[1].args), ToArgs, Single(st.stages[1])>>
    [] OTHER -> <<Pipe(st.stages), SetLast>>

nextStatement ==
  /\ At("stmts")
  /\ IF Top.stmts = <<>> THEN Go(<<>>) /\ Same(due)
     ELSE LET st == Head(Top.stmts)
          IN /\ Go((IF Top.run THEN runStatement(st) ELSE <<>>)
                     \o <<Chain(st.chain, Tail(Top.stmts))>>)
             /\ due' = IF Top.run THEN due + SubWords(st) ELSE due
  /\ reg' = NoReg
  /\ Same(<<Rest, sh, io>>)

\* A statement that was skipped decides about the next one too.
chain ==
  /\ At("chain")
  /\ Go(IF Me.quit THEN <<>>
        ELSE <<Stmts(Top.stmts, CASE Top.op = "&&" -> Me.last = 0
                                  [] Top.op = "||" -> Me.last # 0
                                  [] OTHER -> TRUE)>>)
  /\ Same(<<Rest, sh, reg, io, due>>)

\* The assignments of a statement are a Go map: any order.
assign ==
  /\ At("assigns")
  /\ \/ Top.todo = {} /\ Go(<<>>)
     \/ \E t \in Top.todo : Go(<<Expand(t.to), ToEnv(t.val), Assigns(Top.todo \ {t})>>)
  /\ Same(<<Rest, sh, reg, io, due>>)

setLast ==
  /\ At("setLast") \/ At("lastIs")
  /\ SetMe([Me EXCEPT !.last = IF At("setLast") THEN reg.code ELSE Top.code])
  /\ Go(<<>>)
  /\ Same(<<Rest, reg, io, due>>)

single ==
  /\ At("single")
  /\ Go(IF reg.args # <<>> /\ isInteractive(reg.args[1].text)
          THEN <<Interactive, SetLast>> ELSE <<Pipe(<<Top.stg>>), SetLast>>)
  /\ Same(<<Rest, sh, reg, io, due>>)

interactive ==
  /\ At("interactive")
  /\ Go(runInteractive(Texts(reg.args)))
  /\ Same(<<Rest, sh, reg, io, due>>)

pipe ==
  /\ At("pipe")
  /\ Go(IF Top.stages = <<>> THEN <<>>
        ELSE <<Expand(Head(Top.stages).args), ToArgs,
               Stage(Head(Top.stages), Len(Top.stages) = 1), Pipe(Tail(Top.stages))>>)
  /\ Same(<<Rest, sh, reg, io, due>>)

stage ==
  /\ At("stage")
  /\ Go(IF reg.args = <<>> THEN <<>>
        ELSE runCommand(Texts(reg.args)) \o (IF Top.last THEN <<Emit(Top.stg)>> ELSE <<Feed>>))
  /\ Same(<<Rest, sh, reg, io, due>>)

feed ==
  /\ At("feed")
  /\ reg' = [reg EXCEPT !.stdin = reg.out]
  /\ Go(<<>>)
  /\ Same(<<Rest, sh, io, due>>)

\* Output goes to a null device, a file, a substitution or the terminal.
emit ==
  /\ At("emit")
  /\ LET stg == Top.stg
         old == Content(Me, stg.out)
         new == IF stg.app /\ Exists(old) THEN Join(old, reg.out) ELSE reg.out
         got == takeBudget(Me, reg.out)
     IN CASE stg.null -> Same(<<sh, io>>)
          [] ~stg.null /\ stg.out # "" ->
               \/ SetMe([Me EXCEPT !.files[stg.out] = new]) /\ Same(io)
               \/ Same(sh) /\ io' = Write              \* ErrNoSpace
               \/ Same(<<sh, io>>)                     \* any other error is dropped
          [] ~stg.null /\ stg.out = "" /\ Me.cap ->
               SetMe([got.me EXCEPT !.buf = Join(@, got.val)]) /\ Same(io)
          [] OTHER -> Same(sh) /\ io' = IF reg.out = Empty THEN io ELSE Write
  /\ Go(<<>>)
  /\ Same(<<Rest, reg, due>>)

(***************************************************************************)
(* Expansion: a frame takes its words one by one.                          *)
(***************************************************************************)
Took(v) == [Top EXCEPT !.words = Tail(@), !.acc = Append(@, v)]

cmdSub(word) ==
  LET me == [Me EXCEPT !.subs = @ + 1]
  IN IF me.subs > MaxSubs \/ me.budget <= 0 \/ me.depth >= MaxDepth
       THEN SetMe(me) /\ Go(<<Took(Empty)>>)
       ELSE /\ SetMe([me EXCEPT !.cap = TRUE, !.buf = Empty, !.ran = @ + 1])
            /\ Go(<<RunLine(word.val), EndCapture(Me), [Top EXCEPT !.words = Tail(@)]>>)

expand ==
  /\ At("expand") /\ Top.words # <<>>
  /\ LET w == Head(Top.words)
         got == takeBudget(Me, getenv(Me, w.val))
     IN CASE w.kind = "ref" -> SetMe(got.me) /\ Go(<<Took(got.val)>>)
          [] w.kind = "sub" -> cmdSub(w)
          [] w.kind = "assign" -> Same(sh) /\ Go(<<Expand(w.to), [do |-> "toWord"],
                                                   [Top EXCEPT !.words = Tail(@)]>>)
          [] OTHER -> Same(sh) /\ Go(<<Took(Word(w.val))>>)
  /\ due' = IF Head(Top.words).kind = "sub" THEN due - 1 ELSE due
  /\ Same(<<Rest, reg, io>>)

\* What a finished expansion becomes: the arguments, a value, part of a word.
expanded ==
  /\ At("expand") /\ Top.words = <<>>
  /\ LET to == k[2]
         value == Joined(Top.acc)
     IN CASE to.do = "toArgs" ->
               /\ reg' = [reg EXCEPT !.args = Top.acc]
               /\ k' = SubSeq(k, 3, Len(k)) /\ Same(sh)
          [] to.do = "toEnv" ->
               /\ SetMe([Me EXCEPT !.env[to.name] = value])
               /\ k' = SubSeq(k, 3, Len(k)) /\ Same(reg)
          [] to.do = "toWord" ->
               /\ k' = <<[k[3] EXCEPT !.acc = Append(@, value)]>> \o SubSeq(k, 4, Len(k))
               /\ Same(<<sh, reg>>)
  /\ Same(<<Rest, io, due>>)

endCapture ==
  /\ At("endCapture")
  /\ k' = <<[k[2] EXCEPT !.acc = Append(@, Me.buf)]>> \o SubSeq(k, 3, Len(k))
  /\ SetMe([Me EXCEPT !.cap = Top.cap, !.buf = Top.buf])
  /\ reg' = Top.reg
  /\ Same(<<Rest, io, due>>)

(***************************************************************************)
(* The effects of the programs.                                            *)
(***************************************************************************)
\* Session.Write and SlowWrite, Shell.pause: nothing sleeps, and nothing
\* reaches the connection, while the session captures.
say ==
  /\ At("say") /\ io' = Write
  /\ Go(<<>>) /\ Same(<<Rest, sh, reg, due>>)

\* Fault: the slow loop does not look at the capture buffer.
slowWriteToWire ==
  /\ At("slow") /\ io' = [io EXCEPT !.wire = TRUE, !.slept = TRUE]
  /\ Go(<<>>) /\ Same(<<Rest, sh, reg, due>>)

slowWrite ==
  /\ At("slow") /\ io' = [Write EXCEPT !.slept = @ \/ ~io.cap]
  /\ Go(<<>>) /\ Same(<<Rest, sh, reg, due>>)

pause ==
  /\ At("pause") /\ io' = [io EXCEPT !.slept = @ \/ ~io.cap]
  /\ Go(<<>>) /\ Same(<<Rest, sh, reg, due>>)

\* Only the events that carry what a client typed at a prompt are told apart.
logEvent ==
  /\ At("log")
  /\ io' = [io EXCEPT !.owed = @ /\ Top.ev \notin {"CREDENTIAL", "COMMAND"}]
  /\ Go(<<>>) /\ Same(<<Rest, sh, reg, due>>)

setIdle ==
  /\ At("idle") /\ io' = [io EXCEPT !.idle = Top.min]
  /\ Go(<<>>) /\ Same(<<Rest, sh, reg, due>>)

\* Writes to the overlay may fail, and their errors are dropped.
Written(f) ==
  CASE At("save")  -> Word("payload")
    [] At("touch") -> Empty
    [] At("copy")  -> Content(Me, f)

writeFile ==
  /\ At("save") \/ At("touch") \/ At("copy")
  /\ LET to == IF At("copy") THEN Top.to ELSE Top.file
     IN \/ SetMe([Me EXCEPT !.files[to] = Written(Top.file)])
        \/ Same(sh)
  /\ Go(<<>>) /\ Same(<<Rest, reg, io, due>>)

remove ==
  /\ At("erase") /\ SetMe([Me EXCEPT !.files[Top.file] = Absent])
  /\ Go(<<>>) /\ Same(<<Rest, reg, io, due>>)

setCron ==
  /\ At("cron") /\ SetMe([Me EXCEPT !.cron = Top.set])
  /\ Go(<<>>) /\ Same(<<Rest, reg, io, due>>)

quit ==
  /\ At("quit") /\ SetMe([Me EXCEPT !.quit = TRUE])
  /\ Go(<<>>) /\ Same(<<Rest, reg, io, due>>)

returns ==
  /\ At("return") \/ At("returnLast")
  /\ reg' = [reg EXCEPT !.code = IF At("return") THEN Top.code ELSE Me.last]
  /\ Go(<<>>) /\ Same(<<Rest, sh, io, due>>)

\* A command's output and exit code: its own, its arguments, or its input.
outputs ==
  /\ \/ /\ At("output")
        /\ reg' = [reg EXCEPT !.out = IF Top.len = 0 THEN Empty ELSE Word("out"),
                              !.code = Top.code]
     \/ /\ At("echo")
        /\ reg' = [reg EXCEPT !.out = Joined(Operands(reg.args)), !.code = 0]
     \/ At("pass") /\ reg' = [reg EXCEPT !.out = reg.stdin, !.code = 0]
  /\ Go(<<>>) /\ Same(<<Rest, sh, io, due>>)

\* sudo passes its input on, BusyBox does not.
command ==
  /\ At("command")
  /\ reg' = [reg EXCEPT !.args = Operands(@),
                        !.stdin = IF Top.stdin THEN @ ELSE Empty]
  /\ Go(runCommand(Top.args)) /\ Same(<<Rest, sh, io, due>>)

looksLikeCommand(t) ==
  t \in DOMAIN Text /\ Head(Text[t]).val \in {"wget", "curl", "sh", "/bin/busybox", "nc", "rm"}

\* Decoded text that reads like a command is run, whatever line it is part of.
decode ==
  /\ At("decode")
  /\ LET in == IF Top.file = "" THEN reg.stdin ELSE Content(Me, Top.file)
         t == Plain[in.text]
         text == <<Log("EXEC_ATTEMPT")>> \o Report
     IN Go(IF in.len = 0 THEN <<Log("EXEC_ATTEMPT")>> \o Success
           ELSE IF in.text \notin DOMAIN Plain THEN <<Either(Failure, text)>>
           ELSE IF looksLikeCommand(t) THEN <<Log("EXEC_ATTEMPT"), RunLine(t)>> \o Success
           ELSE text)
  /\ Same(<<Rest, sh, reg, io, due>>)

\* One more entry of find, unless the count or the five minutes are spent.
walkFind ==
  /\ At("walk")
  /\ \/ Top.count <= MaxFind /\ Go(<<Say, Pause, Walk(Top.count + 1)>>)
     \/ Go(<<>>)
  /\ Same(<<Rest, sh, reg, io, due>>)

branch ==
  /\ \/ At("ifFile") /\ Go(IF Exists(Content(Me, Top.file)) THEN Top.then ELSE Top.else)
     \/ At("ifFull") /\ Go(IF Content(Me, Top.file).len > 0 THEN Top.then ELSE Top.else)
     \/ At("ifPivot") /\ Go(IF Me.hop /\ Top.host \in PivotHosts THEN Top.then ELSE Top.else)
     \/ At("either") /\ \E i \in {1, 2} : Go(Top.alts[i])
  /\ Same(<<Rest, sh, reg, io, due>>)

(***************************************************************************)
(* Shells: the pivoted one has no resolver of its own.                     *)
(***************************************************************************)
\* Fault: the pivoted shell inherits the resolver.
pivotShellOnward ==
  /\ At("pivot")
  /\ sh' = Append(sh, NewShell(TRUE)) /\ held' = held + 1
  /\ Go(welcome \o loop \o <<EndShell>>)
  /\ Same(<<mode, typed, panics, reg, io, due>>)

pivotShell ==
  /\ At("pivot")
  /\ sh' = Append(sh, NewShell(FALSE)) /\ held' = held + 1
  /\ Go(welcome \o loop \o <<EndShell>>)
  /\ Same(<<mode, typed, panics, reg, io, due>>)

endShell ==
  /\ At("endShell")
  /\ sh' = SubSeq(sh, 1, Len(sh) - 1) /\ held' = held - 1
  /\ Go(<<>>) /\ Same(<<mode, typed, panics, reg, io, due>>)

endOutput ==
  /\ At("endOutput") /\ io' = [io EXCEPT !.cap = FALSE]
  /\ Go(<<>>) /\ Same(<<Rest, sh, reg, due>>)

(***************************************************************************)
(* Reads: the prompt of the loop, of a program, the lines of the editor.   *)
(***************************************************************************)
Reading == k # <<>> /\ Top.do \in {"loop", "secret", "ask", "edit"} /\ ~(At("loop") /\ Me.quit)

leaveLoop ==
  /\ At("loop") /\ Me.quit
  /\ Go(<<>>) /\ Same(<<Rest, sh, reg, io, due>>)

\* Fault: the editor reads on after !ok.
NoInputIgnored == CASE At("ask")  -> Top.none
                    [] At("edit") -> <<Top>>
                    [] OTHER      -> <<>>

\* What a program does when Prompt or ReadLine returns !ok.
NoInput == CASE At("ask")  -> Top.none
             [] At("edit") -> Top.left
             [] OTHER      -> <<>>

Prompted == IF At("edit") THEN io ELSE Write

\* In capture mode, and once the connection is gone, at once.
readNothing ==
  /\ Reading
  /\ io.cap \/ ~io.alive
  /\ io' = Prompted
  /\ Go(NoInput) /\ Same(<<Rest, sh, reg, due>>)

\* The idle timeout passes: the connection is still there.
readTimeout ==
  /\ Reading /\ ~io.cap /\ io.alive
  /\ io' = [Prompted EXCEPT !.waited = TRUE]
  /\ Go(NoInput) /\ Same(<<Rest, sh, reg, due>>)

typeLine ==
  /\ At("loop") /\ ~Me.quit /\ ~io.cap /\ io.alive /\ typed < Len(Typed)
  /\ typed' = typed + 1
  /\ \E l \in Typed[typed + 1] : k' = <<RunLine(l)>> \o k
  /\ SetMe([Me EXCEPT !.taken = 0, !.ran = 0])
  /\ io' = [Write EXCEPT !.waited = TRUE]
  /\ due' = 0
  /\ Same(<<mode, panics, held, reg>>)

typeAnswer ==
  /\ Reading /\ ~At("loop") /\ ~io.cap /\ io.alive
  /\ \/ At("secret") /\ Go(<<>>)
     \/ At("ask") /\ \E a \in {Top.yes, Top.no} : Go(a)
     \/ At("edit") /\ \E a \in {Top.saved, Top.left, <<Top>>} : Go(a)
  /\ io' = [Prompted EXCEPT !.waited = TRUE, !.owed = @ \/ At("secret")]
  /\ Same(<<Rest, sh, reg, due>>)

(***************************************************************************)
(* Faults: the client hangs up or the session's lifetime ends; the shell's *)
(* own code panics, and the innermost runLine recovers.                    *)
(***************************************************************************)
\* It shows at a read only: the errors of writes are ignored.
hangUp ==
  /\ io.alive /\ Reading /\ ~io.cap
  /\ io' = [io EXCEPT !.alive = FALSE]
  /\ Same(<<Rest, k, sh, reg, due>>)

Frames(d) == {i \in DOMAIN k : k[i].do = d}

\* Fault: only the line typed at the prompt recovers.
RecoverOutermost == CHOOSE i \in Frames("endLine") : \A j \in Frames("endLine") : i >= j

\* Where a panic stops: the deferred recover of the innermost runLine.
Recover == CHOOSE i \in Frames("endLine") : \A j \in Frames("endLine") : i <= j

\* The deferred Releases of the shells left on the way.
Left == Cardinality({i \in Frames("endShell") : i < Recover})
\* Fault: Release is called after the loop instead of deferred.
ReleasedAfterLoop == held

Released == held - Left

\* Entering a line and returning from one are assignments, which cannot fault.
panic ==
  /\ panics < MaxPanics /\ Frames("endLine") # {}
  /\ Top.do \notin {"line", "endLine", "endCapture"}
  /\ panics' = panics + 1
  /\ k' = <<Say>> \o SubSeq(k, Recover, Len(k))
  /\ sh' = SubSeq(sh, 1, Len(sh) - Left)
  /\ held' = Released
  /\ Same(<<mode, typed, reg, io, due>>)

Done == k = <<>> /\ UNCHANGED vars

\* What the goroutine does by itself.
Step ==
  \/ runLine \/ endLine \/ nextStatement \/ chain \/ assign \/ setLast \/ single
  \/ interactive \/ pipe \/ stage \/ feed \/ emit \/ expand \/ expanded \/ endCapture
  \/ say \/ slowWrite \/ pause \/ logEvent \/ setIdle \/ writeFile \/ remove \/ setCron
  \/ quit \/ returns \/ outputs \/ command \/ decode \/ walkFind \/ branch
  \/ pivotShell \/ endShell \/ endOutput \/ leaveLoop \/ readNothing

Next == Step \/ readTimeout \/ typeLine \/ typeAnswer \/ hangUp \/ panic \/ Done

Spec == Init /\ [][Next]_vars

\* The goroutine runs, and a session's lifetime ends: from then on every read
\* fails, however the client keeps the shell busy until then.
FairSpec == Spec /\ WF_vars(Step) /\ SF_vars(hangUp)

(***************************************************************************)
(* Properties.                                                             *)
(***************************************************************************)
\* The counters and flags of the shells and of the session keep their types,
\* a budget is never overdrawn, and find stops at its bound.
TypeOK ==
  /\ mode \in {"terminal", "exec", "bridge"}
  /\ \A i \in DOMAIN sh :
       /\ sh[i].depth \in Nat /\ sh[i].budget \in 0..MaxExpand /\ sh[i].last \in 0..255
       /\ \A x \in Vars : sh[i].env[x].len \in Nat
       /\ \A f \in Files : sh[i].files[f].len >= -1
  /\ \A i \in Frames("walk") : k[i].count \in 0..(MaxFind + 1)
  /\ io.idle \in {5, 10}

\* The shell that frame i belongs to: as many shells end at it or behind it.
Owner(i) == Cardinality({j \in Frames("endShell") : j >= i})

\* Lines nest only so far: the depth counter of a shell counts the lines that
\* are being run in it, never more than maxExecDepth, and a shell reached by
\* ssh opens no further one.
NestingBounded ==
  /\ Len(sh) <= 2
  /\ \A i \in DOMAIN sh : sh[i].depth <= MaxDepth
  /\ \A i \in DOMAIN sh : sh[i].depth = Cardinality({j \in Frames("endLine") : Owner(j) = i})

\* A typed line and everything it runs, however deep, gets at most
\* maxExpandBytes of expanded text and runs at most maxCmdSubs substitutions.
ExpansionBounded ==
  \A i \in DOMAIN sh : sh[i].taken <= MaxExpand /\ sh[i].ran <= MaxSubs

\* Output is diverted only while a substitution is being run: whatever failed
\* inside it, the shell at its prompt writes to the terminal again.
CaptureRestored ==
  /\ Frames("endCapture") = {} => \A i \in DOMAIN sh : ~sh[i].cap
  /\ At("loop") => ~Me.cap

\* A command run for an HTTP request neither sleeps nor waits for input nor
\* writes to the connection.
BridgeIsSilent == mode = "bridge" => ~io.wire /\ ~io.slept /\ ~io.waited

\* What was typed at a password prompt is logged before the next prompt of
\* the shell, unless the shell's code panicked on the way.
SecretsLogged == (At("loop") \/ k = <<>>) /\ panics = 0 => ~io.owed

\* Every overlay that is not released belongs to a shell still running, also
\* after a panic unwound one, so the pool gets all of it back.
OverlaysReleased == held = Len(sh)

\* Whatever is typed, a session whose connection ends is over: no program and
\* no nesting keeps the goroutine.
SessionEnds == <>(k = <<>>)

\* A substitution written once in a statement is run at most once.
SubstitutionsRunOnce == due >= 0

=============================================================================
