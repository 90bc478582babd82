--------------------------- MODULE ShellPrograms ---------------------------
(***************************************************************************)
(* What each program of the fake shell does, as the script of its effects: *)
(* what it prints, prompts for, logs, writes to the overlay and runs in    *)
(* turn.  Shell.tla performs the scripts one effect at a time.  The words  *)
(* of a command are given; what a program prints is its length.            *)
(***************************************************************************)
EXTENDS Naturals, Sequences

(***************************************************************************)
(* The effects.                                                            *)
(***************************************************************************)
Say          == [do |-> "say"]                    \* Session.Write, Writeln
Slow         == [do |-> "slow"]                   \* SlowWrite, SlowProgress
Pause        == [do |-> "pause"]                  \* Shell.pause
Log(e)       == [do |-> "log", ev |-> e]          \* Session.Log...
Save(f)      == [do |-> "save", file |-> f]       \* fs.WriteFile of a payload, error ignored
Touch(f)     == [do |-> "touch", file |-> f]      \* fs.WriteFile of nothing, error ignored
Copy(f, g)   == [do |-> "copy", file |-> f, to |-> g]  \* fs.WriteFile of what f holds
Erase(f)     == [do |-> "erase", file |-> f]      \* fs.Remove, error ignored
SetCron(b)   == [do |-> "cron", set |-> b]        \* sh.cron
Quit         == [do |-> "quit"]                   \* sh.quit = true
Return(c)    == [do |-> "return", code |-> c]     \* the exit code of a program
ReturnLast   == [do |-> "returnLast"]             \* return sh.last
Output(n, c) == [do |-> "output", len |-> n, code |-> c]  \* stdout and exit code of a command
EchoArgs     == [do |-> "echo"]                   \* stdout is the arguments
PassStdin    == [do |-> "pass"]                   \* stdout is stdin
RunLine(l)   == [do |-> "line", line |-> l]       \* sh.runLine
Command(as, in) == [do |-> "command", args |-> as, stdin |-> in]  \* sh.runCommand
Secret       == [do |-> "secret"]                 \* a prompt whose ok is ignored
Decode(f)    == [do |-> "decode", file |-> f]     \* base64 -d of a file, or stdin
SetIdle(m)   == [do |-> "idle", min |-> m]        \* Session.IdleTimeout, minutes
Walk(n)      == [do |-> "walk", count |-> n]      \* one directory entry of find

\* A prompt with an answer for each of "yes", another text, and no input.
Ask(yes, no, none)     == [do |-> "ask", yes |-> yes, no |-> no, none |-> none]
\* The editor: lines are read until one saves, one quits, or input ends.
Edit(saved, left)      == [do |-> "edit", saved |-> saved, left |-> left]
\* Branches on whether a file exists, has content, or a host is reachable.
IfFile(f, then, else)  == [do |-> "ifFile", file |-> f, then |-> then, else |-> else]
IfFull(f, then, else)  == [do |-> "ifFull", file |-> f, then |-> then, else |-> else]
IfPivot(h, then, else) == [do |-> "ifPivot", host |-> h, then |-> then, else |-> else]
\* A branch on data the model does not keep.
Either(s, t)           == [do |-> "either", alts |-> <<s, t>>]
\* A nested shell on the pivot host.
Pivot                  == [do |-> "pivot"]

(***************************************************************************)
(* Words.                                                                  *)
(***************************************************************************)
Flags == {"-O-", "-o", "-c", "-d", "-e", "-f", "-l", "-r", "-p", "-psecret", "-u", "-x",
          "-z", "--version", "--list"}
Bare(args) == SelectSeq(Tail(args), LAMBDA a : a \notin Flags)
Has(args, a) == \E i \in 2..Len(args) : args[i] = a

\* Files of the conventional executable directories.
inSystemBin(f) == f \in {"/usr/bin/pkg", "/bin/ls"}

(***************************************************************************)
(* Programs that take over the terminal, interactive.go.                   *)
(***************************************************************************)
iWget(args) ==
  IF Bare(args) = <<>> THEN <<Say, Return(1)>>
  ELSE <<Log("DOWNLOAD_ATTEMPT"), Say>> \o
       IF Has(args, "-O-") THEN <<Pause, Return(0)>>
                           ELSE <<Slow, Say, Save("f"), Return(0)>>

iCurl(args) ==
  (IF Bare(args) = <<>> THEN <<>> ELSE <<Log("DOWNLOAD_ATTEMPT")>>) \o
  IF Has(args, "-o") THEN <<Slow, Say, Save("f"), Return(0)>>
                     ELSE <<Pause, Say, Return(56)>>

iSSH(args) ==
  IF Bare(args) = <<>> THEN <<Say, Return(255)>>
  ELSE <<Say,
         Ask(<<Say, Secret, Say, Log("CREDENTIAL"),
               IfPivot(Bare(args)[1], <<Pivot, Return(0)>>, <<Pause, Say, Return(255)>>)>>,
             <<Say, Return(255)>>,
             <<Return(255)>>)>>

\* A word with a colon names the other host.
Remote(args) == \E i \in 2..Len(args) : args[i] = "host:path"

iScp(args) ==
  IF ~Remote(args) THEN <<Say, Return(1)>>
  ELSE <<Secret, Log("CREDENTIAL"), Log("COMMAND"), Pause, Say, Return(0)>>

iRsync(args) ==
  (IF Remote(args) THEN <<Secret, Log("CREDENTIAL"), Log("COMMAND")>> ELSE <<>>)
    \o <<Pause, Say, Pause, Say, Return(0)>>

captureDropper(f) ==
  IF inSystemBin(f) THEN <<>> ELSE <<IfFull(f, <<Log("DROPPER")>>, <<>>)>>

iShExec(args) ==
  LET cs == {i \in 2..(Len(args) - 1) : args[i] = "-c"}
      first == CHOOSE i \in cs : \A j \in cs : i <= j
  IN
  IF cs # {} THEN <<Log("EXEC_ATTEMPT"), RunLine(args[first + 1]), ReturnLast>>
  ELSE IF Len(args) > 1 /\ args[2] \notin Flags
    THEN captureDropper(args[2]) \o <<Log("EXEC_ATTEMPT"), Pause, Say, Return(137)>>
  ELSE <<Return(0)>>

\* Whether the code given looks like a download or an execution is the data's.
iInterp(args) ==
  IF Has(args, "--version") THEN <<Say, Return(0)>>
  ELSE <<Either(<<Log("EXEC_ATTEMPT")>>, <<Log("DOWNLOAD_ATTEMPT")>>), Pause, Say, Return(139)>>

iTftp(args) == <<Log("DOWNLOAD_ATTEMPT"), Pause, Return(0)>>

iFtp(args) == <<Log("DOWNLOAD_ATTEMPT"), Pause, Return(0)>>

iSu(args) == <<Secret, Log("CREDENTIAL"), Pause, Return(0)>>

iCompile(args) ==
  IF Has(args, "--version") THEN <<Say, Return(0)>>
  ELSE <<Log("COMMAND"), Pause, Say, Pause, Say, Return(1)>>

iApt(args) ==
  LET pkgs == Tail(Bare(args))
  IN CASE Bare(args) = <<>> -> <<Say, Return(100)>>
       [] Bare(args)[1] = "install" ->
            <<Log("COMMAND"), Say>> \o
            (IF pkgs = <<>> THEN <<>> ELSE <<Pause, Say, Pause, Say, Save("/usr/bin/pkg"), Say>>)
            \o <<Return(0)>>
       [] Bare(args)[1] = "update" -> <<Say, Pause, Say, Return(0)>>
       [] Bare(args)[1] = "upgrade" -> <<Say, Return(0)>>
       [] Bare(args)[1] = "remove" ->
            <<Log("COMMAND"), Say>> \o
            (IF pkgs = <<>> THEN <<>> ELSE <<Say, Erase("/usr/bin/pkg")>>) \o <<Return(0)>>
       [] OTHER -> <<Say, Return(100)>>

iPip(args) ==
  IF Len(Bare(args)) < 2 \/ Bare(args)[1] # "install" THEN <<Return(0)>>
  ELSE <<Log("COMMAND"), Say, Pause, Say, Return(0)>>

iPasswd(args) ==
  <<Say, Secret, Log("CREDENTIAL"), Secret, Secret, Log("COMMAND"), Pause, Say, Return(0)>>

\* The editor shortens the idle timeout, and nothing lengthens it again.
runEditor(saved, left) == <<Say, SetIdle(5), Edit(<<Say>> \o saved, left)>>

\* What was typed is logged whether it is saved or not, and saved only to a
\* file that was named and is not a tool.
iEditor(args) ==
  LET target == IF Len(args) > 1 /\ args[Len(args)] \notin Flags
                  THEN args[Len(args)] ELSE "file"
      keep == target # "file" /\ ~inSystemBin(target)
  IN runEditor(<<Log("COMMAND")>> \o (IF keep THEN <<Either(<<Save(target)>>, <<Touch(target)>>)>> ELSE <<>>),
               <<Log("COMMAND")>>) \o <<Return(0)>>

\* The first word that says what to do decides, the user after -u not being
\* one; without any the answer is a line, as for -l.
iCrontab(args) ==
  LET says(a) == a \in {"-l", "-r", "-e"} \/ a \notin Flags
      from[i \in Nat] == IF i > Len(args) THEN "-l"
                         ELSE IF says(args[i]) THEN args[i]
                         ELSE from[i + (IF args[i] = "-u" THEN 2 ELSE 1)]
      word == from[2]
  IN CASE word = "-l" -> <<Say, Return(0)>>
       [] word = "-r" -> <<SetCron(FALSE), Return(0)>>
       [] word = "-e" -> runEditor(<<SetCron(TRUE), Log("COMMAND")>>, <<>>) \o <<Return(0)>>
       [] OTHER -> <<IfFile(word, <<SetCron(TRUE), Log("COMMAND")>>, <<>>), Return(0)>>

iFind(args) == <<Walk(0), Return(0)>>

iTop(args) == <<Say, Pause, Say, Return(0)>>

iMysql(args) ==
  (IF Has(args, "-psecret") THEN <<Log("CREDENTIAL")>> ELSE <<>>) \o
  (IF Has(args, "-p") THEN <<Secret, Log("CREDENTIAL")>> ELSE <<>>) \o
  <<Pause, Say, Return(1)>>

iTar(args) ==
  CASE Has(args, "-x") -> <<Pause, Say, Return(1)>>
    [] Has(args, "-c") /\ ~Has(args, "-x") -> <<Pause, Return(0)>>
    [] OTHER -> <<Return(0)>>

\* Whether the file exists and is an image is the data's.
iAsciiView(args) ==
  IF Bare(args) = <<>> THEN <<Say, Return(1)>>
  ELSE <<Either(<<Say, Return(1)>>, <<Log("HONEYTOKEN"), Say, Return(0)>>)>>

iVault(args) == <<Log("HONEYTOKEN"), Say, Pause, Say, Pause, Say, Return(0)>>

\* Names the shell hands to runInteractive; one name stands for its aliases.
isInteractive(name) ==
  name \in {"wget", "curl", "ssh", "scp", "rsync", "sh", "python3", "tftp", "ftpget", "su",
            "gcc", "apt", "pip", "passwd", "vi", "crontab", "find", "top", "mysql", "tar",
            "jp2a", "vault", "nc"}

\* nc, telnet, openssl, tcpdump and the others without a program of their own.
Terminated == <<Pause, Say, Return(1)>>

runInteractive(args) ==
  IF args = <<>> THEN <<Return(0)>> ELSE
  CASE args[1] = "wget" -> iWget(args)       [] args[1] = "curl" -> iCurl(args)
    [] args[1] = "ssh" -> iSSH(args)         [] args[1] = "scp" -> iScp(args)
    [] args[1] = "rsync" -> iRsync(args)     [] args[1] = "sh" -> iShExec(args)
    [] args[1] = "python3" -> iInterp(args)  [] args[1] = "tftp" -> iTftp(args)
    [] args[1] = "ftpget" -> iFtp(args)      [] args[1] = "su" -> iSu(args)
    [] args[1] = "gcc" -> iCompile(args)     [] args[1] = "apt" -> iApt(args)
    [] args[1] = "pip" -> iPip(args)         [] args[1] = "passwd" -> iPasswd(args)
    [] args[1] = "vi" -> iEditor(args)       [] args[1] = "crontab" -> iCrontab(args)
    [] args[1] = "find" -> iFind(args)       [] args[1] = "top" -> iTop(args)
    [] args[1] = "mysql" -> iMysql(args)     [] args[1] = "tar" -> iTar(args)
    [] args[1] = "jp2a" -> iAsciiView(args)  [] args[1] = "vault" -> iVault(args)
    [] OTHER -> Terminated

(***************************************************************************)
(* Commands that return their output, shell.go and commands.go.            *)
(***************************************************************************)
Success == <<Output(0, 0)>>
Failure == <<Output(1, 1)>>
Report  == <<Output(1, 0)>>
NotFound == <<Output(1, 127)>>

\* [ STR ], the tests of a file, and those whose answer is the data's: whether
\* a path is a directory, and what strings and numbers are.
evalTest(a, yes, no) ==
  CASE Len(a) = 1                                            -> yes
    [] Len(a) = 2 /\ a[1] \in {"-f", "-e", "-r", "-w", "-x"} -> <<IfFile(a[2], yes, no)>>
    [] Len(a) = 2 /\ a[1] = "-s"                             -> <<IfFull(a[2], yes, no)>>
    [] Len(a) = 2 /\ a[1] \in {"-d", "-z", "-n"}             -> <<Either(yes, no)>>
    [] Len(a) = 3                                            -> <<Either(yes, no)>>
    [] OTHER                                                 -> no

cmdTest(args) ==
  LET closed == args[1] # "[" \/ args[Len(args)] = "]"
      a == IF args[1] = "[" THEN SubSeq(args, 2, Len(args) - 1) ELSE Tail(args)
      neg == a # <<>> /\ a[1] = "!"
      yes == Success
      no == <<Output(0, 1)>>
  IN CASE ~closed -> <<Output(1, 2)>>
       [] closed /\ neg -> evalTest(Tail(a), no, yes)
       [] OTHER -> evalTest(a, yes, no)

\* The applets BusyBox lists, one per way the shell treats them.
busyboxApplets == {"cat", "echo", "ls", "sleep", "base64", "wget", "passwd", "sh"}

cmdBusybox(args) ==
  CASE Len(args) = 1                -> Report
    [] args[2] = "--list"           -> Report
    [] args[2] \in busyboxApplets   -> <<Command(Tail(args), FALSE)>>
    [] OTHER                        -> NotFound

\* Whether a file is there is the data's; the bait is, and reading it is seen.
cmdCat(args) ==
  CASE Bare(args) = <<>>      -> Success
    [] Has(args, "loot.jpg")  -> <<Log("HONEYTOKEN")>> \o Report
    [] OTHER                  -> <<Either(Report, Failure)>>

\* A plain listing of an empty directory prints nothing; a missing one is not
\* seen in the exit code.
cmdLs(args) ==
  IF Has(args, "-l") \/ Has(args, "-a") THEN Report ELSE <<Either(Report, Success)>>

\* Each name is printed when found, and a missing one sets the exit code.
cmdWhich(args) ==
  CASE Bare(args) = <<>>    -> Success
    [] Len(Bare(args)) = 1  -> <<Either(Report, <<Output(0, 1)>>)>>
    [] OTHER                -> <<Either(Report, Failure), Either(<<>>, <<Output(0, 1)>>)>>

cmdStat(args) == IF Bare(args) = <<>> THEN Report ELSE <<Either(Report, Failure)>>

\* An action on a service succeeds in silence.
cmdService(args) ==
  IF \E a \in {"start", "stop", "restart"} : Has(args, a) THEN Success ELSE Report

cmdDpkg(args) == IF Has(args, "-l") THEN Report ELSE Success

cmdCd(args) == <<Either(Success, Failure)>>

\* head, tail, wc and grep read a file or pass on what came in.
Filter(args) ==
  IF Bare(args) = <<>> THEN <<PassStdin>> ELSE <<Either(Report, Failure)>>

cmdSleep(args) == (IF Bare(args) = <<>> THEN <<>> ELSE <<Pause>>) \o Success

cmdHistory(args) == IF Has(args, "-c") THEN <<Log("COMMAND")>> \o Success ELSE Report

\* Errors of the overlay are dropped and the exit code is 0 whatever happened.
cmdMutate(args) ==
  LET t == Bare(args)
      move == Len(t) >= 2
  IN (CASE args[1] = "touch" /\ t # <<>> -> <<IfFile(t[1], <<>>, <<Touch(t[1])>>)>>
        [] args[1] = "rm" /\ t # <<>>    -> <<Erase(t[1])>>
        [] args[1] = "cp" /\ move        -> <<IfFile(t[1], <<Copy(t[1], t[2])>>, <<>>)>>
        [] args[1] = "mv" /\ move ->
             <<IfFile(t[1], <<Copy(t[1], t[2]), Erase(t[1])>>, <<>>)>>
        [] OTHER -> <<>>) \o Success

cmdBase64(args) ==
  LET file == Bare(args)
      bait == IF Has(args, "loot.jpg") THEN <<Log("HONEYTOKEN")>> ELSE <<>>
      data == IF Has(args, "-d") THEN <<Decode(IF file = <<>> THEN "" ELSE file[1])>> ELSE Report
  IN CASE file = <<>> \/ bait # <<>> -> bait \o data
       [] OTHER -> <<IfFile(file[1], data, Failure)>>

\* A dropped file run by its path: its content is kept, the attempt logged.
DroppedExec(f) ==
  IF inSystemBin(f) THEN NotFound
  ELSE <<IfFile(f, <<IfFull(f, <<Log("DROPPER")>>, <<>>), Log("EXEC_ATTEMPT"), Output(0, 0)>>,
                NotFound)>>

\* A path into a bin directory names the command it ends in.
BinPath(c) == IF c = "/bin/busybox" THEN "busybox" ELSE c

runCommand(as) ==
  LET args == <<BinPath(as[1])>> \o Tail(as)
      c == args[1]
  IN CASE c = "exit" -> <<Quit>> \o Report
       [] c \in {"uname", "env", "ps", "pwd"} -> Report
       [] c = "ls" -> cmdLs(args)
       [] c = "which" -> cmdWhich(args)
       [] c = "stat" -> cmdStat(args)
       [] c = "systemctl" -> cmdService(args)
       [] c = "dpkg" -> cmdDpkg(args)
       [] c = "cat" -> cmdCat(args)
       [] c \in {"[", "test"} -> cmdTest(args)
       [] c = "busybox" -> cmdBusybox(args)
       [] c = "cd" -> cmdCd(args)
       [] c = "echo" -> <<EchoArgs>>
       [] c \in {"head", "grep"} -> Filter(args)
       [] c \in {"touch", "rm", "cp", "mv"} -> cmdMutate(args)
       [] c \in {"export", "true", "useradd"} -> Success
       [] c = "enable" -> <<Either(Success, NotFound)>>
       [] c = "history" -> cmdHistory(args)
       [] c = "sleep" -> cmdSleep(args)
       [] c = "false" -> <<Output(0, 1)>>
       [] c = "sudo" -> IF Len(args) > 1 THEN <<Command(Tail(args), TRUE)>> ELSE Success
       [] c = "base64" -> cmdBase64(args)
       [] c \in {"sort", "xargs"} -> <<PassStdin>>
       [] c = "./f" -> DroppedExec("f")
       [] OTHER -> NotFound

=============================================================================
