------------------------------ MODULE MCShell ------------------------------
\* Lines for Shell: at least one for every program and every kind of word.
EXTENDS Shell, TLC

Words(ws) == [i \in DOMAIN ws |-> Lit(ws[i])]

\* Commands one after another.
Then(a, b) == a \o <<Op(";")>> \o b

MCText ==
  "sh -c $X" :> (Words(<<"sh", "-c">>) \o <<Ref("X")>>) @@
  "recurse"  :> <<Assign("X", <<Lit("sh -c $X")>>), Op(";"), Lit("sh"), Lit("-c"), Ref("X")>> @@
  "double"   :> <<Assign("X", <<Lit("a")>>), Assign("Y", <<Ref("X"), Ref("X")>>), Op(";"),
                  Assign("X", <<Lit("b")>>), Assign("X", <<Ref("Y"), Arith, Sub("ls")>>)>> @@
  "wget u"   :> Words(<<"wget", "u">>) @@
  "wget $()" :> <<Lit("echo"), Sub("wget u"), Sub("ls")>> @@
  "nested"   :> <<Lit("echo"), Sub("wget $()"), Op("|"), Lit("export"), Assign("Y", <<Sub("ls"), Ref("X")>>)>> @@
  "pipe-sh"  :> (Words(<<"wget", "-O-", "u">>) \o <<Op("|"), Lit("sh")>>) @@
  "drop"     :> (Words(<<"echo", "payload">>) \o <<Op(">"), Lit("f"), Op("&&")>>
                   \o Words(<<"echo", "more">>) \o <<Op(">>"), Lit("f"), Op(";"), Lit("./f"),
                      Op("||"), Lit("sh"), Lit("f")>>) @@
  "null"     :> (Words(<<"ls">>) \o <<Op(">"), Lit("/dev/null"), Op("2>"), Lit("f"), Op("&&")>>
                   \o Words(<<"false">>) \o <<Op("||"), Lit("("), Lit("cd"), Lit("/x"), Lit(")"), Op("&")>>) @@
  "decode"   :> (Words(<<"echo", "B64">>) \o <<Op(">"), Lit("f"), Op(";")>>
                   \o Words(<<"base64", "-d", "f">>)) @@
  "/bin/busybox base64" :> Words(<<"/bin/busybox", "base64", "-d", "f">>) @@
  "filters"  :> (Words(<<"echo", "B64ls">>) \o <<Op("|")>> \o Words(<<"sudo", "base64", "-d">>)
                   \o <<Op("|")>> \o Words(<<"sort">>) \o <<Op(";")>>
                   \o Words(<<"test", "a", "=", "b">>) \o <<Op("|")>> \o Words(<<"grep", "-c">>)
                   \o <<Op("|"), Assign("X", <<>>)>>) @@
  "tests"    :> (Words(<<"[", "!", "-e", "f", "]">>) \o <<Op("&&")>> \o Words(<<"test", "-s", "f">>)
                   \o <<Op("||")>> \o Words(<<"[", "a", "=", "b">>) \o <<Op(";")>> \o
                Then(Words(<<"touch", "f">>), Then(Words(<<"cp", "f", "g">>),
                Then(Words(<<"mv", "g", "f">>), Words(<<"rm", "f">>))))) @@
  "bait"     :> (Words(<<"cat", "loot.jpg">>) \o <<Op("|")>> \o Words(<<"head", "f">>)
                   \o <<Op(";")>> \o Words(<<"base64", "loot.jpg">>)
                   \o <<Op(";")>> \o Then(Words(<<"sleep", "5">>), Then(Words(<<"history", "-c">>),
                Then(Words(<<"busybox", "wget">>), Then(Words(<<"enable">>),
                Then(<<>>, Words(<<"busybox", "none">>))))))) @@
  "look"     :> (Words(<<"which", "wget", "gcc">>) \o <<Op("&&")>> \o Words(<<"stat", "f">>)
                   \o <<Op("||")>> \o Words(<<"ls", "-l">>) \o <<Op("|")>> \o Words(<<"sort">>)
                   \o <<Op(";")>> \o Then(Words(<<"systemctl", "stop", "x">>),
                Then(Words(<<"systemctl", "status", "x">>), Words(<<"dpkg", "-l">>)))) @@
  "exit"     :> Then(Words(<<"sh", "-c", "logout">>), Words(<<"ls">>)) @@
  "logout"   :> Words(<<"exit">>) @@
  "ssh nas"  :> Words(<<"ssh", "nas">>) @@
  "$(ssh)"   :> <<Lit("echo"), Sub("ssh nas")>> @@
  "exfil"    :> Then(Words(<<"scp", "f", "host:path">>), Then(Words(<<"rsync", "host:path">>),
                Words(<<"mysql", "-psecret", "-p">>))) @@
  "fetch"    :> Then(Words(<<"tftp", "-r">>), Then(Words(<<"ftpget", "h">>),
                Then(Words(<<"curl", "-o", "u">>), Then(Words(<<"python3", "-c", "x">>),
                Then(Words(<<"tar", "-x", "f">>), Then(Words(<<"jp2a", "f">>),
                Then(Words(<<"vault">>), Words(<<"nc">>)))))))) @@
  "secrets"  :> Then(Words(<<"su">>), Words(<<"passwd">>)) @@
  "tools"    :> Then(Words(<<"gcc", "f">>), Then(Words(<<"apt", "install", "pkg">>),
                Then(Words(<<"apt", "remove", "pkg">>), Then(Words(<<"pip", "install", "x">>), Then(Words(<<"find">>), Words(<<"top">>)))))) @@
  "edit"     :> Then(Words(<<"vi", "f">>), Then(Words(<<"crontab", "-e">>), Then(Words(<<"crontab", "f">>),
                Words(<<"crontab", "-u", "x", "-r">>))))

MCPlain == "B64" :> "/bin/busybox base64" @@ "B64ls" :> "ls"

\* Any line that is not only run by others, and then one that depends on what
\* the first left behind: variables, files, a pivoted shell.
MCTyped == <<DOMAIN MCText \ {"sh -c $X", "logout", "wget u", "/bin/busybox base64"},
             {"recurse", "wget $()", "nested", "drop", "exit", "ssh nas", "$(ssh)", "secrets"}>>

MCFiles == {"f", "g", "loot.jpg", "/usr/bin/pkg"}

=============================================================================
