\* Two connections on every service, two sources of which the table tracks
\* one, the real credential, a guess at a known account and an unknown one.
SPECIFICATION FairSpec
CONSTANTS
  c1 = c1
  c2 = c2
  s1 = s1
  s2 = s2
  real = real
  guess = guess
  other = other
  Conns = {c1, c2}
  Sources = {s1, s2}
  Creds = {real, guess, other}
  RealCreds = {real}
  KnownCreds = {real, guess}
  DefaultCreds = {}
  Enabled = TRUE
  Appliance = TRUE
  AfterTries = 2
  MaxSources = 1
  Protos = {"telnet", "ssh", "ftp", "cisco"}
  Tries <- FewTries
INVARIANTS TypeOK ShellIsEarned
PROPERTIES StaysCracked GuesserGetsIn
