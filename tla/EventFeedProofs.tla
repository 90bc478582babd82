-------------------------- MODULE EventFeedProofs --------------------------
(***************************************************************************)
(* Proofs about EventFeed, for any events and clients, any length of a     *)
(* line, any gate and any number of breaks and kills.                      *)
(***************************************************************************)
EXTENDS EventFeed, FiniteSetTheorems, FunctionTheorems, SequenceTheorems,
        WellFoundedInduction, TLAPS

-----------------------------------------------------------------------------
(* The log file.                                                           *)

Bytes == Events \X (1..LineBytes)
States == {"new", "writing", "logged", "dropped", "ignored", "killed"}

LogTyped ==
  /\ file \in Seq(Bytes)
  /\ pc \in [Events -> States]
  /\ mu \in Events \cup {None}
  /\ logger \in {"open", "closed"}
  /\ dropped \in Nat /\ kills \in Nat

\* Of all goroutines, hapwatch's included, one at most is writing.
OneWriter == \A e \in Events : pc[e] = "writing" <=> mu = e

\* A byte stands behind all bytes of its line before it, and no byte is
\* written twice.
Contiguous ==
  \A i \in 1..Len(file) : \A m \in 1..file[i][2] :
    /\ i - file[i][2] + m \in 1..Len(file)
    /\ file[i - file[i][2] + m] = <<file[i][1], m>>

WrittenOnce == \A i, j \in 1..Len(file) : file[i] = file[j] => i = j

\* How far the line of e has come in the file f, by how its Log ended; n is
\* the number of its bytes.
Came(f, e, state, n) ==
  /\ state \in {"new", "ignored"} => \A i \in 1..Len(f) : f[i][1] # e
  /\ state = "logged" => \E i \in 1..Len(f) : f[i] = <<e, LineBytes>>
  /\ state = "writing" =>
       /\ n \in 0..(LineBytes - 1)
       /\ n = 0 => \A i \in 1..Len(f) : f[i][1] # e
       /\ n > 0 => Len(f) > 0 /\ f[Len(f)] = <<e, n>>

Progress == \A e \in Events : Came(file, e, pc[e], Done(e))

\* What is behind a byte: the next one of its line, or the first one of another
\* when the line is complete or its write was given up.
Successors ==
  \A i \in 1..Len(file) :
    i + 1 \in 1..Len(file) =>
      \/ file[i][2] = LineBytes
      \/ file[i + 1] = <<file[i][1], file[i][2] + 1>>
      \/ file[i + 1][2] = 1 /\ pc[file[i][1]] \in {"dropped", "killed"}

\* The events that were logged are finitely many.
Started == {e \in Events : pc[e] # "new"}

FileInv ==
  /\ LogTyped /\ OneWriter /\ Contiguous /\ WrittenOnce /\ Progress /\ Successors
  /\ IsFiniteSet(Started)

LEMMA InitFile == Init => FileInv
  <1> SUFFICES ASSUME Init PROVE FileInv
    OBVIOUS
  <1>1. LogTyped
    BY DEF Init, LogTyped, States, Bytes
  <1>2. /\ file = <<>> /\ Len(file) = 0 /\ mu = None /\ None \notin Events
        /\ \A e \in Events : pc[e] = "new"
    BY NoneAssumption DEF Init
  <1>3. Started = {}
    BY <1>2 DEF Started
  <1>4. OneWriter /\ Contiguous /\ WrittenOnce /\ Progress /\ Successors
    BY <1>2 DEF OneWriter, Contiguous, WrittenOnce, Progress, Came, Successors
  <1> QED
    BY <1>1, <1>3, <1>4, FS_EmptySet DEF FileInv

LEMMA ByteFacts ==
  ASSUME LogTyped
  PROVE  /\ Len(file) \in Nat
         /\ \A i \in 1..Len(file) : /\ file[i] \in Bytes
                                    /\ file[i] = <<file[i][1], file[i][2]>>
                                    /\ file[i][1] \in Events /\ file[i][2] \in 1..LineBytes
  <1>1. Len(file) \in Nat /\ \A i \in 1..Len(file) : file[i] \in Bytes
    BY DEF LogTyped
  <1> QED
    BY <1>1 DEF Bytes

\* The file is left alone, and an event moves on without touching a finished one.
LEMMA FileKept ==
  ASSUME FileInv, UNCHANGED file, pc' \in [Events -> States],
         mu' \in Events \cup {None}, logger' \in {"open", "closed"}, dropped' \in Nat, kills' \in Nat,
         OneWriter', IsFiniteSet(Started'),
         \A e \in Events :
           \/ pc'[e] = pc[e]
           \/ pc[e] = "new" /\ pc'[e] \in {"writing", "ignored"}
           \/ pc[e] = "writing" /\ pc'[e] \in {"dropped", "killed"}
  PROVE  FileInv'
  <1>1. LogTyped'
    BY DEF FileInv, LogTyped
  <1>2. Contiguous' /\ WrittenOnce'
    BY DEF FileInv, Contiguous, WrittenOnce
  <1>3. \A e \in Events : Done(e)' = Done(e)
    BY DEF Done
  <1>4. \A e \in Events : (\A i \in 1..Len(file) : file[i][1] # e) => Done(e) = 0
    BY FS_EmptySet DEF Done
  <1>5. Progress'
    <2> SUFFICES ASSUME NEW e \in Events PROVE Came(file, e, pc'[e], Done(e))
      BY <1>3, Zenon DEF Progress
    <2>0. Came(file, e, pc[e], Done(e))
      BY DEF FileInv, Progress
    <2>1. CASE pc'[e] = pc[e]
      BY <2>0, <2>1
    <2>2. CASE pc[e] = "new" /\ pc'[e] \in {"writing", "ignored"}
      <3>1. \A i \in 1..Len(file) : file[i][1] # e
        BY <2>0, <2>2 DEF Came
      <3>2. Done(e) = 0 /\ 0 \in 0..(LineBytes - 1)
        BY <1>4, <3>1, BoundsAssumption
      <3> QED
        BY <2>2, <3>1, <3>2 DEF Came
    <2>3. CASE pc[e] = "writing" /\ pc'[e] \in {"dropped", "killed"}
      BY <2>3 DEF Came
    <2> QED
      BY <2>1, <2>2, <2>3
  <1>6. Successors'
    BY ByteFacts DEF FileInv, Successors
  <1> QED
    BY <1>1, <1>2, <1>5, <1>6 DEF FileInv

\* One more byte of e: the place of the byte is new, and so is its number.
LEMMA DoneGrows ==
  ASSUME LogTyped, NEW e \in Events, NEW k, file' = Append(file, <<e, k>>)
  PROVE  /\ Done(e) \in Nat /\ Done(e)' = Done(e) + 1
         /\ \A d \in Events \ {e} : Done(d)' = Done(d)
  <1> DEFINE n == Len(file)
             Of(d) == {i \in 1..n : file[i][1] = d}
             OfP(d) == {i \in 1..Len(file') : file'[i][1] = d}
  <1>1. /\ n \in Nat /\ Len(file') = n + 1 /\ file'[n + 1] = <<e, k>>
        /\ \A i \in 1..n : file'[i] = file[i]
    BY ByteFacts DEF LogTyped
  <1>2. 1..(n + 1) = (1..n) \cup {n + 1} /\ n + 1 \notin 1..n
    BY <1>1
  <1>3. IsFiniteSet(1..n)
    BY <1>1, FS_Interval
  <1>4. \A d : Of(d) \in SUBSET (1..n)
    OBVIOUS
  <1>5. \A d : IsFiniteSet(Of(d))
    BY <1>3, <1>4, FS_Subset
  <1>6. <<e, k>>[1] = e
    OBVIOUS
  <1>7. OfP(e) = Of(e) \cup {n + 1} /\ n + 1 \notin Of(e)
    BY <1>1, <1>2, <1>6
  <1>8. \A d \in Events \ {e} : OfP(d) = Of(d)
    BY <1>1, <1>2, <1>6
  <1>9. Done(e) = Cardinality(Of(e)) /\ \A d : Done(d) = Cardinality(Of(d))
    BY DEF Done
  <1>10. \A d : Done(d)' = Cardinality(OfP(d))
    BY DEF Done
  <1> HIDE DEF Of, OfP
  <1> QED
    BY <1>5, <1>7, <1>8, <1>9, <1>10, FS_AddElement, FS_CardinalityType

\* A line whose Log is over is complete, or its write was given up.
LEMMA Finished ==
  ASSUME FileInv, NEW e \in Events, pc[e] # "writing", Len(file) > 0, file[Len(file)][1] = e,
         file[Len(file)][2] # LineBytes
  PROVE  pc[e] \in {"dropped", "killed"}
  <1> DEFINE n == Len(file)
             j == file[n][2]
  <1>1. n \in Nat \ {0} /\ n \in 1..n /\ file[n] = <<e, j>> /\ j \in 1..LineBytes /\ LineBytes \in Nat
    BY ByteFacts, BoundsAssumption DEF FileInv
  <1>2. Came(file, e, pc[e], Done(e))
    BY DEF FileInv, Progress
  <1>3. pc[e] \notin {"new", "ignored"}
    BY <1>1, <1>2 DEF Came
  <1>4. ASSUME pc[e] = "logged" PROVE FALSE
    <2>1. PICK i \in 1..n : file[i] = <<e, LineBytes>>
      BY <1>2, <1>4 DEF Came
    <2>2. file[i][1] = e /\ file[i][2] = LineBytes
      BY <2>1
    <2>3. i - LineBytes + j \in 1..n /\ file[i - LineBytes + j] = <<e, j>>
      BY <1>1, <2>2 DEF FileInv, Contiguous
    <2>4. i - LineBytes + j = n
      BY <1>1, <2>3 DEF FileInv, WrittenOnce
    <2> QED
      BY <1>1, <2>4
  <1>5. pc[e] \in States
    BY DEF FileInv, LogTyped
  <1> QED
    BY <1>3, <1>4, <1>5 DEF States

LEMMA WriteByteFile ==
  ASSUME FileInv, NEW e \in Events, WriteByte(e)
  PROVE  FileInv'
  <1> DEFINE n == Len(file)
             k == Done(e) + 1
  <1>0. LineBytes \in Nat \ {0} /\ n \in Nat
    BY BoundsAssumption, ByteFacts DEF FileInv
  <1>1. /\ pc[e] = "writing" /\ file' = Append(file, <<e, k>>)
        /\ pc' = [pc EXCEPT ![e] = IF k = LineBytes THEN "logged" ELSE @]
        /\ mu' = IF k = LineBytes THEN None ELSE mu
        /\ UNCHANGED <<logger, dropped, kills>>
    BY DEF WriteByte
  <1>2. LogTyped /\ Done(e) \in Nat /\ Done(e)' = k /\ \A d \in Events \ {e} : Done(d)' = Done(d)
    BY <1>1, DoneGrows DEF FileInv
  <1>3. /\ Done(e) \in 0..(LineBytes - 1)
        /\ Done(e) = 0 => \A i \in 1..n : file[i][1] # e
        /\ Done(e) > 0 => n > 0 /\ file[n] = <<e, Done(e)>>
    BY <1>1 DEF FileInv, Progress, Came
  <1>4. k \in 1..LineBytes /\ k \in Nat
    BY <1>0, <1>2, <1>3
  <1>5. /\ Len(file') = n + 1 /\ file'[n + 1] = <<e, k>> /\ file'[n + 1][1] = e /\ file'[n + 1][2] = k
        /\ \A i \in 1..n : file'[i] = file[i]
    BY <1>1, <1>2 DEF LogTyped
  <1>6. \A i \in 1..(n + 1) : i \in 1..n \/ i = n + 1
    BY <1>0
  <1>7. /\ \A i \in 1..n : /\ file[i] = <<file[i][1], file[i][2]>>
                           /\ file[i][1] \in Events /\ file[i][2] \in 1..LineBytes
    BY <1>2, ByteFacts
  <1>8. \A d \in Events : d # e => pc[d] # "writing" /\ pc'[d] = pc[d]
    BY <1>1, <1>2 DEF FileInv, OneWriter, LogTyped
  <1>9. pc'[e] = IF k = LineBytes THEN "logged" ELSE "writing"
    BY <1>1, <1>2 DEF LogTyped
  <1>10. LogTyped'
    <2>1. <<e, k>> \in Bytes
      BY <1>4 DEF Bytes
    <2>2. file' \in Seq(Bytes)
      BY <1>1, <1>2, <2>1, AppendProperties DEF LogTyped
    <2>3. pc' \in [Events -> States]
      BY <1>1, <1>2 DEF LogTyped, States
    <2> QED
      BY <1>1, <1>2, <2>2, <2>3 DEF LogTyped
  <1>11. OneWriter'
    BY <1>1, <1>8, <1>9, NoneAssumption DEF FileInv, OneWriter
  <1> HIDE DEF k
  <1>12. Contiguous'
    <2> SUFFICES ASSUME NEW i \in 1..(n + 1), NEW m \in 1..file'[i][2]
                 PROVE  /\ i - file'[i][2] + m \in 1..(n + 1)
                        /\ file'[i - file'[i][2] + m] = <<file'[i][1], m>>
      BY <1>5 DEF Contiguous
    <2>1. CASE i \in 1..n
      <3>1. file'[i] = file[i] /\ file[i][2] \in 1..LineBytes
        BY <1>5, <1>7, <2>1
      <3>2. i - file[i][2] + m \in 1..n /\ file[i - file[i][2] + m] = <<file[i][1], m>>
        BY <2>1, <3>1 DEF FileInv, Contiguous
      <3> QED
        BY <1>0, <1>5, <3>1, <3>2
    <2>2. CASE i = n + 1 /\ m = k
      <3>1. n + 1 - k + k = n + 1 /\ n + 1 \in 1..(n + 1)
        BY <1>0, <1>4
      <3> QED
        BY <1>5, <2>2, <3>1
    <2>3. CASE i = n + 1 /\ m # k
      <3>1. m \in 1..k /\ m \in 1..(k - 1) /\ k - 1 = Done(e) /\ Done(e) > 0
        BY <1>2, <1>4, <1>5, <2>3 DEF k
      <3>2. n \in 1..n /\ file[n][1] = e /\ file[n][2] = k - 1
        BY <1>0, <1>3, <3>1
      <3>3. n - (k - 1) + m \in 1..n /\ file[n - (k - 1) + m] = <<e, m>>
        BY <3>1, <3>2 DEF FileInv, Contiguous
      <3> DEFINE q == n - (k - 1) + m
      <3>4. q = n + 1 - k + m
        BY <1>0, <1>4, <3>1
      <3>5. q \in 1..(n + 1) /\ file'[q] = <<e, m>>
        BY <1>0, <1>5, <3>3
      <3> HIDE DEF q
      <3>7. i = n + 1 /\ file'[i][1] = e /\ file'[i][2] = k
        BY <1>5, <2>3
      <3>6. i - file'[i][2] + m = q /\ file'[i][1] = e
        BY <1>0, <1>4, <3>1, <3>4, <3>7
      <3> QED
        BY <3>5, <3>6
    <2> QED
      BY <1>6, <2>1, <2>2, <2>3
  <1>13. \A i \in 1..n : file[i] # <<e, k>>
    <2> SUFFICES ASSUME NEW i \in 1..n, file[i] = <<e, k>> PROVE FALSE
      OBVIOUS
    <2>1. file[i][1] = e /\ file[i][2] = k
      OBVIOUS
    <2>2. Done(e) > 0 /\ file[n] = <<e, Done(e)>> /\ k - 1 = Done(e) /\ k - 1 \in 1..k
      BY <1>2, <1>3, <2>1 DEF k
    <2>3. i - k + (k - 1) \in 1..n /\ file[i - k + (k - 1)] = <<e, k - 1>>
      BY <2>1, <2>2 DEF FileInv, Contiguous
    <2>4. i - k + (k - 1) = i - 1
      BY <1>4
    <2>6. i - 1 \in 1..n /\ n \in 1..n /\ file[i - 1] = file[n]
      BY <1>0, <2>2, <2>3, <2>4
    <2>5. i - 1 = n
      BY <2>6 DEF FileInv, WrittenOnce
    <2> QED
      BY <1>0, <2>5
  <1>14. WrittenOnce'
    <2> SUFFICES ASSUME NEW i \in 1..(n + 1), NEW j \in 1..(n + 1), file'[i] = file'[j]
                 PROVE  i = j
      BY <1>5 DEF WrittenOnce
    <2>1. CASE i \in 1..n /\ j \in 1..n
      BY <1>5, <2>1 DEF FileInv, WrittenOnce
    <2> QED
      BY <1>5, <1>6, <1>13, <2>1
  <1>15. Progress'
    <2> SUFFICES ASSUME NEW d \in Events PROVE Came(file', d, pc'[d], Done(d)')
      BY Zenon DEF Progress
    <2>1. CASE d = e /\ k = LineBytes
      <3>1. n + 1 \in 1..Len(file') /\ file'[n + 1] = <<d, LineBytes>>
        BY <1>0, <1>5, <2>1
      <3> QED
        BY <1>9, <2>1, <3>1 DEF Came
    <2>2. CASE d = e /\ k # LineBytes
      <3>1. Done(d)' = k /\ k \in 0..(LineBytes - 1) /\ k # 0
        BY <1>0, <1>2, <1>4, <2>2
      <3>2. Len(file') > 0 /\ file'[Len(file')] = <<d, k>>
        BY <1>0, <1>5, <2>2
      <3> QED
        BY <1>9, <2>2, <3>1, <3>2 DEF Came
    <2>3. CASE d # e
      <3>1. Came(file, d, pc[d], Done(d)) /\ pc'[d] = pc[d] /\ pc[d] # "writing"
        BY <1>8, <2>3 DEF FileInv, Progress
      <3>2. pc[d] \in {"new", "ignored"} => \A i \in 1..Len(file') : file'[i][1] # d
        BY <1>5, <1>6, <2>3, <3>1 DEF Came
      <3>3. pc[d] = "logged" => \E i \in 1..Len(file') : file'[i] = <<d, LineBytes>>
        BY <1>0, <1>5, <3>1 DEF Came
      <3> QED
        BY <3>1, <3>2, <3>3 DEF Came
    <2> QED
      BY <2>1, <2>2, <2>3
  <1>16. Successors'
    <2> SUFFICES ASSUME NEW i \in 1..(n + 1), i + 1 \in 1..(n + 1)
                 PROVE  \/ file'[i][2] = LineBytes
                        \/ file'[i + 1] = <<file'[i][1], file'[i][2] + 1>>
                        \/ file'[i + 1][2] = 1 /\ pc'[file'[i][1]] \in {"dropped", "killed"}
      BY <1>5, Zenon DEF Successors
    <2>0. i \in 1..n /\ file'[i] = file[i]
      BY <1>0, <1>5
    <2>1. CASE i + 1 \in 1..n
      <3>1. \/ file[i][2] = LineBytes
            \/ file[i + 1] = <<file[i][1], file[i][2] + 1>>
            \/ file[i + 1][2] = 1 /\ pc[file[i][1]] \in {"dropped", "killed"}
        BY <2>0, <2>1 DEF FileInv, Successors
      <3>2. file'[i + 1] = file[i + 1]
        BY <1>5, <2>1
      <3>3. pc[file[i][1]] \in {"dropped", "killed"} => pc'[file[i][1]] = pc[file[i][1]]
        BY <1>1, <1>7, <1>8, <2>0
      <3> QED
        BY <2>0, <3>1, <3>2, <3>3
    <2>2. CASE i = n
      <3>1. CASE file[n][1] = e
        <4>1. Done(e) > 0
          BY <1>2, <1>3, <2>0, <2>2, <3>1
        <4>2. file[n][2] = Done(e)
          BY <1>3, <4>1
        <4> QED
          BY <1>5, <2>0, <2>2, <3>1, <4>2 DEF k
      <3>2. CASE file[n][1] # e
        <4>1. k = 1
          BY <1>2, <1>3, <3>2 DEF k
        <4>2. file[n][2] = LineBytes \/ pc[file[n][1]] \in {"dropped", "killed"}
          BY <1>0, <1>7, <1>8, <2>0, <2>2, <3>2, Finished
        <4>3. pc'[file[n][1]] = pc[file[n][1]]
          BY <1>7, <1>8, <2>0, <2>2, <3>2
        <4> QED
          BY <1>5, <2>0, <2>2, <4>1, <4>2, <4>3
      <3> QED
        BY <3>1, <3>2
    <2> QED
      BY <1>0, <2>0, <2>1, <2>2
  <1>17. Started' = Started
    BY <1>1, <1>8, <1>9 DEF Started
  <1> QED
    BY <1>10, <1>11, <1>12, <1>14, <1>15, <1>16, <1>17 DEF FileInv

LEMMA NextFile == FileInv /\ [Next]_vars => FileInv'
  <1> SUFFICES ASSUME FileInv, [Next]_vars PROVE FileInv'
    OBVIOUS
  <1>0. /\ pc \in [Events -> States] /\ mu \in Events \cup {None} /\ logger \in {"open", "closed"}
        /\ dropped \in Nat /\ kills \in Nat /\ OneWriter /\ IsFiniteSet(Started)
    BY DEF FileInv, LogTyped
  <1>a. {"writing", "ignored", "dropped", "killed"} \subseteq States
    BY DEF States
  <1>b. \A e \in Events : IsFiniteSet(Started \cup {e})
    BY <1>0, FS_AddElement
  <1>1. ASSUME NEW e \in Events, Log(e) PROVE FileInv'
    <2>1. OneWriter'
      BY <1>0, <1>1, NoneAssumption DEF Log, OneWriter
    <2>2. Started' = Started \cup {e}
      BY <1>0, <1>1 DEF Log, Started
    <2>3. pc' \in [Events -> States] /\ mu' \in Events \cup {None}
      BY <1>0, <1>1, <1>a DEF Log
    <2>4. \A d \in Events : pc'[d] = pc[d] \/ (pc[d] = "new" /\ pc'[d] \in {"writing", "ignored"})
      BY <1>0, <1>1 DEF Log
    <2> QED
      BY <1>0, <1>1, <1>b, <2>1, <2>2, <2>3, <2>4, FileKept DEF Log
  <1>2. ASSUME NEW e \in Events, LogClosed(e) PROVE FileInv'
    <2>1. OneWriter'
      BY <1>0, <1>2 DEF LogClosed, OneWriter
    <2>2. Started' = Started \cup {e}
      BY <1>0, <1>2 DEF LogClosed, Started
    <2>3. pc' \in [Events -> States]
      BY <1>0, <1>2, <1>a DEF LogClosed
    <2>4. \A d \in Events : pc'[d] = pc[d] \/ (pc[d] = "new" /\ pc'[d] \in {"writing", "ignored"})
      BY <1>0, <1>2 DEF LogClosed
    <2> QED
      BY <1>0, <1>2, <1>b, <2>1, <2>2, <2>3, <2>4, FileKept DEF LogClosed
  <1>3. ASSUME NEW e \in Events, WriteByte(e) PROVE FileInv'
    BY <1>3, WriteByteFile
  <1>4. ASSUME NEW e \in Events, WriteFails(e) PROVE FileInv'
    <2>1. OneWriter'
      BY <1>0, <1>4, NoneAssumption DEF WriteFails, OneWriter
    <2>2. Started' = Started
      BY <1>0, <1>4 DEF WriteFails, Started
    <2>3. pc' \in [Events -> States] /\ dropped' \in Nat
      BY <1>0, <1>4, <1>a DEF WriteFails
    <2>4. \A d \in Events : pc'[d] = pc[d] \/ (pc[d] = "writing" /\ pc'[d] \in {"dropped", "killed"})
      BY <1>0, <1>4 DEF WriteFails
    <2> QED
      BY <1>0, <1>4, <2>1, <2>2, <2>3, <2>4, FileKept DEF WriteFails
  <1>5. CASE Close
    <2>1. OneWriter' /\ Started' = Started
      BY <1>0, <1>5 DEF Close, OneWriter, Started
    <2> QED
      BY <1>0, <1>5, <2>1, FileKept DEF Close
  <1>6. CASE Restart
    <2>1. OneWriter'
      BY <1>0, <1>6, NoneAssumption, OutsideAssumption DEF Restart, OneWriter
    <2>2. Started' = Started
      BY <1>0, <1>6 DEF Restart, Started
    <2>3. pc' \in [Events -> States] /\ kills' \in Nat /\ dropped' \in Nat
      BY <1>0, <1>6, <1>a DEF Restart
    <2>4. \A d \in Events : pc'[d] = pc[d] \/ (pc[d] = "writing" /\ pc'[d] \in {"dropped", "killed"})
      BY <1>0, <1>6 DEF Restart
    <2> QED
      BY <1>0, <1>6, <2>1, <2>2, <2>3, <2>4, FileKept DEF Restart
  <1>7. CASE UNCHANGED logVars
    <2>1. OneWriter' /\ Started' = Started
      BY <1>0, <1>7 DEF logVars, OneWriter, Started
    <2> QED
      BY <1>0, <1>7, <2>1, FileKept DEF logVars
  <1>8. CASE WatcherKilled
    <2>1. mu \in Events /\ pc' = [pc EXCEPT ![mu] = "killed"] /\ mu' = None
          /\ UNCHANGED <<file, logger, dropped, kills>>
      BY <1>8, OutsideAssumption DEF WatcherKilled
    <2>2. pc[mu] = "writing"
      BY <1>0, <2>1 DEF OneWriter
    <2>3. OneWriter'
      BY <1>0, <2>1, NoneAssumption DEF OneWriter
    <2>4. Started' = Started
      BY <1>0, <2>1, <2>2 DEF Started
    <2>5. pc' \in [Events -> States]
      BY <1>0, <1>a, <2>1
    <2>6. \A d \in Events : pc'[d] = pc[d] \/ (pc[d] = "writing" /\ pc'[d] \in {"dropped", "killed"})
      BY <1>0, <2>1, <2>2
    <2> QED
      BY <1>0, <2>1, <2>3, <2>4, <2>5, <2>6, FileKept
  <1> QED
    BY <1>1, <1>2, <1>3, <1>4, <1>5, <1>6, <1>7, <1>8
    DEF Next, HandlerEnds, Connect, Emit, Receive, Break, vars, logVars

LEMMA FileIsInvariant == Spec => []FileInv
  BY InitFile, NextFile, PTL DEF Spec

-----------------------------------------------------------------------------
(* What a torn write costs.                                                *)

Torn == {e \in Events : pc[e] \in {"dropped", "killed"}}
Lost == {e \in Events : pc[e] \in {"logged", "dropped", "killed"}} \ readEntries

\* Of an entry that was written whole and is lost, the remains before it.
Spoils(t, e) ==
  \E b \in 1..Len(file) :
    b + 1 \in 1..Len(file) /\ file[b][1] = t /\ file[b + 1] = <<e, 1>>

LEMMA LostIsSpoiled ==
  ASSUME FileInv, NEW e \in Lost, pc[e] = "logged"
  PROVE  \E t \in Torn : Spoils(t, e)
  <1>0. /\ LineBytes \in Nat \ {0} /\ Len(file) \in Nat /\ e \in Events
        /\ \A i \in 1..Len(file) : /\ file[i] = <<file[i][1], file[i][2]>>
                                   /\ file[i][1] \in Events /\ file[i][2] \in 1..LineBytes
    BY BoundsAssumption, ByteFacts DEF FileInv, Lost
  <1>1. PICK i \in 1..Len(file) : file[i] = <<e, LineBytes>>
    BY <1>0 DEF FileInv, Progress, Came
  <1>2. file[i][1] = e /\ file[i][2] = LineBytes
    BY <1>1
  <1> DEFINE b == i - LineBytes
  <1>3. \A m \in 1..LineBytes : b + m \in 1..Len(file) /\ file[b + m] = <<e, m>>
    BY <1>2 DEF FileInv, Contiguous
  <1>4. b \in Nat /\ b + 1 \in 1..Len(file) /\ file[b + 1] = <<e, 1>>
    BY <1>0, <1>3
  <1>5. ASSUME b \in Boundaries PROVE FALSE
    <2>1. i - 1 = b + LineBytes - 1 /\ i - 1 <= Len(file) /\ i \in LineEnds /\ i - 1 + 1 = i
      BY <1>0, <1>2 DEF LineEnds
    <2>2. SubSeq(file, b + 1, i - 1) = Text(e)
      <3> DEFINE s == SubSeq(file, b + 1, i - 1)
                 w == LineBytes - 1
      <3>1. file \in Seq(Bytes) /\ b + 1 \in 1..(Len(file) + 1) /\ i - 1 \in b..Len(file)
        BY <1>0, <1>4, <2>1 DEF FileInv, LogTyped
      <3>2. s = [m \in 1..w |-> file[b + m]]
        <4>1. i - 1 - (b + 1) + 1 = w
          BY <1>0, <1>4
        <4>2. Len(s) = w /\ s \in Seq(Bytes)
          BY <3>1, <4>1, SubSeqProperties, <1>0, <1>4
        <4>3. \A m \in 1..w : s[m] = file[b + m]
          BY <3>1, <4>1, SubSeqProperties, <1>0, <1>4
        <4> QED
          BY <4>2, <4>3, SMTT(30)
      <3>4. \A m \in 1..w : file[b + m] = <<e, m>>
        <4>1. 1..w \subseteq 1..LineBytes
          BY <1>0
        <4> QED
          BY <1>3, <4>1
      <3> HIDE DEF s, w
      <3>5. s = [m \in 1..w |-> <<e, m>>]
        BY <3>2, <3>4
      <3> QED
        BY <3>5 DEF Text, s, w
    <2>3. e \in readEntries
      BY <1>0, <1>5, <2>1, <2>2 DEF readEntries
    <2> QED
      BY <2>3 DEF Lost
  <1>6. b \in 1..Len(file) /\ file[b][2] # LineBytes
    BY <1>0, <1>4, <1>5 DEF Boundaries, LineEnds
  <1>7. file[b + 1] # <<file[b][1], file[b][2] + 1>>
    BY <1>0, <1>4, <1>6
  <1>8. pc[file[b][1]] \in {"dropped", "killed"}
    BY <1>4, <1>6, <1>7 DEF FileInv, Successors
  <1> QED
    BY <1>0, <1>4, <1>6, <1>8 DEF Torn, Spoils

\* The remains of one line are followed by the start of one line only.
LEMMA SpoilsOne ==
  ASSUME FileInv, NEW t \in Events, NEW d \in Events, NEW e \in Events, Spoils(t, d), Spoils(t, e)
  PROVE  d = e
  <1>0. /\ LineBytes \in Nat \ {0} /\ Len(file) \in Nat
        /\ \A i \in 1..Len(file) : /\ file[i] = <<file[i][1], file[i][2]>>
                                   /\ file[i][1] \in Events /\ file[i][2] \in 1..LineBytes
    BY BoundsAssumption, ByteFacts DEF FileInv
  <1>1. PICK b \in 1..Len(file) :
          b + 1 \in 1..Len(file) /\ file[b][1] = t /\ file[b + 1] = <<d, 1>>
    BY DEF Spoils
  <1>2. PICK c \in 1..Len(file) :
          c + 1 \in 1..Len(file) /\ file[c][1] = t /\ file[c + 1] = <<e, 1>>
    BY DEF Spoils
  <1>3. ASSUME NEW p \in 1..Len(file), NEW q \in 1..Len(file), NEW x \in Events,
               p + 1 \in 1..Len(file), file[p + 1] = <<x, 1>>, file[p][1] = file[q][1]
        PROVE  ~(file[p][2] < file[q][2])
    <2> SUFFICES ASSUME file[p][2] < file[q][2] PROVE FALSE
      OBVIOUS
    <2> DEFINE j == file[p][2]
               k == file[q][2]
               y == file[p][1]
    <2>1. j \in 1..k /\ j + 1 \in 1..k /\ j \in Nat /\ k \in Nat /\ file[p] = <<y, j>>
      BY <1>0
    <2>2. q - k + j \in 1..Len(file) /\ file[q - k + j] = <<y, j>>
      BY <1>3, <2>1 DEF FileInv, Contiguous
    <2>3. q - k + (j + 1) \in 1..Len(file) /\ file[q - k + (j + 1)] = <<y, j + 1>>
      BY <1>3, <2>1 DEF FileInv, Contiguous
    <2>4. q - k + j = p
      BY <2>1, <2>2 DEF FileInv, WrittenOnce
    <2>5. q - k + (j + 1) = p + 1
      BY <2>1, <2>4, SMTT(30)
    <2>6. <<y, j + 1>> = <<x, 1>>
      BY <1>3, <2>3, <2>5
    <2> QED
      BY <2>1, <2>6
  <1>4. file[b][2] = file[c][2]
    BY <1>0, <1>1, <1>2, <1>3
  <1>5. b = c
    <2>1. file[b] = <<t, file[b][2]>> /\ file[c] = <<t, file[c][2]>>
      BY <1>0, <1>1, <1>2
    <2>2. file[b] = file[c]
      BY <1>4, <2>1
    <2> QED
      BY <2>2 DEF FileInv, WrittenOnce
  <1> QED
    BY <1>1, <1>2, <1>5

\* TornWriteCost for every set of events and every length of a line: behind a
\* failed write or a kill the next line is appended to the remains, and
\* readEntries skips both; the mutex keeps every other line whole.
THEOREM TornWritesCostTwo == Spec => []TornWriteCost
  <1>1. ASSUME FileInv PROVE TornWriteCost
    <2> DEFINE K == {e \in Events : pc[e] = "killed"}
               D == {e \in Events : pc[e] = "dropped"}
               L == {e \in Lost : pc[e] = "logged"}
    <2>1. IsFiniteSet(Started) /\ K \in SUBSET Started /\ D \in SUBSET Started /\ L \in SUBSET Started
      BY <1>1 DEF FileInv, Started, Lost
    <2>2. IsFiniteSet(K) /\ IsFiniteSet(D) /\ IsFiniteSet(L) /\ IsFiniteSet(K \cap D)
      <3>1. K \cap D \in SUBSET Started
        BY <2>1
      <3> QED
        BY <2>1, <3>1, FS_Subset
    <2>3. Torn = K \cup D /\ K \cap D = {}
      BY DEF Torn
    <2>4. IsFiniteSet(Torn) /\ Cardinality(Torn) = Cardinality(K) + Cardinality(D)
      <3>1. Cardinality(K \cap D) = 0
        BY <2>3, FS_EmptySet
      <3>2. Cardinality(K) \in Nat /\ Cardinality(D) \in Nat
        BY <2>2, FS_CardinalityType
      <3> HIDE DEF K, D
      <3> QED
        BY <2>2, <2>3, <3>1, <3>2, FS_Union
    <2>5. Cardinality(L) <= Cardinality(Torn)
      <3> DEFINE f == [e \in L |-> CHOOSE t \in Torn : Spoils(t, e)]
      <3>1. \A e \in L : f[e] \in Torn /\ Spoils(f[e], e)
        BY <1>1, LostIsSpoiled
      <3>2. f \in [L -> Torn]
        BY <3>1
      <3>3. \A d, e \in L : f[d] = f[e] => d = e
        <4> SUFFICES ASSUME NEW d \in L, NEW e \in L, f[d] = f[e] PROVE d = e
          OBVIOUS
        <4>1. d \in Events /\ e \in Events /\ f[d] \in Events
          BY <3>1 DEF Torn, Lost
        <4>2. Spoils(f[d], d) /\ Spoils(f[d], e)
          BY <3>1
        <4> HIDE DEF f
        <4> QED
          BY <1>1, <4>1, <4>2, SpoilsOne
      <3> HIDE DEF f, L
      <3>4. f \in Injection(L, Torn)
        BY <3>2, <3>3, Fun_IsInj
      <3> QED
        BY <2>4, <3>4, FS_Injection
    <2>6. Lost \subseteq L \cup Torn
      BY DEF Lost, Torn
    <2>7. IsFiniteSet(L \cup Torn) /\ Cardinality(L \cup Torn) <= Cardinality(L) + Cardinality(Torn)
      <3>1. L \cap Torn = {} /\ Cardinality({}) = 0
        BY FS_EmptySet DEF Torn
      <3>2. Cardinality(L) \in Nat /\ Cardinality(Torn) \in Nat
        BY <2>2, <2>4, FS_CardinalityType
      <3> HIDE DEF L
      <3>3. /\ IsFiniteSet(L \cup Torn)
            /\ Cardinality(L \cup Torn) = Cardinality(L) + Cardinality(Torn) - Cardinality(L \cap Torn)
        BY <2>2, <2>4, FS_Union
      <3>4. Cardinality(L \cap Torn) = 0
        BY <3>1
      <3> QED
        BY <3>2, <3>3, <3>4
    <2>8. Cardinality(Lost) <= Cardinality(L \cup Torn) /\ Cardinality(Lost) \in Nat
      BY <2>6, <2>7, FS_Subset, FS_CardinalityType
    <2>9. Cardinality(K) \in Nat /\ Cardinality(D) \in Nat /\ Cardinality(L) \in Nat /\ Cardinality(L \cup Torn) \in Nat
      BY <2>2, <2>7, FS_CardinalityType
    <2>10. Cardinality(Lost) <= 2 * (Cardinality(K) + Cardinality(D))
      <3> HIDE DEF K, D, L
      <3> QED
        BY <2>4, <2>5, <2>7, <2>8, <2>9
    <2> QED
      BY <2>10 DEF TornWriteCost, Lost
  <1> QED
    BY <1>1, FileIsInvariant, PTL

-----------------------------------------------------------------------------
(* The gate and the types.                                                 *)

Open == {c \in Clients : offset[c] # None}

FeedTyped ==
  /\ offset \in [Clients -> Nat \cup {None}]
  /\ net \in [Clients -> Seq(Frames)]
  /\ got \in [Clients -> Seq(Frames)]
  /\ gate \in 0..MaxStreams
  /\ stale \in Nat /\ gate = stale + Cardinality(Open)
  /\ breaks \in Nat
  /\ IsFiniteSet(Open)

LEMMA InitFeed == Init => FeedTyped
  <1> SUFFICES ASSUME Init PROVE FeedTyped
    OBVIOUS
  <1>1. Open = {}
    BY DEF Init, Open
  <1>2. Cardinality(Open) = 0 /\ IsFiniteSet(Open)
    BY <1>1, FS_EmptySet
  <1> QED
    BY <1>2, BoundsAssumption DEF Init, FeedTyped

\* A set of naturals has a least element.
LEMMA LeastNat ==
  ASSUME NEW T \in SUBSET Nat, T # {}
  PROVE  \E m \in T : \A n \in T : m <= n
  <1> DEFINE R == OpToRel(<, Nat)
  <1>1. IsWellFoundedOn(R, Nat)
    BY NatLessThanWellFounded
  <1>2. \A x, y \in Nat : x < y => <<x, y>> \in R
    BY DEF OpToRel
  <1> HIDE DEF R
  <1>3. PICK m \in T : \A y \in T : ~(<<y, m>> \in R)
    BY <1>1, WFMin
  <1>4. \A n \in T : ~(n < m)
    BY <1>2, <1>3
  <1>5. \A n \in T : m <= n
    BY <1>4
  <1> QED
    BY <1>5, Zenon

\* The end of the next line is a line end, and the first one behind o.
LEMMA NextEndFacts ==
  ASSUME LogTyped, NEW o \in Nat, \E i \in LineEnds : i > o
  PROVE  /\ NextEnd(o) \in LineEnds /\ NextEnd(o) > o
         /\ \A j \in LineEnds : j > o => NextEnd(o) <= j
  <1> DEFINE T == {i \in LineEnds : i > o}
  <1>1. LineEnds \subseteq Nat
    BY ByteFacts DEF LineEnds
  <1>2. \E m \in T : \A n \in T : m <= n
    BY <1>1, LeastNat
  <1>3. \E i \in LineEnds : i > o /\ \A j \in LineEnds : j > o => i <= j
    BY <1>2
  <1> QED
    BY <1>3, Zenon DEF NextEnd

LEMMA LastIdTyped ==
  ASSUME FeedTyped, NEW c \in Clients
  PROVE  LastEventID(c) \in Nat \cup {None}
  <1>1. got[c] \in Seq(Frames)
    BY DEF FeedTyped
  <1>2. got[c] # <<>> => got[c][Len(got[c])] \in Frames
    BY <1>1
  <1> QED
    BY <1>2 DEF LastEventID, Frames

LEMMA NextFeed == FileInv /\ FeedTyped /\ [Next]_vars => FeedTyped'
  <1> SUFFICES ASSUME FileInv, FeedTyped, [Next]_vars PROVE FeedTyped'
    OBVIOUS
  <1>0. Len(file) \in Nat /\ LogTyped /\ None \notin Nat
    BY ByteFacts, NoneAssumption DEF FileInv
  <1>t. /\ offset \in [Clients -> Nat \cup {None}] /\ net \in [Clients -> Seq(Frames)]
        /\ got \in [Clients -> Seq(Frames)] /\ gate \in 0..MaxStreams /\ stale \in Nat
        /\ gate = stale + Cardinality(Open) /\ breaks \in Nat /\ IsFiniteSet(Open)
        /\ Cardinality(Open) \in Nat /\ MaxStreams \in Nat /\ gate \in Nat
    BY FS_CardinalityType, BoundsAssumption DEF FeedTyped
  <1>1. ASSUME NEW c \in Clients, Connect(c) PROVE FeedTyped'
    <2>1. Resume(c) \in Nat
      BY <1>0, LastIdTyped DEF Resume
    <2>2. Open' = Open \cup {c} /\ c \notin Open /\ offset' \in [Clients -> Nat \cup {None}]
      BY <1>0, <1>1, <1>t, <2>1 DEF Connect, Open
    <2>3. IsFiniteSet(Open') /\ Cardinality(Open') = Cardinality(Open) + 1
      BY <1>t, <2>2, FS_AddElement
    <2>4. gate' \in 0..MaxStreams /\ gate' = stale' + Cardinality(Open')
      BY <1>1, <1>t, <2>3 DEF Connect
    <2> QED
      BY <1>1, <1>t, <2>2, <2>3, <2>4 DEF Connect, FeedTyped
  <1>2. ASSUME NEW c \in Clients, Emit(c) PROVE FeedTyped'
    <2> DEFINE id == NextEnd(offset[c])
    <2>1. offset[c] \in Nat /\ id \in Nat
      <3>1. offset[c] \in Nat /\ \E i \in LineEnds : i > offset[c]
        BY <1>2, <1>t DEF Emit
      <3>2. NextEnd(offset[c]) \in LineEnds
        BY <1>0, <3>1, NextEndFacts DEF FileInv
      <3>3. LineEnds \subseteq Nat
        BY <1>0 DEF LineEnds
      <3> QED
        BY <3>1, <3>2, <3>3
    <2>2. offset' = [offset EXCEPT ![c] = id]
      BY <1>2 DEF Emit
    <2>3. net' = net \/ net' = [net EXCEPT ![c] = Append(@, [from |-> offset[c], id |-> id])]
      BY <1>2 DEF Emit
    <2> HIDE DEF id
    <2>4. Open' = Open
      BY <1>0, <1>2, <1>t, <2>1, <2>2 DEF Open, Emit
    <2> DEFINE x == [from |-> offset[c], id |-> id]
    <2>5. x \in Frames
      BY <2>1 DEF Frames
    <2>7. net' = net \/ net' = [net EXCEPT ![c] = Append(net[c], x)]
      BY <2>3
    <2> HIDE DEF x
    <2>8. Append(net[c], x) \in Seq(Frames)
      BY <1>t, <2>5
    <2>6. net' \in [Clients -> Seq(Frames)]
      BY <1>t, <2>7, <2>8
    <2> QED
      BY <1>2, <1>t, <2>1, <2>2, <2>4, <2>6 DEF Emit, FeedTyped
  <1>3. ASSUME NEW c \in Clients, Receive(c) PROVE FeedTyped'
    <2>1. Head(net[c]) \in Frames /\ Tail(net[c]) \in Seq(Frames)
      BY <1>3, <1>t DEF Receive
    <2>2. net' \in [Clients -> Seq(Frames)] /\ got' \in [Clients -> Seq(Frames)] /\ Open' = Open
      BY <1>3, <1>t, <2>1 DEF Receive, Open
    <2> QED
      BY <1>3, <1>t, <2>2 DEF Receive, FeedTyped
  <1>4. ASSUME NEW c \in Clients, Break(c) PROVE FeedTyped'
    <2>1. Open' = Open \ {c} /\ c \in Open
      BY <1>4, <1>t DEF Break, Open
    <2>2. IsFiniteSet(Open') /\ Cardinality(Open') = Cardinality(Open) - 1
      BY <1>t, <2>1, FS_RemoveElement
    <2>3. stale' \in Nat /\ gate' = stale' + Cardinality(Open')
      BY <1>4, <1>t, <2>2 DEF Break
    <2>4. <<>> \in Seq(Frames)
      OBVIOUS
    <2>5. offset' \in [Clients -> Nat \cup {None}] /\ net' \in [Clients -> Seq(Frames)]
      BY <1>4, <1>t, <2>4 DEF Break
    <2> QED
      BY <1>4, <1>t, <2>2, <2>3, <2>5 DEF Break, FeedTyped
  <1>5. CASE HandlerEnds
    <2>1. Open' = Open
      BY <1>5 DEF HandlerEnds, Open
    <2>2. stale' \in Nat /\ gate' \in 0..MaxStreams /\ gate' = stale' + Cardinality(Open)
      BY <1>5, <1>t DEF HandlerEnds
    <2> QED
      BY <1>5, <1>t, <2>1, <2>2 DEF HandlerEnds, FeedTyped
  <1>6. CASE Restart
    <2>1. Open' = {}
      BY <1>6 DEF Restart, Open
    <2>2. IsFiniteSet(Open') /\ Cardinality(Open') = 0
      BY <2>1, FS_EmptySet
    <2>3. <<>> \in Seq(Frames)
      OBVIOUS
    <2>4. /\ offset' \in [Clients -> Nat \cup {None}] /\ net' \in [Clients -> Seq(Frames)]
          /\ gate' \in 0..MaxStreams /\ stale' = 0 /\ gate' = 0
      BY <1>6, <1>t, <2>3 DEF Restart
    <2> QED
      BY <1>6, <1>t, <2>2, <2>4 DEF Restart, FeedTyped
  <1>7. CASE UNCHANGED feedVars
    <2>1. Open' = Open
      BY <1>7 DEF feedVars, Open
    <2> QED
      BY <1>7, <1>t, <2>1 DEF feedVars, FeedTyped
  <1> QED
    BY <1>1, <1>2, <1>3, <1>4, <1>5, <1>6, <1>7
    DEF Next, Log, LogClosed, WriteByte, WriteFails, Close, WatcherKilled, vars, feedVars

LEMMA FeedIsInvariant == Spec => [](FileInv /\ FeedTyped)
  BY InitFile, NextFile, InitFeed, NextFeed, PTL DEF Spec

\* Type correctness for all constants.  It holds the accounting of sseGate: a
\* token for every stream that is open, one whose browser is gone included, and
\* never more of them than the gate has, over breaks and restarts.
THEOREM FeedTypeCorrect == Spec => []TypeOK
  <1>1. FileInv /\ FeedTyped => TypeOK
    BY DEF FileInv, LogTyped, FeedTyped, TypeOK, Bytes, States, Open
  <1> QED
    BY <1>1, FeedIsInvariant, PTL

-----------------------------------------------------------------------------
(* The streams.                                                            *)

\* Frames f that are lines of a file whose lines end at the places ends, each
\* behind the one before it.  A line without text is never sent.
Good(ends, f) ==
  /\ \A i \in 1..Len(f) : /\ f[i].id \in ends
                          /\ \A j \in ends : ~(f[i].from < j /\ j < f[i].id)
  /\ \A i \in 1..(Len(f) - 1) : f[i + 1].from = f[i].id
  /\ f # <<>> => LineBytes > 1

\* A client that got the frames g, with the frames w on their way and its stream
\* at o, of a file of n bytes.
ClientOK(ends, n, g, w, o) ==
  /\ Good(ends, g \o w)
  /\ o # None => o \in 0..n
  /\ o # None /\ g \o w # <<>> => (g \o w)[Len(g \o w)].id = o
  /\ o = None => w = <<>>

StreamInv == \A c \in Clients : ClientOK(LineEnds, Len(file), got[c], net[c], offset[c])

LEMMA InitStreams == Init => StreamInv
  <1> SUFFICES ASSUME Init, NEW c \in Clients
               PROVE  ClientOK(LineEnds, Len(file), got[c], net[c], offset[c])
    BY DEF StreamInv
  <1>1. got[c] \o net[c] = <<>> /\ offset[c] = None /\ net[c] = <<>>
    BY DEF Init
  <1> QED
    BY <1>1 DEF Good, ClientOK

\* Frames that are good stay so when the file grows behind them.
LEMMA GoodGrows ==
  ASSUME NEW f \in Seq(Frames), NEW n \in Nat, NEW E \in SUBSET (1..n), NEW F \in SUBSET Nat,
         E \subseteq F, \A j \in F : j \in E \/ j > n, Good(E, f)
  PROVE  Good(F, f)
  <1> SUFFICES ASSUME NEW i \in 1..Len(f), NEW j \in F PROVE ~(f[i].from < j /\ j < f[i].id)
    BY DEF Good
  <1>1. f[i] \in Frames /\ f[i].id \in 1..n
    <2>1. f[i] \in Frames
      BY ElementOfSeq
    <2>2. f[i].id \in E
      BY DEF Good
    <2> QED
      BY <2>1, <2>2
  <1>2. CASE j \in E
    BY <1>2 DEF Good
  <1>3. CASE j > n
    BY <1>1, <1>3 DEF Frames
  <1> QED
    BY <1>2, <1>3

LEMMA GoodPrefix ==
  ASSUME NEW E, NEW f \in Seq(Frames), NEW g \in Seq(Frames), Good(E, f \o g)
  PROVE  Good(E, f)
  <1> DEFINE h == f \o g
  <1>1. /\ Len(f) \in Nat /\ Len(h) \in Nat /\ Len(f) <= Len(h)
        /\ \A i \in 1..Len(f) : h[i] = f[i]
        /\ f # <<>> => h # <<>>
    BY ConcatProperties
  <1> HIDE DEF h
  <1>2. Good(E, h)
    BY DEF h
  <1>3. \A i \in 1..Len(f) : i \in 1..Len(h)
    BY <1>1
  <1>4. \A i \in 1..(Len(f) - 1) : i \in 1..(Len(h) - 1) /\ i \in 1..Len(f) /\ i + 1 \in 1..Len(f)
    BY <1>1
  <1>5. \A i \in 1..(Len(f) - 1) : f[i + 1].from = f[i].id
    BY <1>1, <1>2, <1>4 DEF Good
  <1> QED
    BY <1>1, <1>2, <1>3, <1>5 DEF Good

LEMMA GoodAppend ==
  ASSUME NEW E, NEW f \in Seq(Frames), NEW x \in Frames, Good(E, f), x.id \in E, LineBytes > 1,
         \A j \in E : ~(x.from < j /\ j < x.id), f # <<>> => f[Len(f)].id = x.from
  PROVE  Good(E, Append(f, x))
  <1> DEFINE h == Append(f, x)
             n == Len(f)
  <1>1. n \in Nat /\ Len(h) = n + 1 /\ h[n + 1] = x /\ \A i \in 1..n : h[i] = f[i]
    BY AppendProperties
  <1> HIDE DEF h
  <1>2. \A i \in 1..(n + 1) : i \in 1..n \/ i = n + 1
    BY <1>1
  <1>3. \A i \in 1..Len(h) : h[i].id \in E /\ \A j \in E : ~(h[i].from < j /\ j < h[i].id)
    BY <1>1, <1>2 DEF Good
  <1>4. ASSUME NEW i \in 1..(Len(h) - 1) PROVE h[i + 1].from = h[i].id
    <2>1. CASE i = n
      <3>1. n \in 1..n /\ f # <<>>
        BY <1>1, <1>4, <2>1
      <3> QED
        BY <1>1, <2>1, <3>1
    <2>2. CASE i # n
      <3>1. i \in 1..(n - 1) /\ i \in 1..n /\ i + 1 \in 1..n
        BY <1>1, <1>4, <2>2
      <3> QED
        BY <1>1, <3>1 DEF Good
    <2> QED
      BY <2>1, <2>2
  <1> QED
    BY <1>3, <1>4 DEF Good, h

\* A stream that breaks.
LEMMA BrokenOK ==
  ASSUME NEW E, NEW n, NEW g \in Seq(Frames), NEW w \in Seq(Frames), NEW o, ClientOK(E, n, g, w, o)
  PROVE  ClientOK(E, n, g, <<>>, None)
  <1>1. g \o <<>> = g
    BY ConcatEmptySeq
  <1>2. Good(E, g)
    BY GoodPrefix DEF ClientOK
  <1> QED
    BY <1>1, <1>2 DEF ClientOK

\* A frame that arrives.
LEMMA ReceivedOK ==
  ASSUME NEW E, NEW n, NEW g \in Seq(Frames), NEW w \in Seq(Frames), NEW o, ClientOK(E, n, g, w, o),
         w # <<>>
  PROVE  ClientOK(E, n, Append(g, Head(w)), Tail(w), o)
  <1>1. Append(g, Head(w)) \o Tail(w) = g \o w
    OBVIOUS
  <1>2. o # None
    BY DEF ClientOK
  <1> QED
    BY <1>1, <1>2 DEF ClientOK

\* A stream that opens: at the last frame the browser got, or with none at m.
LEMMA OpenedOK ==
  ASSUME NEW E, NEW n \in Nat, NEW g \in Seq(Frames), NEW m \in 0..n, E \subseteq 1..n,
         ClientOK(E, n, g, <<>>, None)
  PROVE  ClientOK(E, n, g, <<>>, IF g = <<>> THEN m ELSE g[Len(g)].id)
  <1>1. g \o <<>> = g
    BY ConcatEmptySeq
  <1>2. Good(E, g)
    BY <1>1 DEF ClientOK
  <1>3. g # <<>> => Len(g) \in 1..Len(g)
    OBVIOUS
  <1>4. g # <<>> => g[Len(g)].id \in E
    BY <1>2, <1>3 DEF Good
  <1>5. \A i \in E : i \in 0..n /\ i # None
    BY NoneAssumption
  <1>6. m # None
    BY NoneAssumption
  <1> QED
    BY <1>1, <1>2, <1>4, <1>5, <1>6 DEF ClientOK

\* A stream that moves on with a frame.
LEMMA EmittedOK ==
  ASSUME NEW E, NEW n, NEW g \in Seq(Frames), NEW w \in Seq(Frames), NEW o \in Nat, o # None,
         ClientOK(E, n, g, w, o), NEW id \in Nat, id \in E, E \subseteq 0..n, LineBytes > 1,
         \A j \in E : ~(o < j /\ j < id)
  PROVE  ClientOK(E, n, g, Append(w, [from |-> o, id |-> id]), id)
  <1> DEFINE x == [from |-> o, id |-> id]
             f == g \o w
  <1>1. x \in Frames /\ x.from = o /\ x.id = id
    BY DEF Frames
  <1> HIDE DEF x
  <1>2. f \in Seq(Frames) /\ g \o Append(w, x) = Append(f, x)
    BY <1>1
  <1>3. Append(f, x)[Len(Append(f, x))] = x
    BY <1>1, <1>2
  <1> HIDE DEF f
  <1>4. Good(E, f) /\ (f # <<>> => f[Len(f)].id = x.from)
    BY <1>1 DEF ClientOK, f
  <1>5. Good(E, Append(f, x))
    BY <1>1, <1>2, <1>4, GoodAppend
  <1>6. id # None /\ id \in 0..n
    BY NoneAssumption
  <1>7. ClientOK(E, n, g, Append(w, x), id)
    BY <1>1, <1>2, <1>3, <1>5, <1>6 DEF ClientOK
  <1> QED
    BY <1>7 DEF x

\* A step that moves one client and leaves the file alone.
LEMMA OneClient ==
  ASSUME StreamInv, FeedTyped, NEW c \in Clients, UNCHANGED file, NEW g, NEW w, NEW o,
         got' = [got EXCEPT ![c] = g], net' = [net EXCEPT ![c] = w], offset' = [offset EXCEPT ![c] = o],
         ClientOK(LineEnds, Len(file), g, w, o)
  PROVE  StreamInv'
  <1>1. LineEnds' = LineEnds
    BY DEF LineEnds
  <1> SUFFICES ASSUME NEW d \in Clients
               PROVE  ClientOK(LineEnds, Len(file), got'[d], net'[d], offset'[d])
    BY <1>1, Zenon DEF StreamInv
  <1>2. CASE d = c
    BY <1>2 DEF FeedTyped
  <1>3. CASE d # c
    BY <1>3 DEF FeedTyped, StreamInv
  <1> QED
    BY <1>2, <1>3

\* The newline of a line with text is never the byte behind another newline.
LEMMA NoEmptyLine ==
  ASSUME FileInv, LineBytes > 1, NEW i \in LineEnds, i + 1 \in LineEnds
  PROVE  FALSE
  <1>1. /\ Len(file) \in Nat /\ LineBytes \in Nat /\ i \in 1..Len(file) /\ i + 1 \in 1..Len(file)
        /\ file[i][2] = LineBytes /\ file[i + 1][2] = LineBytes
    BY ByteFacts, BoundsAssumption DEF LineEnds, FileInv
  <1>2. LineBytes - 1 \in 1..file[i + 1][2] /\ (i + 1) - LineBytes + (LineBytes - 1) = i
    BY <1>1
  <1>3. file[i] = <<file[i + 1][1], LineBytes - 1>>
    BY <1>1, <1>2 DEF FileInv, Contiguous
  <1>4. file[i][2] = LineBytes - 1
    BY <1>3
  <1> QED
    BY <1>1, <1>4

LEMMA EmitStreams ==
  ASSUME FileInv, FeedTyped, StreamInv, NEW c \in Clients, Emit(c)
  PROVE  StreamInv'
  <1> DEFINE o == offset[c]
             id == NextEnd(o)
             x == [from |-> o, id |-> id]
             n == Len(file)
  <1>0. /\ LogTyped /\ n \in Nat /\ LineEnds \subseteq 1..n /\ LineBytes \in Nat \ {0}
        /\ \A i \in 1..n : file[i][2] \in 1..LineBytes
    BY ByteFacts, BoundsAssumption DEF FileInv, LineEnds
  <1>1. o \in Nat /\ o # None
    BY DEF Emit, FeedTyped
  <1>2. id \in LineEnds /\ id > o /\ \A j \in LineEnds : j > o => id <= j
    BY <1>0, <1>1, NextEndFacts DEF Emit
  <1>3. /\ offset' = [offset EXCEPT ![c] = id] /\ got' = got /\ UNCHANGED file
        /\ net' = IF id = o + 1 THEN net ELSE [net EXCEPT ![c] = Append(net[c], x)]
    BY DEF Emit, logVars
  <1>4. /\ got[c] \in Seq(Frames) /\ net[c] \in Seq(Frames) /\ ClientOK(LineEnds, n, got[c], net[c], o)
        /\ got' = [got EXCEPT ![c] = got[c]] /\ net = [net EXCEPT ![c] = net[c]]
    BY <1>3 DEF FeedTyped, StreamInv
  <1> HIDE DEF id, o, n
  <1>5. id \in Nat /\ id \in 0..n /\ id # None
    BY <1>0, <1>2, NoneAssumption
  <1>6. \A j \in LineEnds : ~(o < j /\ j < id)
    BY <1>0, <1>1, <1>2, <1>5
  <1> DEFINE f == got[c] \o net[c]
  <1>7. CASE id = o + 1
    <2>1. ASSUME f # <<>> PROVE FALSE
      <3>5. f \in Seq(Frames)
        BY <1>4, ConcatProperties
      <3>6. \A s \in Seq(Frames) : s # <<>> => Len(s) \in 1..Len(s)
        OBVIOUS
      <3>3. Len(f) \in 1..Len(f)
        BY <2>1, <3>5, <3>6, Zenon
      <3>4. LineBytes > 1 /\ o = f[Len(f)].id
        BY <1>1, <1>4, <2>1, Zenon DEF ClientOK, Good
      <3>1. LineBytes > 1 /\ o = f[Len(f)].id /\ Len(f) \in 1..Len(f)
        BY <3>3, <3>4
      <3>2. o \in LineEnds
        BY <1>4, <3>1 DEF ClientOK, Good
      <3> QED
        BY <1>2, <1>7, <3>1, <3>2, NoEmptyLine
    <2>2. ClientOK(LineEnds, n, got[c], net[c], id)
      BY <1>4, <1>5, <2>1 DEF ClientOK
    <2> QED
      BY <1>3, <1>4, <1>7, <2>2, OneClient DEF n
  <1>8. CASE id # o + 1
    <2>1. LineBytes > 1
      <3> SUFFICES ASSUME LineBytes = 1 PROVE FALSE
        BY <1>0
      <3>1. o + 1 \in 1..n
        BY <1>0, <1>1, <1>2, <1>5, <1>8
      <3>2. o + 1 \in LineEnds
        BY <1>0, <3>1 DEF LineEnds, n
      <3> QED
        BY <1>1, <1>2, <1>5, <1>8, <3>2
    <2>2. ClientOK(LineEnds, n, got[c], Append(net[c], x), id)
      <3>1. LineEnds \subseteq 0..n
        BY <1>0
      <3> QED
        BY <1>1, <1>2, <1>4, <1>5, <1>6, <2>1, <3>1, EmittedOK
    <2> HIDE DEF x
    <2>3. net' = [net EXCEPT ![c] = Append(net[c], x)]
      BY <1>3, <1>8
    <2> QED
      BY <1>3, <1>4, <2>2, <2>3, OneClient DEF n
  <1> QED
    BY <1>7, <1>8

LEMMA WriteStreams ==
  ASSUME FileInv, FeedTyped, StreamInv, NEW e \in Events, WriteByte(e)
  PROVE  StreamInv'
  <1> DEFINE n == Len(file)
             b == <<e, Done(e) + 1>>
  <1>1. file' = Append(file, b) /\ UNCHANGED <<got, net, offset>>
    BY DEF WriteByte, feedVars
  <1>2. n \in Nat /\ LineEnds \in SUBSET (1..n)
    BY ByteFacts DEF FileInv, LineEnds
  <1> HIDE DEF b
  <1>3. Len(file') = n + 1 /\ \A i \in 1..n : file'[i] = file[i]
    BY <1>1 DEF FileInv, LogTyped
  <1>4. LineEnds' = {i \in 1..Len(file') : file'[i][2] = LineBytes}
    BY DEF LineEnds
  <1>5. LineEnds' \in SUBSET Nat /\ LineEnds \subseteq LineEnds' /\ \A j \in LineEnds' : j \in LineEnds \/ j > n
    <2>1. \A i \in 1..n : i \in LineEnds' <=> i \in LineEnds
      BY <1>2, <1>3, <1>4 DEF LineEnds
    <2>2. LineEnds' \subseteq 1..(n + 1)
      BY <1>3, <1>4
    <2>3. \A j \in 1..(n + 1) : j \in Nat /\ (j \in 1..n \/ j > n)
      BY <1>2
    <2> QED
      BY <1>2, <2>1, <2>2, <2>3
  <1> DEFINE E == LineEnds'
  <1> HIDE DEF E
  <1> SUFFICES ASSUME NEW c \in Clients PROVE ClientOK(E, n + 1, got[c], net[c], offset[c])
    BY <1>1, <1>3, Zenon DEF StreamInv, E
  <1>6. ClientOK(LineEnds, n, got[c], net[c], offset[c]) /\ got[c] \o net[c] \in Seq(Frames)
    BY DEF StreamInv, FeedTyped
  <1>7. Good(E, got[c] \o net[c])
    BY <1>2, <1>5, <1>6, GoodGrows DEF ClientOK, E
  <1>8. 0..n \subseteq 0..(n + 1)
    BY <1>2
  <1> QED
    BY <1>6, <1>7, <1>8 DEF ClientOK

LEMMA NextStreams == FileInv /\ FeedTyped /\ StreamInv /\ [Next]_vars => StreamInv'
  <1> SUFFICES ASSUME FileInv, FeedTyped, StreamInv, [Next]_vars PROVE StreamInv'
    OBVIOUS
  <1>0. \A c \in Clients : /\ got[c] \in Seq(Frames) /\ net[c] \in Seq(Frames)
                          /\ ClientOK(LineEnds, Len(file), got[c], net[c], offset[c])
                          /\ got = [got EXCEPT ![c] = got[c]] /\ net = [net EXCEPT ![c] = net[c]]
                          /\ offset = [offset EXCEPT ![c] = offset[c]]
    BY DEF FeedTyped, StreamInv
  <1>1. ASSUME NEW e \in Events, WriteByte(e) PROVE StreamInv'
    BY <1>1, WriteStreams
  <1>2. ASSUME NEW c \in Clients, Emit(c) PROVE StreamInv'
    BY <1>2, EmitStreams
  <1>3. ASSUME NEW c \in Clients, Receive(c) PROVE StreamInv'
    <2> DEFINE g == Append(got[c], Head(net[c]))
               w == Tail(net[c])
    <2>1. ClientOK(LineEnds, Len(file), g, w, offset[c])
      BY <1>0, <1>3, ReceivedOK DEF Receive
    <2>2. got' = [got EXCEPT ![c] = g] /\ net' = [net EXCEPT ![c] = w] /\ UNCHANGED <<file, offset>>
      BY <1>3 DEF Receive, logVars
    <2> HIDE DEF g, w
    <2> QED
      BY <1>0, <2>1, <2>2, OneClient
  <1>4. ASSUME NEW c \in Clients, Break(c) PROVE StreamInv'
    <2>1. ClientOK(LineEnds, Len(file), got[c], <<>>, None)
      BY <1>0, BrokenOK
    <2>2. UNCHANGED <<file, got>> /\ net' = [net EXCEPT ![c] = <<>>] /\ offset' = [offset EXCEPT ![c] = None]
      BY <1>4 DEF Break, logVars
    <2> QED
      BY <1>0, <2>1, <2>2, OneClient
  <1>5. ASSUME NEW c \in Clients, Connect(c) PROVE StreamInv'
    <2> DEFINE n == Len(file)
    <2>1. n \in Nat /\ LineEnds \subseteq 1..n /\ n \in 0..n
      BY ByteFacts DEF FileInv, LineEnds
    <2>2. net[c] = <<>> /\ ClientOK(LineEnds, n, got[c], <<>>, None)
      BY <1>0, <1>5 DEF Connect, ClientOK
    <2>3. ClientOK(LineEnds, n, got[c], <<>>, IF got[c] = <<>> THEN n ELSE got[c][Len(got[c])].id)
      BY <1>0, <2>1, <2>2, OpenedOK
    <2>4. Resume(c) = IF got[c] = <<>> THEN n ELSE got[c][Len(got[c])].id
      <3>1. CASE got[c] = <<>>
        BY <3>1 DEF Resume, LastEventID
      <3>2. CASE got[c] # <<>>
        <4>1. Good(LineEnds, got[c]) /\ Len(got[c]) \in 1..Len(got[c])
          BY <1>0, <2>2, <3>2 DEF ClientOK
        <4>2. got[c][Len(got[c])].id \in 1..n
          BY <2>1, <4>1 DEF Good
        <4>3. got[c][Len(got[c])].id # None /\ got[c][Len(got[c])].id <= n
          BY <2>1, <4>2, NoneAssumption
        <4> QED
          BY <3>2, <4>3 DEF Resume, LastEventID
      <3> QED
        BY <3>1, <3>2
    <2>5. offset' = [offset EXCEPT ![c] = Resume(c)] /\ UNCHANGED <<file, got, net>>
      BY <1>5 DEF Connect, logVars
    <2>6. ClientOK(LineEnds, n, got[c], net[c], Resume(c))
      BY <2>2, <2>3, <2>4
    <2> QED
      BY <1>0, <2>5, <2>6, OneClient
  <1>6. CASE Restart
    <2>1. \A c \in Clients : got'[c] = got[c] /\ net'[c] = <<>> /\ offset'[c] = None
      BY <1>6 DEF Restart
    <2>2. LineEnds' = LineEnds /\ Len(file') = Len(file)
      BY <1>6 DEF Restart, LineEnds
    <2>3. \A c \in Clients : ClientOK(LineEnds, Len(file), got[c], <<>>, None)
      BY <1>0, BrokenOK
    <2> QED
      BY <2>1, <2>2, <2>3, Zenon DEF StreamInv
  <1>7. CASE UNCHANGED <<file, got, net, offset>>
    <2>1. LineEnds' = LineEnds
      BY <1>7 DEF LineEnds
    <2> QED
      BY <1>7, <2>1, Zenon DEF StreamInv
  <1> QED
    BY <1>1, <1>2, <1>3, <1>4, <1>5, <1>6, <1>7
    DEF Next, Log, LogClosed, WriteFails, Close, WatcherKilled, HandlerEnds, vars, feedVars,
        logVars

LEMMA StreamsAreInvariant == Spec => []StreamInv
  BY InitStreams, NextStreams, FeedIsInvariant, PTL DEF Spec

\* StreamHasNoGap for all clients, breaks and kills: a stream that resumes at
\* Last-Event-ID goes on where the frames that arrived end, whatever was on
\* its way when it broke.
THEOREM StreamsHaveNoGap == Spec => []StreamHasNoGap
  <1>1. StreamInv => StreamHasNoGap
    BY DEF StreamInv, ClientOK, Good, StreamHasNoGap
  <1> QED
    BY <1>1, StreamsAreInvariant, PTL

\* Good frames are frames of whole lines.
WholeLines(f) ==
  \A i \in 1..Len(f) :
    /\ f[i].id \in LineEnds
    /\ i > 1 => f[i].from \in Boundaries
    /\ ~\E j \in LineEnds : f[i].from < j /\ j < f[i].id

LEMMA GoodIsWhole ==
  ASSUME NEW f, Good(LineEnds, f), Len(f) \in Nat
  PROVE  WholeLines(f)
  <1>1. ASSUME NEW i \in 1..Len(f), i > 1 PROVE f[i].from \in Boundaries
    <2>1. i - 1 \in 1..(Len(f) - 1) /\ i - 1 \in 1..Len(f) /\ (i - 1) + 1 = i
      BY <1>1
    <2>2. f[i].from = f[i - 1].id /\ f[i - 1].id \in LineEnds
      BY <2>1 DEF Good
    <2> QED
      BY <2>2 DEF Boundaries
  <1> QED
    BY <1>1 DEF Good, WholeLines

\* FramesAreLines for all clients and every length of a line: the feed never
\* sends a part of a line that is still being written, never joins two lines,
\* and never splits one but the first, over breaks, kills and torn writes.
THEOREM FramesAreWholeLines == Spec => []FramesAreLines
  <1>1. ASSUME FeedTyped, StreamInv, NEW c \in Clients
        PROVE  WholeLines(got[c] \o net[c])
    <2>1. Good(LineEnds, got[c] \o net[c]) /\ Len(got[c] \o net[c]) \in Nat
      BY <1>1 DEF StreamInv, ClientOK, FeedTyped
    <2> QED
      BY <2>1, GoodIsWhole
  <1>2. FeedTyped /\ StreamInv => FramesAreLines
    BY <1>1 DEF FramesAreLines, WholeLines
  <1> QED
    BY <1>2, FeedIsInvariant, StreamsAreInvariant, PTL

=============================================================================
