------------------------------ MODULE Overlay ------------------------------
(***************************************************************************)
(* The per-session copy-on-write filesystem of internal/vfs and the shell  *)
(* commands that change it.  Every live shell has a Session: an overlay of *)
(* written nodes and a set of tombstones over one shared read-only base    *)
(* tree, and a running sum of its bytes.  The sessions share one atomic    *)
(* counter, globalOverlayBytes, which reserveOverlay adds to first and     *)
(* checks afterwards, so a refused write shows in it until it is rolled    *)
(* back.                                                                   *)
(*                                                                         *)
(* A path is the sequence of its names (cleanAbs and Resolve have run), a  *)
(* file's content is its length.  The rest of a session is private to its  *)
(* goroutine, so it takes one step for every use of the counter: the       *)
(* roll-back, and the removal that ends a mv, are steps of their own.      *)
(***************************************************************************)
EXTENDS Naturals, Sequences, FiniteSets

CONSTANTS Sessions,           \* shells that may be live at the same time
          Paths,              \* absolute paths a command may name
          Base,               \* the base tree: a node for each of its paths
          Lengths,            \* lengths of what a command writes
          MaxFileBytes,       \* maxOverlayFileBytes
          MaxBytes,           \* maxOverlayBytes
          MaxEntries,         \* maxOverlayEntries
          MaxGlobalBytes,     \* maxGlobalOverlayBytes
          MaxLinkDepth        \* maxLinkDepth

Root == <<>>
parentDir(p) == SubSeq(p, 1, Len(p) - 1)
baseName(p) == p[Len(p)]

ASSUME PathsAssumption ==
  /\ Root \in Paths
  /\ \A p \in Paths : p \in Seq(STRING)
  /\ \A p \in Paths \ {Root} : parentDir(p) \in Paths
  /\ IsFiniteSet(Paths) /\ IsFiniteSet(Sessions)

\* Where a directory that is not in the base tree has its base children.
Nowhere == <<"nowhere">>

\* The base tree: every path of it names a node, and none is below Nowhere.
ASSUME BaseAssumption ==
  \A p \in DOMAIN Base :
    /\ p \in Seq(STRING) /\ parentDir(p) # Nowhere
    /\ Base[p].kind \in {"file", "dir", "link", "rel"} /\ Base[p].at \in Seq(STRING)

ASSUME LimitsAssumption ==
  /\ MaxFileBytes \in Nat /\ MaxBytes \in Nat /\ MaxEntries \in Nat
  /\ MaxGlobalBytes \in Nat /\ MaxLinkDepth \in Nat /\ Lengths \subseteq Nat

VARIABLES sess,     \* each session's overlay, tombstones, bytes and cwd
          pool,     \* globalOverlayBytes
          due       \* what a session's running command has yet to do

vars == <<sess, pool, due>>

-----------------------------------------------------------------------------
(* Nodes.  A directory's base children are those of the base directory     *)
(* "at"; one made in the overlay has none.                                 *)

Missing == [kind |-> "none", len |-> 0, at |-> Nowhere]
File(n) == [kind |-> "file", len |-> n, at |-> Nowhere]
Dir(p)  == [kind |-> "dir",  len |-> 0, at |-> p]
Link(p) == [kind |-> "link", len |-> 0, at |-> p]
RelLink(p) == [kind |-> "rel", len |-> 0, at |-> p]

NewDir == Dir(Nowhere)

\* NewSession.
Fresh == [overlay |-> [p \in Paths |-> Missing],
          deleted |-> {}, bytes |-> 0, cwd |-> Root]

\* The bytes a refused reservation has to take back, then the path mv removes.
Due(n, p) == [bytes |-> n, rm |-> p]
Settled == Due(0, Nowhere)

-----------------------------------------------------------------------------
(* Resolution, in the view v of a session.                                 *)

\* A tombstone hides the path and everything below it.
isDeleted(v, p) == \E i \in 0..Len(p) : SubSeq(p, 1, i) \in v.deleted

\* The node at p, whose parent directory is dir: a tombstone hides it, the
\* overlay replaces it, else it is the base directory's child.
child(v, dir, p) ==
  IF dir.kind # "dir" \/ isDeleted(v, p) THEN Missing
  ELSE IF v.overlay[p] # Missing THEN v.overlay[p]
  ELSE LET b == Append(dir.at, baseName(p)) IN
       IF b \in DOMAIN Base THEN Base[b] ELSE Missing

IsLink(n) == n.kind \in {"link", "rel"}

\* The path the link n at p points to, a relative one from the directory p was
\* written in, not from where that one led (resolveLink).
Target(p, n) == IF n.kind = "rel" THEN parentDir(p) \o n.at ELSE n.at

\* Where the paths lead when a link to q leads to follow[q]: the overlay is
\* keyed by the path as written, not by where a link led.
walk(v, follow) ==
  LET node[p \in Paths] ==
        IF p = Root THEN Dir(Root)
        ELSE LET n == child(v, node[parentDir(p)], p) IN
             IF ~IsLink(n) THEN n
             ELSE IF Target(p, n) \in Paths THEN follow[Target(p, n)] ELSE Missing
  IN node

\* lookup with every link followed, at most maxLinkDepth of them nested.
lookup(v) ==
  LET nested[k \in 0..MaxLinkDepth] ==
        walk(v, IF k = 0 THEN [p \in Paths |-> Missing] ELSE nested[k - 1])
  IN nested[MaxLinkDepth]

Stat(v, p) == IF isDeleted(v, p) THEN Missing ELSE lookup(v)[p]

Lstat(v, p) == IF p = Root THEN Dir(Root) ELSE child(v, Stat(v, parentDir(p)), p)

\* Fault: the base children are listed whatever the session did to them.
ReadDirExact(v, p) ==
  LET dir   == Stat(v, p)
      base  == {b \in DOMAIN Base : b # Root /\ parentDir(b) = dir.at}
      added == {q \in Paths : /\ q # Root /\ parentDir(q) = p
                              /\ v.overlay[q] # Missing}
  IN {<<baseName(q), v.overlay[q]>> : q \in added}
     \cup {<<baseName(b), Base[b]>> : b \in base}

\* ReadDir: base children and overlay additions, without the tombstoned.
ReadDir(v, p) ==
  LET dir   == Stat(v, p)
      base  == {b \in DOMAIN Base : b # Root /\ parentDir(b) = dir.at}
      added == {q \in Paths : /\ q # Root /\ parentDir(q) = p
                              /\ v.overlay[q] # Missing}
      names == {baseName(b) : b \in base} \cup {baseName(q) : q \in added}
      Entry(x) == LET q == Append(p, x) IN
                  IF q \in added THEN v.overlay[q] ELSE Base[Append(dir.at, x)]
  IN {<<x, Entry(x)>> : x \in {y \in names : ~isDeleted(v, Append(p, y))}}

-----------------------------------------------------------------------------
(* What the operations do to a view.                                       *)

\* Session.entries.
entries(v) == Cardinality({p \in Paths : v.overlay[p] # Missing}) + Cardinality(v.deleted)

\* WriteFile's refusals before it reserves bytes.
Writable(v, p, n) ==
  /\ p # Root
  /\ Stat(v, parentDir(p)).kind = "dir"
  /\ Lstat(v, p).kind # "dir"
  /\ n \in 0..MaxFileBytes
  /\ v.bytes + n <= MaxBytes + v.overlay[p].len
  /\ v.overlay[p] # Missing \/ entries(v) < MaxEntries

\* Fault: a replaced file's bytes are not given back.
WrittenOnTop(v, p, n) ==
  [v EXCEPT !.overlay[p] = File(n), !.deleted = @ \ {p}, !.bytes = @ + n]

Written(v, p, n) ==
  [overlay |-> [v.overlay EXCEPT ![p] = File(n)],
   deleted |-> v.deleted \ {p},
   bytes   |-> (v.bytes + n) - v.overlay[p].len,
   cwd     |-> v.cwd]

Makable(v, p) ==
  /\ p # Root
  /\ Stat(v, parentDir(p)).kind = "dir"
  /\ Lstat(v, p) = Missing
  /\ p \in v.deleted \/ entries(v) < MaxEntries

\* Fault: a directory that was removed is taken up again as it was.
MadeAgain(v, p) ==
  [overlay |-> IF p \in v.deleted THEN v.overlay ELSE [v.overlay EXCEPT ![p] = NewDir],
   deleted |-> v.deleted \ {p}, bytes |-> v.bytes, cwd |-> v.cwd]

Made(v, p) ==
  [overlay |-> [v.overlay EXCEPT ![p] = NewDir],
   deleted |-> v.deleted \ {p}, bytes |-> v.bytes, cwd |-> v.cwd]

\* Fault: removing an overlay file uncovers the base file below it.
RemovedToBase(v, p) ==
  IF p = Root \/ Lstat(v, p) = Missing THEN v
  ELSE [v EXCEPT !.overlay[p] = Missing,
                 !.deleted = IF v.overlay[p] = Missing THEN @ \cup {p} ELSE @,
                 !.bytes = @ - v.overlay[p].len]

\* Fault: a path that leads nowhere gets its tombstone, too.
RemovedBlindly(v, p) ==
  IF p = Root THEN v
  ELSE [v EXCEPT !.overlay[p] = Missing,
                 !.deleted = @ \cup {p},
                 !.bytes = @ - v.overlay[p].len]

\* Remove: of what is not there, or of the root, it only reports an error.
Removed(v, p) ==
  IF p = Root \/ Lstat(v, p) = Missing THEN v
  ELSE [v EXCEPT !.overlay[p] = Missing,
                 !.deleted = @ \cup {p},
                 !.bytes = @ - v.overlay[p].len]

-----------------------------------------------------------------------------
(* The state machine.                                                      *)

Init ==
  /\ sess = [s \in Sessions |-> Fresh]
  /\ pool = 0
  /\ due = [s \in Sessions |-> Settled]

\* The session's view becomes v; the counter follows its bytes.
Becomes(s, v) ==
  /\ sess' = [sess EXCEPT ![s] = v]
  /\ pool' = (pool + v.bytes) - sess[s].bytes

\* Fault: the ceiling is checked before the reservation is added.
ReservesStale(v, p, n) == n <= v.overlay[p].len \/ pool < MaxGlobalBytes

\* reserveOverlay lets the change of p's length to n pass: a smaller file
\* always, a larger one while the counter stays within the ceiling.
Reserves(v, p, n) ==
  n <= v.overlay[p].len \/ pool + n <= MaxGlobalBytes + v.overlay[p].len

\* WriteFile of n bytes at p, after which the command removes rm.  No command
\* but the redirection looks at WriteFile's error.
WriteFile(s, p, n, rm) ==
  LET v    == sess[s]
      fits == Writable(v, p, n)
  IN
  \/ /\ ~fits
     /\ due' = [due EXCEPT ![s] = Due(0, rm)]
     /\ UNCHANGED <<sess, pool>>
  \/ /\ fits /\ Reserves(v, p, n)
     /\ Becomes(s, Written(v, p, n))
     /\ due' = [due EXCEPT ![s] = Due(0, rm)]
  \/ /\ fits /\ ~Reserves(v, p, n)
     /\ pool' = (pool + n) - v.overlay[p].len
     /\ due' = [due EXCEPT ![s] = Due(n - v.overlay[p].len, rm)]
     /\ UNCHANGED sess

\* Fault: the losing reservation stays in the counter.
RollbackForgets(s) ==
  /\ due[s].bytes > 0
  /\ due' = [due EXCEPT ![s].bytes = 0]
  /\ UNCHANGED <<sess, pool>>

\* reserveOverlay takes a refused reservation back out of the counter.
Rollback(s) ==
  /\ due[s].bytes > 0
  /\ pool' = pool - due[s].bytes
  /\ due' = [due EXCEPT ![s].bytes = 0]
  /\ UNCHANGED sess

\* mv goes on to Remove its source, whether or not the copy was written.
MvRemoves(s) ==
  /\ due[s].bytes = 0 /\ due[s].rm # Nowhere
  /\ Becomes(s, Removed(sess[s], due[s].rm))
  /\ due' = [due EXCEPT ![s] = Settled]

IsFile(v, p) == Stat(v, p).kind = "file"

\* A redirection, with > or (append) with >>, and a faked download.
Redirect(s, p, n, append) ==
  LET v == sess[s] IN
  WriteFile(s, p, IF append /\ IsFile(v, p) THEN Stat(v, p).len + n ELSE n, Nowhere)

Touch(s, p) == Stat(sess[s], p) = Missing /\ WriteFile(s, p, 0, Nowhere)

Cp(s, p, q) == IsFile(sess[s], p) /\ WriteFile(s, q, Stat(sess[s], p).len, Nowhere)

Mv(s, p, q) == IsFile(sess[s], p) /\ WriteFile(s, q, Stat(sess[s], p).len, p)

Mkdir(s, p) == Makable(sess[s], p) /\ Becomes(s, Made(sess[s], p)) /\ UNCHANGED due

Rm(s, p) == Becomes(s, Removed(sess[s], p)) /\ UNCHANGED due

Chdir(s, p) ==
  /\ Stat(sess[s], p).kind = "dir"
  /\ Becomes(s, [sess[s] EXCEPT !.cwd = p])
  /\ UNCHANGED due

\* Release: the shell is over, its bytes go back; the next one starts fresh.
Release(s) == Becomes(s, Fresh) /\ UNCHANGED due

Next ==
  \E s \in Sessions :
    \/ Rollback(s) \/ MvRemoves(s)
    \/ /\ due[s] = Settled
       /\ \/ Release(s)
          \/ \E p \in Paths :
               \/ \E n \in Lengths, append \in BOOLEAN : Redirect(s, p, n, append)
               \/ Touch(s, p) \/ Mkdir(s, p) \/ Rm(s, p) \/ Chdir(s, p)
               \/ \E q \in Paths : Cp(s, p, q) \/ Mv(s, p, q)

Spec == Init /\ [][Next]_vars

-----------------------------------------------------------------------------
(* Properties.                                                             *)

\* A session is charged for exactly the bytes its overlay holds, after any
\* sequence of overwrites, moves and removals, and never for more than its
\* own ceiling: nothing is charged twice and nothing is held for free.  Its
\* files, empty ones and ones below a removed directory included, stay within
\* the entry budget, although tombstones go beyond it.
BytesExact ==
  \A s \in Sessions :
    LET held == {x \in Paths \X (1..MaxFileBytes) : x[2] <= sess[s].overlay[x[1]].len} IN
    /\ sess[s].bytes = Cardinality(held) /\ sess[s].bytes <= MaxBytes
    /\ Cardinality({p \in Paths : sess[s].overlay[p].kind = "file"}) <= MaxEntries

bytes == [s \in Sessions |-> sess[s].bytes]

Shared == INSTANCE Quota WITH
            Users <- Sessions, Share <- MaxBytes, Cap <- MaxGlobalBytes, used <- bytes

\* The sessions' bytes obey the process-wide ceiling at every moment, however
\* their reservations and roll-backs interleave.
QuotaSpec == Shared!Spec

\* The counter is the bytes of the live sessions and of the reservations
\* being rolled back, so it drifts neither up to a permanent ENOSPC nor down
\* to a ceiling that no longer holds.
PoolAccounting ==
  pool = Cardinality(Shared!Units(bytes))
         + Cardinality({x \in Sessions \X (1..MaxFileBytes) : x[2] <= due[x[1]].bytes})

\* A path is never both written and tombstoned, and ls agrees with stat: an
\* entry is listed in a directory exactly when looking it up finds it, and as
\* what looking it up finds, through links too.
ListingAgrees ==
  \A s \in Sessions, p \in Paths :
    LET v == sess[s] IN
    /\ p \in v.deleted => v.overlay[p] = Missing
    /\ Stat(v, p).kind = "dir" =>
         \A q \in Paths \ {Root} :
           parentDir(q) = p =>
             {e \in ReadDir(v, p) : e[1] = baseName(q)}
               = (IF Lstat(v, q) = Missing THEN {} ELSE {<<baseName(q), Lstat(v, q)>>})

Visible(v) == {p \in Paths : Lstat(v, p) # Missing}

\* In every reachable view, what WriteFile accepts can be read back at its path
\* and makes nothing else appear, and Remove hides its path and everything
\* below it and makes nothing appear.
TakesEffect ==
  \A s \in Sessions, p \in Paths :
    LET v == sess[s]
        w == Removed(v, p)
        Below(q) == Len(q) >= Len(p) /\ SubSeq(q, 1, Len(p)) = p
    IN
    /\ \A n \in Lengths :
         Writable(v, p, n) =>
           /\ Stat(Written(v, p, n), p) = File(n)
           /\ Visible(Written(v, p, n)) \ Visible(v) \subseteq {p}
    /\ p # Root => \A q \in Paths : Below(q) => Lstat(w, q) = Missing
    /\ Visible(w) \subseteq Visible(v)

\* What a session sees of the base tree, and what a new one does.
OfBase(v) == {p \in Visible(v) : v.overlay[p] = Missing}
Shipped == OfBase(Fresh)

\* What a session once removed or wrote over of the base tree stays gone until
\* the session ends, whatever it makes in its place: a directory removed and
\* made again has nothing of the old one, and a link to it leads to the new
\* one.  Only what the session itself wrote below it can come back.
RemovedStaysGone ==
  [][\A s \in Sessions :
       \/ sess'[s] \in {sess[s], Fresh}
       \/ OfBase(sess'[s]) \subseteq OfBase(sess[s])]_vars

\* Remove never looks at the entry budget, so overlay nodes and tombstones
\* together go beyond it, but only by tombstones of what the base tree shows:
\* everything kept for any other path is within the budget, so no loop of
\* writes, moves and removals makes a session grow without limit.
EntriesBounded ==
  \A s \in Sessions :
    LET v == sess[s] IN
    Cardinality({p \in Paths \ Shipped : v.overlay[p] # Missing \/ p \in v.deleted})
      <= MaxEntries

============================================================================
