----------------------------- MODULE ShellParse -----------------------------
(***************************************************************************)
(* shell/parse.go: a typed line as a list of chained statements, each a    *)
(* pipeline of stages.  A line is the sequence of its tokens; a word is    *)
(* one of the parts expand() tells apart, so quoting and the characters of *)
(* a word are gone, and what follows an operator is not.                   *)
(***************************************************************************)
EXTENDS Naturals, Sequences, SequencesExt

\* A word: its parts are what expand() does with them.  A plain one, $NAME, a
\* substitution of another line, $((...)), and NAME=value.  Arithmetic is one
\* value: its evaluation runs no line, and its own recursion, as deep as the
\* expression has signs and parentheses, is counted by nothing.
Lit(v)        == [op |-> FALSE, kind |-> "lit", val |-> v, to |-> <<>>]
Ref(x)        == [op |-> FALSE, kind |-> "ref", val |-> x, to |-> <<>>]
Sub(l)        == [op |-> FALSE, kind |-> "sub", val |-> l, to |-> <<>>]
Arith         == [op |-> FALSE, kind |-> "arith", val |-> "0", to |-> <<>>]
Assign(x, ws) == [op |-> FALSE, kind |-> "assign", val |-> x, to |-> ws]
Op(o)         == [op |-> TRUE, kind |-> "op", val |-> o, to |-> <<>>]

\* The redirections of a stage go to a file, a null device or the terminal.
NoStage == [args |-> <<>>, assigns |-> <<>>, null |-> FALSE, out |-> "", app |-> FALSE]

\* What parse carries from token to token; skip is the operator that takes the
\* next token for its target, whatever that token is.
Start == [stmts |-> <<>>, stages |-> <<>>, stg |-> NoStage, skip |-> ""]

finishStage(p) ==
  [p EXCEPT !.stages = IF p.stg.args # <<>> \/ p.stg.assigns # <<>>
                         THEN Append(@, p.stg) ELSE @,
            !.stg = NoStage]

\* A statement without a stage is dropped, and its operator with it.
finishStmt(p, chain) ==
  LET q == finishStage(p)
  IN [q EXCEPT !.stmts = IF q.stages # <<>>
                           THEN Append(@, [stages |-> q.stages, chain |-> chain]) ELSE @,
               !.stages = <<>>]

Redirect(p, t) ==
  LET q == [p EXCEPT !.skip = ""]
  IN IF p.skip \in {"2>", "<"} THEN q
     ELSE IF t.val = "/dev/null" THEN [q EXCEPT !.stg.null = TRUE]
     ELSE [q EXCEPT !.stg.out = t.val, !.stg.app = p.skip = ">>"]

\* An assignment is one only before the first argument.
TakeWord(p, t) ==
  CASE t.val \in {"(", ")", "{", "}"} -> p
    [] t.kind = "assign" /\ p.stg.args = <<>> -> [p EXCEPT !.stg.assigns = Append(@, t)]
    [] OTHER -> [p EXCEPT !.stg.args = Append(@, t)]

TakeOp(p, o) ==
  CASE o = "|" -> finishStage(p)
    [] o \in {";", "&&", "||"} -> finishStmt(p, o)
    [] o \in {">", ">>", "&>", "2>", "<"} -> [p EXCEPT !.skip = o]
    [] OTHER -> p

parse(toks) ==
  finishStmt(FoldLeft(LAMBDA p, t : IF p.skip # "" THEN Redirect(p, t)
                                    ELSE IF t.op THEN TakeOp(p, t.val) ELSE TakeWord(p, t),
                      Start, toks), "").stmts

=============================================================================
