----------------------------- MODULE MCOverlay -----------------------------
(* Small instances of Overlay for TLC.                                     *)
EXTENDS Overlay, TLC

CONSTANTS s1, s2

\* A tree with a directory, a file in it and a relative link to the file, and a
\* link to the directory.
TreePaths == {Root, <<"d">>, <<"d", "f">>, <<"d", "n">>,
              <<"l">>, <<"l", "f">>, <<"l", "r">>}
Tree == [p \in {Root, <<"d">>, <<"d", "f">>, <<"d", "r">>, <<"l">>} |->
           CASE p = <<"d", "f">> -> File(1)
             [] p = <<"d", "r">> -> RelLink(<<"f">>)
             [] p = <<"l">>      -> Link(<<"d">>)
             [] OTHER            -> Dir(p)]

\* A file, and two names, in the root.
FlatPaths == {Root, <<"a">>, <<"b">>, <<"x">>}
Flat == [p \in {Root, <<"x">>} |-> IF p = Root THEN Dir(Root) ELSE File(1)]

SessionSymmetry == Permutations(Sessions)

============================================================================
