---------------------------- MODULE MCExtraFiles ----------------------------
(* Small instances of ExtraFiles. *)
EXTENDS ExtraFiles, TLC

CONSTANTS file1, file2, x, y

F(n, c) == [name |-> n, content |-> c]

\* One file, two files, the same file twice, and refused lists.
Lists == {<<F(file1, x)>>, <<F(file1, y), F(file2, x)>>, <<F(file2, y)>>, <<F(file1, y), F(file1, x)>>,
          <<F(file1, Empty)>>, <<>>}

Symmetry == Permutations(Requests)
=============================================================================
