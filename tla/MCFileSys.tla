----------------------------- MODULE MCFileSys -----------------------------
(* FileSys for TLC: two processes, one fd slot each, three inode sectors  *)
(* and one name, so that "a" can be a file or a directory under the root, *)
(* a directory can hold a file "a/a", and either can be removed and be    *)
(* recreated in a freed sector.  Relative paths reach through a cwd.      *)
EXTENDS FileSys, TLC

MCNames == {"a"}
MCInos == {1, 2, 3}

P(abs, comps) == [abs |-> abs, comps |-> comps]

MCPaths == {P(TRUE, <<>>), P(FALSE, <<"a">>),
            P(FALSE, <<"a", "a">>)}

(* The processes are interchangeable. *)
ProcSymmetry == Permutations(Procs)
=============================================================================
