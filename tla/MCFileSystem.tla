---------------------------- MODULE MCFileSystem ----------------------------
(* A directory d with a file, a subdirectory with a file, and a link; next to
   it o, where the link leads: nothing, a file, or a directory with a file. *)
EXTENDS FileSystem

Paths == {<<"d">>, <<"d", "f">>, <<"d", "s">>, <<"d", "s", "g">>, <<"o">>, <<"o", "k">>}
Outside == <<"o">>

AllTrees == {k \in [Paths -> Kind] :
               /\ WellFormed(k)
               /\ k[Outside] # "link"
               /\ k[<<"o", "k">>] = IF k[Outside] = "dir" THEN "file" ELSE "absent"}
=============================================================================
