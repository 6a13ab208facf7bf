------------------------------ MODULE MCFsTree ------------------------------
EXTENDS FsTree

Path(abs, e) == [abs |-> abs, e |-> e]
Node(dd, inum, name, type, n) == [dd |-> dd, inum |-> inum, name |-> name, type |-> type, n |-> n]
Console == Node(ROOTINO, CONSOLE, "console", "dev", 0)

\* A directory d with a file f that has an indirect block, which process 11 has
\* open; and an empty directory d, which is the current one of process 11.
\* One process makes two calls, the other one at any time between their steps.
FileTree == <<Console, Node(ROOTINO, 3, "d", "dir", 0), Node(3, 4, "f", "file", 5)>>
DirTree == <<Console, Node(ROOTINO, 3, "d", "dir", 0)>>
Both(x, y) == (11 :> x @@ 12 :> y)
MCStarts ==
    {[tree |-> FileTree, cwd |-> Both(ROOTINO, ROOTINO), open |-> Both(4, None),
      calls |-> Both(1, 2)],
     [tree |-> DirTree, cwd |-> Both(3, ROOTINO), open |-> Both(None, None),
      calls |-> Both(2, 1)]}

D == Path(TRUE, <<"d">>)
DF == Path(TRUE, <<"d", "f">>)
G == Path(FALSE, <<"g">>)
Up == Path(FALSE, <<"..">>)

\* Names that exist and names that do not; a directory in place of a file; a name
\* below a directory that can be removed.
MCPathCalls ==
    {[call |-> x[1], a |-> x[2], b |-> x[3]] :
       x \in {<<"openr", DF, D>>, <<"openrw", D, D>>, <<"create", G, D>>, <<"create", DF, D>>,
              <<"mkdir", G, D>>, <<"mknod", G, D>>,
              <<"chdir", D, D>>, <<"chdir", Up, D>>,
              <<"link", DF, G>>, <<"link", DF, DF>>, <<"link", D, G>>,
              <<"unlink", D, D>>, <<"unlink", DF, D>>}}
=============================================================================
