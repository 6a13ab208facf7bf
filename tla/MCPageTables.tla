---------------------------- MODULE MCPageTables ----------------------------
EXTENDS PageTables

\* Of the free pages below the ones that init has, other parts of the kernel have
\* so many that exec, fork and sbrk can succeed, and can also run out of memory
\* at their start or half way; one more lies between the free ones, so that the
\* pages of a process are not all neighbours.
MCTaken == {1..6 \cup {29}}
=============================================================================
