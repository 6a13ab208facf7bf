------------------------------ MODULE MCFiles -------------------------------
EXTENDS Files

\* The states from which the calls are counted: at the start, and when two
\* processes share a pipe after pipe() and fork().
MCInit ==
    LET end(wr) == [FreeFile EXCEPT !.type = "pipe", !.rd = ~wr, !.wr = wr, !.pipe = 1, !.ref = 2]
        both == [[d \in Fd |-> None] EXCEPT ![1] = 1, ![2] = 2]
    IN \/ Init
       \/ /\ ofile = [p \in Proc |-> IF p \in {1, 2} THEN both ELSE [d \in Fd |-> None]]
          /\ file = [[f \in File |-> FreeFile] EXCEPT ![1] = end(FALSE), ![2] = end(TRUE)]
          /\ pipe = [[a \in Pipe |-> FreePipe] EXCEPT ![1] = [@ EXCEPT !.used = TRUE,
                                                   !.readopen = TRUE, !.writeopen = TRUE]]
          /\ pc = [p \in Proc |-> IF p \in {1, 2} THEN "user" ELSE "unused"]
          /\ ref = [i \in Inode |-> 0] /\ gone = {}
          /\ cur = [p \in Proc |-> None] /\ cur2 = cur /\ arg = [p \in Proc |-> 0]
          /\ ff = [p \in Proc |-> NoPipe]
          /\ exiting = {} /\ killed = {} /\ halted = FALSE
          /\ ops = 1 /\ faults = 0
          /\ hurt = {} /\ unsaid = {} /\ orphan = {} /\ misjudged = FALSE

MCSpec == MCInit /\ [][Next]_vars /\ \A p \in Proc : WF_vars(ProcNext(p))
=============================================================================
