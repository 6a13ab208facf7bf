---------------------------- MODULE RcsDiscipline ----------------------------
(***************************************************************************)
(* What the recovery-locking mechanism relies on in its callers: kernel    *)
(* paths leave only sections that they have entered, and a handler enters  *)
(* no section whose recovery lock it has.  The theorems about              *)
(* RecoveryLocking assume it of all paths; for the paths of RcsPaths it is *)
(* evaluated in MCRecoveryLocking.                                         *)
(***************************************************************************)
EXTENDS RecoveryLocking

\* What a path has done so far: how often it is inside each section; of a
\* handler, the recovery locks it has, the sections that it has counted and
\* waited for since it has their locks, and the object that was hit, until the
\* victim is taken out of its sections.
Ledger == [inside : [Flag -> Nat], locked : SUBSET Flag, counted : SUBSET Flag,
           waited : SUBSET Flag, object : SUBSET Flag]

Outside == [f \in Flag |-> 0]
Start(o) == [inside |-> Outside, locked |-> {}, counted |-> {}, waited |-> {}, object |-> o]

\* The ledger after one more operation.
Book(l, o) ==
    LET f == o.flag IN
    [inside  |-> IF o.op \in {"enter", "node"} THEN [l.inside EXCEPT ![f] = @ + 1]
                 ELSE IF o.op = "exit" THEN [l.inside EXCEPT ![f] = @ - 1]
                 ELSE IF o.op = "rexit" THEN Outside
                 ELSE l.inside,
     locked  |-> IF o.op = "rlock" THEN l.locked \cup {f}
                 ELSE IF o.op = "runlock" THEN l.locked \ {f}
                 ELSE l.locked,
     counted |-> IF o.op = "rcount" /\ f \in l.locked \cap l.object THEN l.counted \cup {f}
                 ELSE IF o.op = "runlock" THEN l.counted \ {f}
                 ELSE l.counted,
     waited  |-> IF o.op = "rwait" /\ f \in l.locked THEN l.waited \cup {f}
                 ELSE IF o.op = "runlock" THEN l.waited \ {f}
                 ELSE l.waited,
     object  |-> IF o.op = "rexit" THEN {} ELSE l.object]

\* What a path may do next; a handler leaves the section of the object that was
\* hit with all the others of the victim only.
Allowed(l, o) ==
    /\ o.op \in {"enter", "node"} => o.flag \notin l.locked
    /\ o.op = "exit" => l.inside[o.flag] >= 1 /\ o.flag \notin l.object
    /\ o.op = "rdone" => l.locked = {}

\* What is left to do for an object that was replaced meanwhile (NextHandler).
Finish(f) == [op |-> "rdone", flag |-> f, exc |-> "0"]

\* G has every path with its ledger, and what is left of it with the ledger
\* that it has then: enter_recovery_critical_section_nodes goes on as enter.
Disciplined(G) ==
    /\ G \subseteq Seq(Operation) \X Ledger
    /\ Broken \subseteq Flag \ {0}
    /\ <<<<>>, Start({})>> \in G
    /\ \A s \in Paths : <<s, Start({})>> \in G
    /\ \A f \in Broken : /\ <<<<>>, Start({f})>> \in G
                         /\ \A s \in Handlers[f] : <<s, Start({f})>> \in G
                         /\ <<<<Finish(f)>>, Start({f})>> \in G
    /\ \A x \in G : x[1] = <<>> => x[2].locked = {}
    /\ \A x \in G : x[1] # <<>> =>
          LET o == Head(x[1]) IN
          /\ Allowed(x[2], o)
          /\ IF o.op = "node" THEN <<<<[o EXCEPT !.op = "enter"]>> \o Tail(x[1]), x[2]>> \in G
                              ELSE <<Tail(x[1]), Book(x[2], o)>> \in G

\* An object whose handler counts is used inside its section only, and replaced
\* after the count.
Judged(G) ==
    \A x \in G : x[1] # <<>> =>
        LET o == Head(x[1]) IN
        o.flag \in Counted => /\ o.op = "use" => x[2].inside[o.flag] >= 1
                              /\ o.op = "repair" => o.flag \in x[2].counted

\* A node is replaced after the handler has waited for section g.
Waits(G, g, node) ==
    \A x \in G : x[1] # <<>> =>
        LET o == Head(x[1]) IN o.op = "repair" /\ o.flag = node => g \in x[2].waited
=============================================================================
