------------------------------- MODULE MCKmem -------------------------------
(* Instances of Kmem: the free pages in their order. *)
EXTENDS Kmem
Free4 == <<10, 11, 12, 13>>
=============================================================================
