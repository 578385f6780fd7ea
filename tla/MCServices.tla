----------------------------- MODULE MCServices -----------------------------
(***************************************************************************)
(* Services on small instances.                                            *)
(*   operator: one operator and two requests at a time, three in all, with *)
(*     one fault;                                                          *)
(*   dedup: one event sent twice to two consumers of a group;              *)
(*   guard: the proportions of 5 and 15 minutes, and two entries trigger   *)
(*     the sweep;                                                          *)
(*   sync: a device and the server, one client ref, three ops in every     *)
(*     order;                                                              *)
(*   store: two documents whose indexed field is x, y or blank;            *)
(*   breaker: three adapter calls, and two failures open it.               *)
(***************************************************************************)
EXTENDS Services, TLC

\* The requests being served, and the callers of the breaker, are interchangeable.
Sym == Permutations(OpWorkers) \cup Permutations(Callers)
=============================================================================
