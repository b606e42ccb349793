--------------------------- MODULE MCTokenExchanger ---------------------------
(***************************************************************************)
(* The exchanger on a small instance: the margin is exactly what the       *)
(* client's timeout and the longest pause use up; one lifetime is cached   *)
(* for less than the cap, one is capped, and one the server leaves out is  *)
(* too short to cache.                                                     *)
(***************************************************************************)
EXTENDS TokenExchanger

CONSTANTS r1, r2, s1, s2

MCRequest == {r1, r2}
MCSubject == {s1, s2}
MCLifetimes == {4, 7}
===============================================================================
