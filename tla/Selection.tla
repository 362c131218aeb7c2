------------------------------ MODULE Selection ------------------------------
(***************************************************************************)
(* The lists with a condition of strategies and sizers: [x for x in seq if *)
(* ...].  It is recursive over the positions, so that it can be reasoned   *)
(* about.                                                                  *)
(***************************************************************************)
EXTENDS Integers, Sequences

\* The elements of seq at the positions in `keep', in their order.
Kept(seq, keep) ==
  LET Up[n \in 0 .. Len(seq)] ==
        IF n = 0 THEN <<>>
        ELSE IF n \in keep THEN Append(Up[n - 1], seq[n]) ELSE Up[n - 1]
  IN Up[Len(seq)]

===============================================================================
