----------------------------- MODULE MCParamService ----------------------------
(* Six parameters, three entries of extensions, replies of two and three. *)
EXTENDS ParamService

CONSTANTS p1, p2, p3, p4, p5, p6,
          bad,   \* an id no parameter has
          great  \* one the stack does not take

MCParams == <<p1, p2, p3, p4, p5, p6>>

\* Two enumerations, one of which takes two entries.
MCExtended == <<p2, p4, p4>>

\* No ids, fewer and more than fit one reply, exactly one reply of either size, as
\* many as the array holds, one twice, ids nobody knows and one too great.
MCRequests ==
  {<<>>, <<p4, p2>>, <<p3, p1, p2>>, <<p2, p5, p4, p4>>,
   <<p1, p2, p3, p4, p5, p6>>, <<bad>>, <<p1, bad, p2, p4>>, <<p1, p2, p3, p4, bad>>,
   <<p1, great>>}

===============================================================================
