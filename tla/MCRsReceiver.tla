---------------------------- MODULE MCRsReceiver ----------------------------
(* Instances of the Reed-Solomon edge receiver for TLC.  Generations 1 and 2 *)
(* share a slot, generation 3 has the id of 1 but another length.            *)
EXTENDS RsReceiver

Of(o, id, len, type, is) ==
  [origin : {o}, id : {id}, len : {len}, index : is, type : {type},
   fits : {TRUE}]
Generations == {<<1, 0, 1>>, <<2, 1, 1>>, <<3, 0, 2>>}

Whole == UNION {Of(g[1], g[2], g[3], "data", Indices)
                \cup Of(g[1], g[2], g[3], "parity", K .. K + Repairs - 1) :
                g \in Generations}
\* Indices out of range, an unknown type and a truncated datagram.
Odd == Of(2, 1, 1, "parity", {0, K + Repairs}) \cup Of(1, 0, 1, "data", {K})
       \cup Of(2, 1, 1, "other", {0})
       \cup {[f EXCEPT !.fits = FALSE] : f \in Of(1, 0, 1, "data", {0})}
Everything == Whole \cup Odd

Three == 1 .. 3
Bool == BOOLEAN
=============================================================================
