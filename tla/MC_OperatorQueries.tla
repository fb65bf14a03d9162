------------------------- MODULE MC_OperatorQueries -------------------------
(* Model-checking instance of OperatorQueries.                             *)
EXTENDS OperatorQueries

\* The maps over keys 0 (an override of a mandatory object), 3, 129 (an
\* extended object, conformity 0x83) and 300 (dropped by the 0..255
\* filter), with values that meet the 245 limit and the budget: after the
\* three mandatory objects 223 characters exactly fill it and 224 do not.
Choice(k) ==
    CASE k = 0   -> {Ascii(0), Ascii(2)}
      [] k = 3   -> {Ascii(2), Ascii(223), Ascii(224), Ascii(246)}
      [] k = 129 -> {Ascii(1), Ascii(3)}
      [] OTHER   -> {Ascii(2)}

MapsOver(Keys, C(_)) ==
    UNION {{f \in [D -> UNION {C(k) : k \in D}] : \A k \in D : f[k] \in C(k)} : D \in SUBSET Keys}

MCIdents == MapsOver({0, 3, 129, 300}, Choice)

\* Values of one or two characters, plain or not ASCII, under key 3.
ShortChoice(k) == {Ascii(1), Ascii(2), Wide(2)}

MCShortIdents == MapsOver({3}, ShortChoice)
=============================================================================
