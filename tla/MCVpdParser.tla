----------------------------- MODULE MCVpdParser -----------------------------
(* VpdParser for TLC: files made of the parts a VPD has, cut off anywhere, *)
(* with a byte of the first parts changed.                                 *)
EXTENDS VpdParser

MCMarker == <<77, 71>>

Values == {<<>>, MCMarker, <<77, 71, 77>>, <<77, 58, 77, 71>>}
Key(name, value) == name \o <<Len(value)>> \o value
Keys == {Key(n, v) : n \in {VA, <<83, 78>>}, v \in Values}
KeyLists == {<<>>} \cup Keys \cup {k \o Key(VA, MCMarker) : k \in Keys}
LargeResource(tag, body) == <<tag, Len(body), 0>> \o body
SomeResources ==
  {LargeResource(tag, b) : tag \in {ReadOnly, ReadWrite, 130}, b \in KeyLists}
  \cup {<<1, 120>>, <<0>>}

Whole ==
  {r \o <<END>> : r \in SomeResources} \cup {<<0>> \o r \o <<END, 1>> : r \in SomeResources}
Cut == UNION {{[i \in 1 .. n |-> w[i]] : n \in 0 .. Len(w)} : w \in Whole}
Changed ==
  {[w EXCEPT ![i] = b] :
     w \in {v \in Whole : Len(v) >= 8}, i \in 1 .. 8, b \in {0, 1, 2, 3, END, ReadOnly}}

MCFiles == {f \in Cut \cup Changed : Len(f) <= 20}
=============================================================================
