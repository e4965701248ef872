---- MODULE MCSortedPfind ----
(* One directory 1 with the file 2 in it, and the file 3, below the root 0.
   1 and 2 have the permissions that are asked for (2 with a sticky bit more),
   3 has none. *)
EXTENDS SortedPfind

MCEntries == 1..3
MCTop == 0
MCAbove == <<0, 1, 0>>
MCMode == <<{1, 3}, {1, 3, 10}, {}>>

Root == <<"D">>
Asked == permission_string({1, 3})
Nothing == permission_string({})
MCStart == Root

Words == {Dash("d"), Dash("p"), Dash("h"), Dash("-"), Root, Asked, Nothing, Dash("p") \o Asked}
Lines == {<<Dash("d"), Root, Dash("p"), Asked, Root>>} \cup UNION {[1..n -> Words] : n \in 0..4}

(* The directory 1 may be closed to searches only where a search is made. *)
Closable(words) == IF Len(words) = 4 /\ words[1] = Dash("d") THEN {{}, {1}} ELSE {{}}

Init == \E words \in Lines : \E closed \in Closable(words) : InitWith(words, closed)
Spec == Init /\ [][Next]_spVars /\ Fairness
====
