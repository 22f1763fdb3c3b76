----------------------------- MODULE MCAddress -----------------------------
(* Address, for TLC: every prefix, on an address of zeros, one of ones and *)
(* one of both; every host of up to five characters of four kinds.         *)
EXTENDS Address

Patterns == {{}, 0 .. 7, {0, 2, 7}}
Same(n) == {[i \in 0 .. n |-> b] : b \in Patterns}
Same4 == Same(3)
Same6 == Same(16)
AllCharacters == {"[", "]", ":", "x"}
AllHosts == UNION {[1 .. n -> AllCharacters] : n \in 0 .. 5}
=============================================================================
