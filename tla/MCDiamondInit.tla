---------------------------- MODULE MCDiamondInit ----------------------------
(***************************************************************************)
(* All identifiers of up to MaxLen characters over a small alphabet, those *)
(* of the shipped form with a revision of two digits, and those of numbers *)
(* around the limits of an int, an unsigned long and an unsigned long      *)
(* long, which are 256, 512 and 262144 here; all revision words made of    *)
(* the given bytes, the largest of two bytes, and two with a third byte:   *)
(* 0x10000, and 0x10210 with the bytes of 0x0210.                          *)
(***************************************************************************)
EXTENDS DiamondInit

CONSTANTS MaxLen, Characters, Digits, Products, Bytes

\* 1, the largest int and one more; -1, 0, 1, 2 and 10 as an unsigned long; 1 and 4
\* as an unsigned long long.
Edges ==
    {<<"1">>, <<"2", "5", "5">>, <<"2", "5", "6">>, <<"5", "1", "1">>, <<"5", "1", "2">>,
     <<"5", "1", "3">>, <<"5", "1", "4">>, <<"5", "2", "2">>,
     <<"2", "6", "2", "1", "4", "5">>, <<"2", "6", "2", "1", "4", "8">>}

MCIdentifiers ==
    UNION {[1..n -> Characters] : n \in 0..MaxLen}
    \cup {<<f, "-", p, ".", d, e>> :
             f \in {"Diamond", "Display"}, p \in Digits, d \in Digits, e \in Digits}
    \cup {<<f, "-">> \o p \o <<".">> \o r :
             f \in {"Diamond", "Display"}, p \in Edges, r \in Edges}

MCSystemRevs == {256 * h + l : h \in Products, l \in Bytes} \cup {65535, 65536, 66064}

=============================================================================
