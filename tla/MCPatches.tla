------------------------------ MODULE MCPatches ------------------------------
EXTENDS Patches

(* Every diff of up to four lines, and those of seven with two changes     *)
(* apart; the lines may repeat, and one is git's remark.                   *)
Line(i, p) == CASE p = "distinct" -> <<"a", "b", "c", Heading, "e", "f", "g", "h">>[i]
                [] p = "repeated" -> "a"
                [] p = "mixed" -> <<"a", Heading, "a", "b", "a", "b", "a", "b">>[i]
                [] p = "remark" -> <<"a", "b", Remark, "c", "d", "e", "f", "g">>[i]
Signs == UNION {[1 .. n -> {"=", "-", "+"}] : n \in 1 .. 4}
         \cup {s \in [1 .. 7 -> {"=", "-", "+"}] :
                 LET c == {i \in DOMAIN s : s[i] # "="} IN Cardinality(c) = 2 /\ \E i, j \in c : j - i > 3}
MCDiffs == {[i \in DOMAIN s |-> <<s[i], Line(i, p)>>] : s \in Signs, p \in {"distinct", "repeated", "mixed", "remark"}}
=============================================================================
