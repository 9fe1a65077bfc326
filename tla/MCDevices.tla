----------------------------- MODULE MCDevices -----------------------------
(* The instances of the kernel's smaller parts.                            *)
EXTENDS Devices

(* Labels: of UniOS with a root in part c, with extended partitions, with   *)
(* types whose checksum is wrong, one that is corrupted and a BSD label.    *)
MCPart(o, s, t) == [off |-> o, size |-> s, type |-> t]
MCRange(o, s)   == [off |-> o, size |-> s]
MCSector(m, sm, b, r, c, i, e, x) ==
    [magic |-> m, sum |-> sm, bsd |-> b, rpm0 |-> r, geometry |-> x,
     part |-> [p \in {"a", "b", "c", "i"} |->
                  CASE p = "c" -> c [] p = "i" -> i [] OTHER -> MCRange(0, 1)],
     ext |-> e, xpsum |-> x, types |-> [p \in {"a", "b", "c", "i"} |-> "other"]]
MCSectors ==
    {MCSector(TRUE, TRUE, FALSE, TRUE, MCRange(1, 1), MCRange(0, 0), "none", TRUE),
     MCSector(TRUE, TRUE, FALSE, FALSE, MCRange(1, 1), MCRange(1, 1), "xpmag", TRUE),
     MCSector(TRUE, TRUE, FALSE, TRUE, MCRange(0, 1), MCRange(1, 1), "xpmagtyp", FALSE),
     MCSector(TRUE, FALSE, FALSE, TRUE, MCRange(0, 0), MCRange(0, 0), "none", TRUE),
     MCSector(FALSE, FALSE, TRUE, TRUE, MCRange(0, 0), MCRange(0, 0), "none", TRUE)}
MCEdits == {<<"a", MCPart(1, 1, "other")>>, <<"b", MCPart(1, 1, "ffs")>>,
            <<"i", MCPart(1, 2, "ffs")>>, <<"i", MCPart(0, 0, "unused")>>}

(* Text: words of four pixels, characters of three.                         *)
MCGlyphA == [i \in 0..2 |-> IF i = 1 THEN 0 ELSE 1]
MCGlyphB == [i \in 0..2 |-> IF i = 2 THEN 0 ELSE 1]
MCCell(c, r) ==
    <<CASE (c + r) % 3 = 0 -> MCGlyphA [] (c + r) % 3 = 1 -> MCGlyphB [] OTHER -> [i \in 0..2 |-> 0],
      IF c % 2 = 0 THEN <<{0}, {}>> ELSE <<{1}, {0}>>>>
MCFont  == {MCGlyphA}
MCAttrs == {<<{0}, {}>>, <<{1}, {0}>>}
MCTexts == {[r \in 0..2 |-> [c \in 0..4 |-> MCCell(c, r)]]}

(* Decembers and Januaries: into 2012, where the file system begins to be   *)
(* believed, over the tens and the hundred of the chip's year, and the last *)
(* December it can hold; May 2065 is what a worn-out chip may say.          *)
MCNewYears(ys) == UNION {{12 * (y - 1970) + 11, 12 * (y - 1970) + 12} : y \in ys}
MCTimes ==
    [m \in {"88k", "88k2"} |-> {12 * 42, 12 * 95 + 4} \cup
        IF m = "88k" THEN {12 * 99 + 11} \cup MCNewYears({2009, 2011, 2029, 2068})
                     ELSE {12 * 119 + 11} \cup MCNewYears({2009, 2011, 2029, 2069, 2088})]

MCBase     == 12 * 42
MCMessage1 == <<"a", "b">>
MCMessage2 == <<"b", "a">>
=============================================================================
