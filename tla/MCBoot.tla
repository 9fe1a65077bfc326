------------------------------- MODULE MCBoot -------------------------------
(***************************************************************************)
(* Instances of the boot loader for TLC: two glyphs, and names of disks    *)
(* and networks that exist, do not, and are not finished.                  *)
(***************************************************************************)
EXTENDS Boot

MCFont == [ch \in {"A", "["} |-> IF ch = "A" THEN {4, 7, 8, 11, 12, 15} ELSE {}]

MCName(d, p, c, u, n) == [dev |-> d, paren |-> p, closed |-> c, unit |-> u, part |-> n]
MCNames ==
    {MCName("sd", TRUE, TRUE, 0, 0), MCName("le", TRUE, TRUE, 17, 15),
     MCName("sd", TRUE, TRUE, 8, 0), MCName("le", TRUE, TRUE, 20, 0),
     MCName("sd", TRUE, TRUE, 0, 16), MCName("sd", TRUE, FALSE, 0, 0),
     MCName("sd", FALSE, FALSE, 0, 0), MCName("other", TRUE, TRUE, 0, 0)}
=============================================================================
