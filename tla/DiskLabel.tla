----------------------------- MODULE DiskLabel -----------------------------
(***************************************************************************)
(* Disk labels: the kernel's readdisklabel() and writedisklabel()          *)
(* (src/luna88k/disksubr.c) and the boot loader's own reader               *)
(* (src/stand/boot/ufs_disksubr.c) of the same sector.                     *)
(*                                                                         *)
(* Partition a stands for the ordinary ones of the first eight, b and c    *)
(* are special, i stands for the extended ones.  A checksum is whether it  *)
(* is right.  MI code (initdisklabel(), checkdisklabel(), setdisklabel())  *)
(* is external: partition c of the kernel's label is the whole disk.       *)
(***************************************************************************)
EXTENDS Naturals

CONSTANTS
    Width,   \* 2^32: sizes in the sector are taken modulo this
    Edits,   \* what is done to partitions with disklabel(8): pairs of a name and a partition
    Sectors  \* what other systems have left in the label sector

VARIABLES
    sector, \* the label sector
    lp,     \* the kernel's label
    error,  \* what readdisklabel() returned
    bootlp, \* the boot loader's label
    msg,    \* the message of its readdisklabel(), "none" for NULL
    seen,   \* history: which of them are about the sector as it is
    saved   \* history: the label the kernel wrote last to the sector, if it is still there

labelVars == <<sector, lp, error, bootlp, msg, seen, saved>>

First8 == {"a", "b", "c"}
Parts  == First8 \cup {"i"}
Types  == {"unused", "swap", "ffs", "other"}

Part(o, s, t) == [off |-> o, size |-> s, type |-> t]
Nothing       == Part(0, 0, "unused")
WholeDisk     == Part(0, 1, "unused")
Unwritten     == [p \in Parts |-> Nothing]

\* struct sun_disklabel, and whether a BSD label follows at offset 64
SectorType ==
    [magic : BOOLEAN, sum : BOOLEAN, bsd : BOOLEAN, rpm0 : BOOLEAN, geometry : BOOLEAN,
     part : [Parts -> [off : Nat, size : Nat]],
     ext : {"none", "xpmag", "xpmagtyp"}, xpsum : BOOLEAN, types : [Parts -> Types]]

TypeOK ==
    /\ sector \in SectorType
    /\ lp \in [geometry : BOOLEAN, part : [Parts -> [off : Nat, size : Nat, type : Types]]]
    /\ error \in {"none", "EINVAL", "EIO"}
    /\ bootlp \in [Parts -> [off : Nat, size : Nat, type : Types]]
    /\ msg \in {"none", "I/O error", "no disk label", "disk label corrupted"}
    /\ seen \subseteq {"kernel", "boot"}
    /\ saved = Unwritten \/ saved \in [Parts -> [off : Nat, size : Nat, type : Types]]

\* initdisklabel(): one partition, the whole disk, and the geometry of the drive
Default == [geometry |-> TRUE, part |-> [Unwritten EXCEPT !["c"] = WholeDisk]]

Init ==
    /\ sector \in Sectors
    /\ lp = Default /\ error = "none"
    /\ bootlp = Unwritten /\ msg = "none"
    /\ seen = {} /\ saved = Unwritten

-----------------------------------------------------------------------------
(* disklabel_om_to_bsd(): what both readers have in common                  *)

DefaultType(p) == CASE p = "b" -> "swap" [] p = "c" -> "unused" [] OTHER -> "ffs"

\* UniOS label uses blkoffset, not cyloffset
Converted(s, p) ==
    Part(s.part[p].off, s.part[p].size, IF s.part[p].size = 0 THEN "unused" ELSE DefaultType(p))

\* UniOS has its root in part c, which is then made usable as part b
UsableC(s, parts) ==
    IF s.rpm0 /\ parts["c"].off # 0
    THEN [parts EXCEPT !["b"] = [parts["c"] EXCEPT !.type = "ffs"]]
    ELSE parts

Extended(s, parts) ==
    IF s.ext # "none" /\ s.xpsum
    THEN LET all == [parts EXCEPT !["i"] = Converted(s, "i")]
         IN  IF s.ext = "xpmagtyp" THEN [p \in Parts |-> [all[p] EXCEPT !.type = s.types[p]]] ELSE all
    ELSE parts

FromOm(s) ==
    Extended(s, [UsableC(s, [p \in Parts |-> Converted(s, p)]) EXCEPT !["i"] = Nothing])

\* checkdisklabel()
Checked(parts) == [parts EXCEPT !["c"] = WholeDisk]

-----------------------------------------------------------------------------
(* disklabel_bsd_to_om(), which builds the whole sector                      *)

\* with sl_xpsum computed before the types are there
ToOmWrong(l) ==
    [magic |-> TRUE, sum |-> TRUE, bsd |-> FALSE, rpm0 |-> TRUE, geometry |-> l.geometry,
     part |-> [p \in Parts |-> [off |-> l.part[p].off, size |-> l.part[p].size % Width]],
     ext |-> "xpmagtyp", xpsum |-> \A p \in Parts : l.part[p].type = "unused",
     types |-> [p \in Parts |-> l.part[p].type]]

ToOm(l) ==
    [magic |-> TRUE, sum |-> TRUE, bsd |-> FALSE, rpm0 |-> TRUE, geometry |-> l.geometry,
     part |-> [p \in Parts |->
         IF l.part[p].size = 0 THEN [off |-> 0, size |-> 0]
         ELSE [off |-> l.part[p].off % Width, size |-> l.part[p].size % Width]],
     ext |-> "xpmagtyp", xpsum |-> TRUE, types |-> [p \in Parts |-> l.part[p].type]]

-----------------------------------------------------------------------------
(* The kernel                                                               *)

BootUnchanged == UNCHANGED <<bootlp, msg>>

Returns(e, l) ==
    /\ error' = e /\ lp' = l
    /\ UNCHANGED <<sector, saved>> /\ BootUnchanged

Found(l)   == Returns("none", l) /\ seen' = seen \cup {"kernel"}
Refused(e) == Returns(e, Default) /\ seen' = seen \ {"kernel"}

\* spoofonly, or the sector cannot be read
ReadNothing == Refused("none") \/ Refused("EIO")

\* a UniOS or Sun label comes before a BSD label
ReadOm ==
    /\ sector.magic
    /\ IF sector.sum
       THEN Found([geometry |-> sector.geometry, part |-> Checked(FromOm(sector))])
       ELSE Refused("EINVAL")

ReadBsd ==
    /\ ~sector.magic
    /\ IF sector.bsd
       THEN Found([Default EXCEPT !.part["a"] = Part(1, 1, "ffs")])
       ELSE Refused("EINVAL")

Readdisklabel == ReadNothing \/ ReadOm \/ ReadBsd

\* disklabel(8) and setdisklabel()
Edit(e) ==
    /\ lp' = [lp EXCEPT !.part[e[1]] = e[2]]
    /\ seen' = seen \ {"kernel"}
    /\ UNCHANGED <<sector, error, saved>> /\ BootUnchanged

\* A write that fails may have failed before or after the sector was written.
Writedisklabel ==
    /\ IF lp.geometry
       THEN \/ /\ sector' = ToOm(lp) /\ saved' = lp.part /\ error' \in {"none", "EIO"}
               /\ seen' = {}
            \/ error' = "EIO" /\ UNCHANGED <<sector, saved, seen>>
       ELSE error' = "EINVAL" /\ UNCHANGED <<sector, saved, seen>>
    /\ UNCHANGED lp /\ BootUnchanged

-----------------------------------------------------------------------------
(* The boot loader.  sdinit() goes on when there is no label.               *)

BootSays(m, parts) ==
    /\ msg' = m /\ bootlp' = parts
    /\ seen' = IF m = "none" THEN seen \cup {"boot"} ELSE seen \ {"boot"}
    /\ UNCHANGED <<sector, lp, error, saved>>

BootIoError == BootSays("I/O error", Unwritten)

BootReadWrong ==
    \/ ~sector.magic /\ BootSays("no disk label", Unwritten)
    \/ sector.magic /\ ~sector.sum /\ BootSays("disk label corrupted", Unwritten)
    \/ /\ sector.magic /\ sector.sum
       /\ BootSays("none", Extended(sector, [[p \in Parts |-> Converted(sector, p)] EXCEPT !["i"] = Nothing]))

BootRead ==
    \/ ~sector.magic /\ BootSays("no disk label", Unwritten)
    \/ sector.magic /\ ~sector.sum /\ BootSays("disk label corrupted", Unwritten)
    \/ sector.magic /\ sector.sum /\ BootSays("none", FromOm(sector))

\* another system writes a label of its own
OtherSystem ==
    /\ sector' \in Sectors /\ sector' # sector
    /\ seen' = {} /\ saved' = Unwritten
    /\ UNCHANGED <<lp, error, bootlp, msg>>

Next ==
    \/ Readdisklabel \/ Writedisklabel \/ OtherSystem
    \/ \E e \in Edits : Edit(e)
    \/ BootIoError \/ BootRead

Spec == Init /\ [][Next]_labelVars

-----------------------------------------------------------------------------
Fits(p) == p.off < Width /\ p.size < Width
SamePart(p, q) == p.size = q.size /\ p.type = q.type /\ (p.size # 0 => p.off = q.off)

\* A label the kernel has written is the one it reads, also after a write that was
\* reported to fail: extended partitions and types pass through two more checksums,
\* and the rewrite for UniOS must not take the label for one of that system's.
LabelSurvives ==
    saved # Unwritten =>
        /\ error # "EINVAL"
        /\ "kernel" \in seen => \A p \in Parts : Fits(saved[p]) => SamePart(lp.part[p], saved[p])

\* The boot loader has its own copy of the reader: where it and the kernel accept
\* the same sector they find the same partitions, or another kernel is booted than
\* the one that is installed.
ReadersAgree ==
    seen = {"kernel", "boot"} => \A p \in Parts \ {"c"} : bootlp[p] = lp.part[p]

\* "Note that the UniOS disklabel may have other info we need to keep":
\* what made a label one of UniOS, a root in part c, is still there after a write.
KeepsUniOs == [][sector.rpm0 /\ sector.part["c"].off # 0 /\ saved' # Unwritten
                    => sector'.part["c"] = sector.part["c"]]_labelVars
=============================================================================
