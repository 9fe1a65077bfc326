---------------------------- MODULE DevicesProofs ----------------------------
(***************************************************************************)
(* The safety properties of disk labels, the frame buffer, the keyboard    *)
(* and mouse, the time of day and the LCD, for sizes, labels, months and   *)
(* messages of any number.  The parts share no state: a behaviour is one   *)
(* of each part, and what is proved of a part holds of it.                 *)
(***************************************************************************)
EXTENDS Devices, HatchProofs, SequenceTheorems, WellFoundedInduction, TLAPS

LEMMA StepsOfParts ==
    ASSUME [DevicesNext]_devicesVars
    PROVE  /\ [Next]_vars
           /\ [Labels!Next]_labelVars
           /\ [Text!Next]_rasterVars
           /\ [Display!Next]_fbVars
           /\ [Keys!Next]_lunawsVars
           /\ [Tod!Next]_clockVars
           /\ [Panel!Next]_lcdVars
<1>1. CASE StartMoves
    BY <1>1 DEF StartMoves
<1>2. CASE LabelMoves
    BY <1>2 DEF LabelMoves
<1>3. CASE TextMoves
    BY <1>3 DEF TextMoves
<1>4. CASE DisplayMoves
    BY <1>4 DEF DisplayMoves
<1>5. CASE KeysMoves
    BY <1>5 DEF KeysMoves
<1>6. CASE TodMoves
    BY <1>6 DEF TodMoves
<1>7. CASE PanelMoves
    BY <1>7 DEF PanelMoves
<1>8. CASE UNCHANGED devicesVars
    BY <1>8 DEF devicesVars
<1> QED BY <1>1, <1>2, <1>3, <1>4, <1>5, <1>6, <1>7, <1>8 DEF DevicesNext

-----------------------------------------------------------------------------
(* Disk labels: DiskLabel                                                  *)

PartType == [off : Nat, size : Nat, type : Labels!Types]

LEMMA LabelParts ==
    /\ Labels!Parts = {"a", "b", "c", "i"} /\ Labels!Types = {"unused", "swap", "ffs", "other"}
    /\ Labels!Nothing \in PartType /\ Labels!WholeDisk \in PartType
    /\ Labels!Unwritten \in [Labels!Parts -> PartType]
BY DEF Labels!Parts, Labels!First8, Labels!Types, Labels!Nothing, Labels!WholeDisk, Labels!Unwritten, Labels!Part,
       PartType

\* what a reader makes of a sector are partitions
LEMMA ReadTyped ==
    ASSUME NEW s \in Labels!SectorType
    PROVE  /\ Labels!FromOm(s) \in [Labels!Parts -> PartType]
           /\ Labels!Checked(Labels!FromOm(s)) \in [Labels!Parts -> PartType]
<1>1. \A p \in Labels!Parts : Labels!Converted(s, p) \in PartType
    BY LabelParts DEF Labels!Converted, Labels!Part, Labels!SectorType, Labels!DefaultType, PartType
<1> DEFINE all == [p \in Labels!Parts |-> Labels!Converted(s, p)]
           use == Labels!UsableC(s, all)
<1>2. all \in [Labels!Parts -> PartType]
    BY <1>1
<1> HIDE DEF all
<1>3. use \in [Labels!Parts -> PartType]
    <2>1. [all["c"] EXCEPT !.type = "ffs"] \in PartType
        BY <1>2, LabelParts DEF PartType
    <2> QED BY <1>2, <2>1 DEF Labels!UsableC
<1> HIDE DEF use
<1> DEFINE par == [use EXCEPT !["i"] = Labels!Nothing]
<1>4. par \in [Labels!Parts -> PartType]
    BY <1>3, LabelParts
<1> HIDE DEF par
<1>5. Labels!Extended(s, par) \in [Labels!Parts -> PartType]
    <2> DEFINE ext == [par EXCEPT !["i"] = Labels!Converted(s, "i")]
    <2>1. ext \in [Labels!Parts -> PartType]
        BY <1>1, <1>4, LabelParts
    <2> HIDE DEF ext
    <2>2. ASSUME NEW p \in Labels!Parts PROVE [ext[p] EXCEPT !.type = s.types[p]] \in PartType
        <3>1. s.types[p] \in Labels!Types
            BY DEF Labels!SectorType
        <3> QED BY <2>1, <3>1 DEF PartType
    <2> QED BY <1>4, <2>1, <2>2 DEF Labels!Extended, ext
<1>6. Labels!FromOm(s) \in [Labels!Parts -> PartType]
    BY <1>5 DEF Labels!FromOm, par, use, all
<1>7. Labels!Checked(Labels!FromOm(s)) \in [Labels!Parts -> PartType]
    BY <1>6, LabelParts DEF Labels!Checked
<1> QED BY <1>6, <1>7

LEMMA SectorTyped ==
    ASSUME NEW l \in [geometry : BOOLEAN, part : [Labels!Parts -> PartType]]
    PROVE  Labels!ToOm(l) \in Labels!SectorType
<1>1. ASSUME NEW p \in Labels!Parts
      PROVE  l.part[p].off % LabelWidth \in Nat /\ l.part[p].size % LabelWidth \in Nat /\ l.part[p].type \in Labels!Types
    <2>1. l.part[p].off \in Nat /\ l.part[p].size \in Nat /\ l.part[p].type \in Labels!Types
        BY DEF PartType
    <2> QED BY <2>1, LabelAssumption
<1> QED BY <1>1 DEF Labels!ToOm, Labels!SectorType

(***************************************************************************)
(* What was read is what the sector says, and a label that was written is  *)
(* still in the sector; partition c of the kernel's label is the disk.     *)
(***************************************************************************)
SectorIsRead ==
    /\ "kernel" \in seen /\ sector.magic => lp.part = Labels!Checked(Labels!FromOm(sector))
    /\ "boot" \in seen => sector.magic /\ bootlp = Labels!FromOm(sector)

SectorIsWritten ==
    saved # Labels!Unwritten =>
        /\ sector = Labels!ToOm([geometry |-> TRUE, part |-> saved])
        /\ saved \in [Labels!Parts -> PartType] /\ saved["c"] = Labels!WholeDisk
        /\ lp.geometry /\ error # "EINVAL"

LabelInv ==
    /\ Labels!TypeOK /\ lp.part["c"] = Labels!WholeDisk
    /\ SectorIsRead /\ SectorIsWritten

LEMMA DefaultTyped ==
    /\ Labels!Default \in [geometry : BOOLEAN, part : [Labels!Parts -> PartType]]
    /\ Labels!Default.part["c"] = Labels!WholeDisk /\ Labels!Default.geometry
BY LabelParts DEF Labels!Default

LEMMA LabelInit == Labels!Init => LabelInv
<1> SUFFICES ASSUME Labels!Init PROVE LabelInv
    OBVIOUS
<1>1. Labels!TypeOK
    BY LabelAssumption, LabelParts, DefaultTyped DEF Labels!Init, Labels!TypeOK, PartType
<1> QED BY <1>1, DefaultTyped DEF Labels!Init, LabelInv, SectorIsRead, SectorIsWritten

\* a reader keeps the sector, and its label is what it has found, or the default
LEMMA ReadStep ==
    ASSUME LabelInv, Labels!Readdisklabel
    PROVE  LabelInv'
<1> DEFINE om == [geometry |-> sector.geometry, part |-> Labels!Checked(Labels!FromOm(sector))]
           bsd == [Labels!Default EXCEPT !.part["a"] = Labels!Part(1, 1, "ffs")]
<1>1. sector \in Labels!SectorType /\ sector.geometry \in BOOLEAN
    BY DEF LabelInv, Labels!TypeOK, Labels!SectorType
<1>2. om \in [geometry : BOOLEAN, part : [Labels!Parts -> PartType]] /\ om.part["c"] = Labels!WholeDisk
    <2>1. Labels!FromOm(sector) \in [Labels!Parts -> PartType]
        BY <1>1, ReadTyped
    <2>2. Labels!Checked(Labels!FromOm(sector))["c"] = Labels!WholeDisk
        BY <2>1, LabelParts DEF Labels!Checked
    <2> QED BY <1>1, <2>2, ReadTyped
<1>3. /\ bsd \in [geometry : BOOLEAN, part : [Labels!Parts -> PartType]]
      /\ bsd.part["c"] = Labels!WholeDisk /\ bsd.geometry
    <2>1. Labels!Part(1, 1, "ffs") \in PartType
        BY LabelParts DEF Labels!Part, PartType
    <2> QED BY <2>1, DefaultTyped, LabelParts
<1> HIDE DEF om, bsd
<1>4. UNCHANGED <<sector, saved, bootlp, msg>>
    BY DEF Labels!Readdisklabel, Labels!ReadNothing, Labels!ReadOm, Labels!ReadBsd, Labels!Refused,
           Labels!Found, Labels!Returns, Labels!BootUnchanged
<1>5. \/ /\ lp' = Labels!Default /\ seen' = seen \ {"kernel"}
         /\ \/ error' = "none" \/ error' = "EIO"
            \/ error' = "EINVAL" /\ ~(sector.magic /\ sector.sum)
      \/ lp' = om /\ error' = "none" /\ seen' = seen \cup {"kernel"} /\ sector.magic
      \/ lp' = bsd /\ error' = "none" /\ seen' = seen \cup {"kernel"} /\ ~sector.magic
    BY DEF Labels!Readdisklabel, Labels!ReadNothing, Labels!ReadOm, Labels!ReadBsd, Labels!Refused,
           Labels!Found, Labels!Returns, om, bsd
<1>6. lp' \in [geometry : BOOLEAN, part : [Labels!Parts -> PartType]] /\ lp'.part["c"] = Labels!WholeDisk
    BY <1>2, <1>3, <1>5, DefaultTyped
<1>7. Labels!TypeOK'
    <2>1. error' \in {"none", "EINVAL", "EIO"} /\ seen' \subseteq {"kernel", "boot"}
        BY <1>5 DEF LabelInv, Labels!TypeOK
    <2> QED BY <1>4, <1>6, <2>1 DEF LabelInv, Labels!TypeOK, PartType
<1>8. SectorIsRead'
    BY <1>4, <1>5 DEF LabelInv, SectorIsRead, om
<1>9. SectorIsWritten'
    <2> SUFFICES ASSUME saved # Labels!Unwritten
                 PROVE  lp'.geometry /\ error' # "EINVAL"
        BY <1>4 DEF LabelInv, SectorIsWritten
    <2>1. sector.magic /\ sector.sum /\ sector.geometry
        BY DEF LabelInv, SectorIsWritten, Labels!ToOm
    <2> QED BY <1>5, <2>1, <1>3, DefaultTyped DEF om
<1> QED BY <1>6, <1>7, <1>8, <1>9 DEF LabelInv

LEMMA EditStep ==
    ASSUME LabelInv, NEW e \in Edits, Labels!Edit(e)
    PROVE  LabelInv'
<1>1. e[1] \in Labels!Parts /\ e[1] # "c" /\ e[2] \in PartType
    BY LabelAssumption DEF PartType
<1>2. lp \in [geometry : BOOLEAN, part : [Labels!Parts -> PartType]]
    BY DEF LabelInv, Labels!TypeOK, PartType
<1>3. /\ lp' \in [geometry : BOOLEAN, part : [Labels!Parts -> PartType]]
      /\ lp'.part["c"] = lp.part["c"] /\ lp'.geometry = lp.geometry
    BY <1>1, <1>2, LabelParts DEF Labels!Edit
<1> QED BY <1>3 DEF Labels!Edit, Labels!BootUnchanged, LabelInv, Labels!TypeOK, PartType, SectorIsRead, SectorIsWritten

LEMMA WriteStep ==
    ASSUME LabelInv, Labels!Writedisklabel
    PROVE  LabelInv'
<1>1. lp \in [geometry : BOOLEAN, part : [Labels!Parts -> PartType]] /\ UNCHANGED <<lp, bootlp, msg>>
    BY DEF LabelInv, Labels!TypeOK, PartType, Labels!Writedisklabel, Labels!BootUnchanged
<1>2. CASE lp.geometry /\ sector' = Labels!ToOm(lp) /\ saved' = lp.part /\ error' \in {"none", "EIO"} /\ seen' = {}
    <2>1. lp = [geometry |-> TRUE, part |-> lp.part]
        BY <1>1, <1>2
    <2>2. sector' \in Labels!SectorType /\ saved' \in [Labels!Parts -> PartType]
        BY <1>1, <1>2, SectorTyped
    <2>3. Labels!TypeOK'
        BY <1>1, <1>2, <2>2 DEF LabelInv, Labels!TypeOK, PartType
    <2>4. SectorIsRead'
        BY <1>2 DEF SectorIsRead
    <2>5. SectorIsWritten'
        BY <1>1, <1>2, <2>1, <2>2 DEF LabelInv, SectorIsWritten
    <2> QED BY <1>1, <2>3, <2>4, <2>5 DEF LabelInv
<1>3. CASE lp.geometry /\ error' = "EIO" /\ UNCHANGED <<sector, saved, seen>>
    BY <1>1, <1>3 DEF LabelInv, Labels!TypeOK, SectorIsRead, SectorIsWritten
<1>4. CASE ~lp.geometry /\ error' = "EINVAL" /\ UNCHANGED <<sector, saved, seen>>
    BY <1>1, <1>4 DEF LabelInv, Labels!TypeOK, SectorIsRead, SectorIsWritten
<1> QED BY <1>2, <1>3, <1>4 DEF Labels!Writedisklabel

LEMMA BootReadStep ==
    ASSUME LabelInv, Labels!BootIoError \/ Labels!BootRead
    PROVE  LabelInv'
<1>1. UNCHANGED <<sector, lp, error, saved>>
    BY DEF Labels!BootIoError, Labels!BootRead, Labels!BootSays
<1>2. \/ /\ bootlp' = Labels!Unwritten /\ seen' = seen \ {"boot"}
         /\ msg' \in {"I/O error", "no disk label", "disk label corrupted"}
      \/ bootlp' = Labels!FromOm(sector) /\ seen' = seen \cup {"boot"} /\ msg' = "none" /\ sector.magic
    BY DEF Labels!BootIoError, Labels!BootRead, Labels!BootSays
<1>3. bootlp' \in [Labels!Parts -> PartType]
    <2>1. Labels!FromOm(sector) \in [Labels!Parts -> PartType]
        BY ReadTyped DEF LabelInv, Labels!TypeOK
    <2>2. Labels!Unwritten \in [Labels!Parts -> PartType]
        BY LabelParts
    <2> QED BY <1>2, <2>1, <2>2
<1>4. Labels!TypeOK'
    BY <1>1, <1>2, <1>3 DEF LabelInv, Labels!TypeOK, PartType
<1>5. SectorIsRead' /\ SectorIsWritten'
    BY <1>1, <1>2 DEF LabelInv, SectorIsRead, SectorIsWritten
<1> QED BY <1>1, <1>4, <1>5 DEF LabelInv

LEMMA LabelStep == LabelInv /\ [Labels!Next]_labelVars => LabelInv'
<1> SUFFICES ASSUME LabelInv, [Labels!Next]_labelVars PROVE LabelInv'
    OBVIOUS
<1>1. CASE Labels!OtherSystem
    BY <1>1, LabelAssumption
       DEF Labels!OtherSystem, LabelInv, Labels!TypeOK, SectorIsRead, SectorIsWritten
<1>2. CASE UNCHANGED labelVars
    BY <1>2 DEF labelVars, LabelInv, Labels!TypeOK, SectorIsRead, SectorIsWritten
<1> QED BY <1>1, <1>2, ReadStep, EditStep, WriteStep, BootReadStep DEF Labels!Next

\* The two checksums, the types and the rewrite for UniOS give a label back that is
\* written and read.
LEMMA WrittenIsRead ==
    ASSUME NEW l \in [Labels!Parts -> PartType], l["c"] = Labels!WholeDisk, NEW p \in Labels!Parts, Labels!Fits(l[p])
    PROVE  Labels!SamePart(Labels!Checked(Labels!FromOm(Labels!ToOm([geometry |-> TRUE, part |-> l])))[p], l[p])
<1> DEFINE s == Labels!ToOm([geometry |-> TRUE, part |-> l])
           all == [q \in Labels!Parts |-> Labels!Converted(s, q)]
           par == [all EXCEPT !["i"] = Labels!Nothing]
           ext == [par EXCEPT !["i"] = Labels!Converted(s, "i")]
<1>1. s.rpm0 /\ s.ext = "xpmagtyp" /\ s.xpsum
    BY DEF Labels!ToOm
<1>2. ASSUME NEW q \in Labels!Parts
      PROVE  /\ s.part[q] = IF l[q].size = 0 THEN [off |-> 0, size |-> 0]
                            ELSE [off |-> l[q].off % LabelWidth, size |-> l[q].size % LabelWidth]
             /\ s.types[q] = l[q].type
    BY DEF Labels!ToOm
<1> HIDE DEF s
<1>3. Labels!UsableC(s, all) = all
    <2>1. s.part["c"].off = 0
        BY <1>2, LabelParts, LabelAssumption DEF Labels!WholeDisk, Labels!Part
    <2>2. all["c"].off = 0
        BY <2>1, LabelParts DEF Labels!Converted, Labels!Part
    <2> QED BY <2>2 DEF Labels!UsableC
<1>4. Labels!FromOm(s) = [q \in Labels!Parts |-> [ext[q] EXCEPT !.type = s.types[q]]]
    BY <1>1, <1>3 DEF Labels!FromOm, Labels!Extended
<1>5. ext[p] = Labels!Converted(s, p)
    BY LabelParts
<1> HIDE DEF all, par, ext
<1>6. CASE p = "c"
    <2>1. Labels!Checked(Labels!FromOm(s))["c"] = Labels!WholeDisk
        BY <1>4, LabelParts DEF Labels!Checked
    <2> QED BY <1>6, <2>1 DEF Labels!SamePart, s
<1>7. CASE p # "c"
    <2>1. Labels!Checked(Labels!FromOm(s))[p] = [Labels!Converted(s, p) EXCEPT !.type = l[p].type]
        BY <1>2, <1>4, <1>5, <1>7 DEF Labels!Checked
    <2>2. l[p].size \in Nat /\ l[p].off \in Nat
        BY DEF PartType
    <2>3. l[p].size % LabelWidth = l[p].size /\ l[p].off % LabelWidth = l[p].off
        BY <2>2, LabelAssumption DEF Labels!Fits
    <2>4. /\ s.part[p].size = l[p].size
          /\ l[p].size # 0 => s.part[p].off = l[p].off
        <3>1. s.part[p] = IF l[p].size = 0 THEN [off |-> 0, size |-> 0]
                          ELSE [off |-> l[p].off % LabelWidth, size |-> l[p].size % LabelWidth]
            BY <1>2
        <3> QED BY <3>1, <2>3
    <2> QED BY <2>1, <2>4 DEF Labels!Converted, Labels!Part, Labels!SamePart, s
<1> QED BY <1>6, <1>7

LEMMA LabelsAgree == LabelInv => LabelSurvives /\ ReadersAgree
<1> SUFFICES ASSUME LabelInv PROVE LabelSurvives /\ ReadersAgree
    OBVIOUS
<1>1. LabelSurvives
    <2> SUFFICES ASSUME saved # Labels!Unwritten
                 PROVE  /\ error # "EINVAL"
                        /\ "kernel" \in seen => \A p \in Labels!Parts :
                              Labels!Fits(saved[p]) => Labels!SamePart(lp.part[p], saved[p])
        BY DEF LabelSurvives, Labels!LabelSurvives
    <2>1. /\ sector = Labels!ToOm([geometry |-> TRUE, part |-> saved])
          /\ saved \in [Labels!Parts -> PartType] /\ saved["c"] = Labels!WholeDisk
        BY DEF LabelInv, SectorIsWritten
    <2>2. sector.magic
        BY <2>1 DEF Labels!ToOm
    <2> QED BY <2>1, <2>2, WrittenIsRead DEF LabelInv, SectorIsRead, SectorIsWritten
<1>2. ReadersAgree
    <2> SUFFICES ASSUME seen = {"kernel", "boot"}, NEW p \in Labels!Parts \ {"c"} PROVE bootlp[p] = lp.part[p]
        BY DEF ReadersAgree, Labels!ReadersAgree
    <2>1. sector.magic /\ bootlp = Labels!FromOm(sector) /\ lp.part = Labels!Checked(Labels!FromOm(sector))
        BY DEF LabelInv, SectorIsRead
    <2>2. Labels!FromOm(sector) \in [Labels!Parts -> PartType]
        BY ReadTyped DEF LabelInv, Labels!TypeOK
    <2> QED BY <2>1, <2>2 DEF Labels!Checked
<1> QED BY <1>1, <1>2

-----------------------------------------------------------------------------
(* Text: Raster.  Numbers                                                  *)

LEMMA TimesMonotone ==
    ASSUME NEW d \in Nat, NEW a \in Int, NEW b \in Int, a <= b
    PROVE  d * a \in Int /\ d * b \in Int /\ d * a <= d * b
<1>1. PICK e \in Nat : b = a + e
    <2>1. b - a \in Nat /\ b = a + (b - a)
        OBVIOUS
    <2> QED BY <2>1
<1>2. d * e \in Nat /\ d * (a + e) = d * a + d * e
    OBVIOUS
<1>3. d * a \in Int
    OBVIOUS
<1> QED BY <1>1, <1>2, <1>3

LEMMA DivMod ==
    ASSUME NEW n \in Int, NEW d \in Nat \ {0}
    PROVE  /\ n \div d \in Int /\ n % d \in 0..(d - 1) /\ n = d * (n \div d) + (n % d)
           /\ n >= 0 => n \div d \in Nat
OBVIOUS

LEMMA DivUnique ==
    ASSUME NEW d \in Nat \ {0}, NEW q \in Int, NEW r \in 0..(d - 1), NEW n, n = d * q + r
    PROVE  n \div d = q /\ n % d = r
<1>1. PICK a, b : a = n \div d /\ b = n % d
    OBVIOUS
<1>2. d * q \in Int /\ n \in Int
    OBVIOUS
<1>3. a \in Int /\ b \in 0..(d - 1) /\ n = d * a + b
    BY <1>1, <1>2, DivMod
<1>4. ~(a < q)
    <2> SUFFICES ASSUME a + 1 <= q PROVE FALSE
        BY <1>3
    <2>1. d * (a + 1) <= d * q
        BY <1>3, TimesMonotone
    <2>2. d * (a + 1) = d * a + d /\ d * a \in Int
        BY <1>3
    <2> QED BY <1>2, <1>3, <2>1, <2>2
<1>5. ~(q < a)
    <2> SUFFICES ASSUME q + 1 <= a PROVE FALSE
        BY <1>3
    <2>1. d * (q + 1) <= d * a
        BY <1>3, TimesMonotone
    <2>2. d * (q + 1) = d * q + d /\ d * a \in Int
        BY <1>3
    <2> QED BY <1>2, <1>3, <2>1, <2>2
<1>6. a = q
    BY <1>3, <1>4, <1>5
<1> QED BY <1>1, <1>2, <1>3, <1>6

LEMMA TextSizes ==
    /\ Word \in Nat \ {0} /\ FontWidth \in Nat \ {0} /\ FontWidth <= Word /\ Xorigin \in Nat
    /\ Ncols \in Nat \ {0} /\ Nrows \in Nat \ {0}
    /\ Xorigin + FontWidth * Ncols \in Nat /\ Text!Stride \in Nat /\ Xorigin + FontWidth * Ncols <= Text!Stride
<1>1. /\ Word \in Nat \ {0} /\ FontWidth \in Nat \ {0} /\ FontWidth <= Word /\ Xorigin \in Nat
      /\ Ncols \in Nat \ {0} /\ Nrows \in Nat \ {0}
    BY TextAssumption
<1>2. PICK m : m = FontWidth * Ncols
    OBVIOUS
<1>3. m \in Nat /\ m = Ncols * FontWidth
    BY <1>1, <1>2
<1>4. PICK n, q : n = Xorigin + m /\ q = n \div Word
    OBVIOUS
<1>5. n \in Nat /\ q \in Nat /\ n = Word * q + (n % Word) /\ n % Word \in 0..(Word - 1)
    <2>1. n \in Nat /\ n \in Int /\ n >= 0
        BY <1>1, <1>3, <1>4
    <2> QED BY <1>1, <1>4, <2>1, DivMod
<1>6. (q + 1) * Word = Word * q + Word /\ Word * q \in Nat
    BY <1>1, <1>5
<1>7. Text!Stride = (q + 1) * Word
    BY <1>3, <1>4 DEF Text!Stride
<1> QED BY <1>1, <1>2, <1>4, <1>5, <1>6, <1>7

\* which characters a span of positions is: these of c and of the n - 1 after it
LEMMA CellAt ==
    ASSUME NEW x \in Int, NEW c \in Int, NEW n \in Nat
    PROVE  /\ (x - Xorigin) \div FontWidth \in Int
           /\ (x - Xorigin) % FontWidth \in 0..(FontWidth - 1)
           /\ x = Xorigin + FontWidth * ((x - Xorigin) \div FontWidth) + ((x - Xorigin) % FontWidth)
           /\ FontWidth * c \in Int /\ FontWidth * n \in Nat
           /\ (x - Xorigin) \div FontWidth \in c..(c + n - 1)
                 <=> x \in (Xorigin + FontWidth * c)..(Xorigin + FontWidth * c + FontWidth * n - 1)
<1>1. PICK F, z, q, r : F = FontWidth /\ z = x - Xorigin /\ q = z \div F /\ r = z % F
    OBVIOUS
<1>2. /\ F \in Nat \ {0} /\ Xorigin \in Nat /\ z \in Int /\ q \in Int /\ r \in 0..(F - 1)
      /\ z = F * q + r /\ x = Xorigin + z
    BY <1>1, TextSizes, DivMod
<1>3. F * c \in Int /\ F * n \in Nat /\ F * q \in Int
    BY <1>2
<1>4. c <= q => F * c <= F * q
    BY <1>2, TimesMonotone
<1>5. q <= c - 1 => F * q + F <= F * c
    <2> SUFFICES ASSUME q + 1 <= c PROVE F * q + F <= F * c
        BY <1>2
    <2>1. F * (q + 1) <= F * c
        BY <1>2, TimesMonotone
    <2> QED BY <1>2, <2>1
<1>6. q + 1 <= c + n => F * q + F <= F * c + F * n
    <2> SUFFICES ASSUME q + 1 <= c + n PROVE F * q + F <= F * c + F * n
        OBVIOUS
    <2>1. F * (q + 1) <= F * (c + n)
        BY <1>2, TimesMonotone
    <2>2. F * (q + 1) = F * q + F /\ F * (c + n) = F * c + F * n
        BY <1>2
    <2> QED BY <2>1, <2>2
<1>7. c + n <= q => F * c + F * n <= F * q
    <2> SUFFICES ASSUME c + n <= q PROVE F * c + F * n <= F * q
        OBVIOUS
    <2>1. F * (c + n) <= F * q
        BY <1>2, TimesMonotone
    <2>2. F * (c + n) = F * c + F * n
        BY <1>2
    <2> QED BY <2>1, <2>2
<1>8. q \in c..(c + n - 1) <=> x \in (Xorigin + F * c)..(Xorigin + F * c + F * n - 1)
    <2>1. PICK C, N, Q : C = F * c /\ N = F * n /\ Q = F * q
        OBVIOUS
    <2>2. /\ C \in Int /\ N \in Nat /\ Q \in Int /\ x = Xorigin + Q + r
          /\ c <= q => C <= Q
          /\ q <= c - 1 => Q + F <= C
          /\ q + 1 <= c + n => Q + F <= C + N
          /\ c + n <= q => C + N <= Q
        BY <1>2, <1>3, <1>4, <1>5, <1>6, <1>7, <2>1
    <2>3. q \in c..(c + n - 1) <=> x \in (Xorigin + C)..(Xorigin + C + N - 1)
        BY <1>2, <2>2
    <2> QED BY <2>1, <2>3
<1> QED BY <1>1, <1>2, <1>3, <1>8

Shifted(p, S) == {p + i : i \in S}

LEMMA ShiftedSpan ==
    ASSUME NEW p \in Int, NEW a \in Int, NEW b \in Int, NEW x \in Int
    PROVE  x \in Shifted(p, a..b) <=> x \in (p + a)..(p + b)
<1>1. x \in (p + a)..(p + b) => x - p \in a..b /\ x = p + (x - p)
    OBVIOUS
<1>2. ASSUME NEW i \in a..b, x = p + i PROVE x \in (p + a)..(p + b)
    BY <1>2
<1> QED BY <1>1, <1>2 DEF Shifted

\* the masks are those of the character's positions, whether it crosses a word or not
LEMMA UnderIsCell ==
    ASSUME NEW c \in Nat, NEW x \in Int
    PROVE  x \in Text!Under(c) <=> x \in (Xorigin + FontWidth * c)..(Xorigin + FontWidth * c + FontWidth - 1)
<1>1. PICK F, W, m, q, a : F = FontWidth /\ W = Word /\ m = F * c /\ q = m \div W /\ a = m % W
    OBVIOUS
<1>2. F \in Nat \ {0} /\ W \in Nat \ {0} /\ F <= W /\ Xorigin \in Nat /\ m \in Nat
    BY <1>1, TextSizes
<1>3. q \in Nat /\ a \in 0..(W - 1) /\ m = W * q + a
    <2>1. m \in Int /\ m >= 0
        BY <1>2
    <2>2. m \div W \in Nat /\ m % W \in 0..(W - 1) /\ m = W * (m \div W) + (m % W)
        BY <1>2, <2>1, DivMod
    <2> QED BY <1>1, <2>2
<1>4. PICK p : p = Xorigin + W * q
    OBVIOUS
<1>5. p \in Nat /\ p + a = Xorigin + m /\ p = Xorigin + q * W
    <2>1. W * q \in Nat /\ W * q = q * W
        BY <1>2, <1>3
    <2> QED BY <1>2, <1>3, <1>4, <2>1
<1>6. /\ Text!Align(c) = a /\ (Text!Wide(c) <=> F + a > W)
      /\ Text!Lmask(c) = a..(W - 1) /\ Text!Rmask(c) = 0..(W - 1 - ((-(F + a)) % W))
    BY <1>1 DEF Text!Align, Text!Wide, Text!Lmask, Text!Rmask
<1>7. Text!Under(c) = IF Text!Wide(c)
                      THEN Shifted(p, Text!Lmask(c)) \cup Shifted(p + W, Text!Rmask(c))
                      ELSE Shifted(p, Text!Lmask(c) \cap Text!Rmask(c))
    BY <1>1, <1>5 DEF Text!Under, Shifted
<1>8. CASE F + a > W
    <2>1. PICK r : r = W + W - (F + a)
        OBVIOUS
    <2>2. r \in 0..(W - 1) /\ -(F + a) = W * (-2) + r
        BY <1>2, <1>3, <1>8, <2>1
    <2>3. (-(F + a)) % W = r
        <3>1. PICK n, k : n = -(F + a) /\ k = -2
            OBVIOUS
        <3>2. k \in Int /\ n = W * k + r
            BY <2>2, <3>1
        <3>3. n % W = r
            BY <1>2, <2>2, <3>2, DivUnique
        <3> QED BY <3>1, <3>3
    <2>4. Text!Rmask(c) = 0..(F + a - W - 1)
        BY <1>2, <1>3, <1>6, <2>1, <2>3
    <2>5. x \in Shifted(p, a..(W - 1)) <=> x \in (p + a)..(p + (W - 1))
        BY <1>2, <1>3, <1>5, ShiftedSpan
    <2>6. x \in Shifted(p + W, 0..(F + a - W - 1)) <=> x \in (p + W + 0)..(p + W + (F + a - W - 1))
        BY <1>2, <1>3, <1>5, ShiftedSpan
    <2>7. x \in Text!Under(c) <=> x \in Shifted(p, a..(W - 1)) \/ x \in Shifted(p + W, 0..(F + a - W - 1))
        BY <1>6, <1>7, <1>8, <2>4
    <2>8. x \in (p + a)..(p + (W - 1)) \/ x \in (p + W + 0)..(p + W + (F + a - W - 1))
             <=> x \in (p + a)..(p + a + F - 1)
        BY <1>2, <1>3, <1>5, <1>8
    <2>9. x \in Text!Under(c) <=> x \in (p + a)..(p + a + F - 1)
        BY <2>5, <2>6, <2>7, <2>8, Zenon
    <2> QED BY <1>1, <1>5, <2>9
<1>9. CASE ~(F + a > W)
    <2>1. PICK r : r = W - (F + a)
        OBVIOUS
    <2>2. r \in 0..(W - 1) /\ -(F + a) = W * (-1) + r
        BY <1>2, <1>3, <1>9, <2>1
    <2>3. (-(F + a)) % W = r
        <3>1. PICK n, k : n = -(F + a) /\ k = -1
            OBVIOUS
        <3>2. k \in Int /\ n = W * k + r
            BY <2>2, <3>1
        <3>3. n % W = r
            BY <1>2, <2>2, <3>2, DivUnique
        <3> QED BY <3>1, <3>3
    <2>4. Text!Lmask(c) \cap Text!Rmask(c) = a..(F + a - 1)
        BY <1>2, <1>3, <1>6, <1>9, <2>1, <2>3
    <2>5. x \in Shifted(p, a..(F + a - 1)) <=> x \in (p + a)..(p + (F + a - 1))
        BY <1>2, <1>3, <1>5, ShiftedSpan
    <2>6. x \in Text!Under(c) <=> x \in (p + a)..(p + (F + a - 1))
        BY <1>6, <1>7, <1>9, <2>4, <2>5
    <2>7. p + (F + a - 1) = p + a + F - 1
        BY <1>2, <1>3, <1>5
    <2> QED BY <1>1, <1>5, <2>6, <2>7
<1> QED BY <1>8, <1>9

-----------------------------------------------------------------------------
(* The steps of a block move through a line                                *)

(***************************************************************************)
(* The numbers the steps are computed from: a span of more than a word is  *)
(* nstart positions, nlMiddle words and nend positions, and psrc and       *)
(* xoffSrc are where the source of the first of these words begins.        *)
(***************************************************************************)
Numbers(s, d, n, W, a, b, c, f, st, e, m, x, o) ==
    /\ W = Word /\ a = s \div Word /\ b = s % Word /\ c = d \div Word /\ f = d % Word
    /\ st = Text!Nstart(d) /\ e = Text!Nend(d, n) /\ m = Text!NlMiddle(d, n)
    /\ x = Text!XoffSrc(s, d) /\ o = Text!SrcStartOver(s, d)
    /\ W \in Nat \ {0} /\ a \in Nat /\ b \in 0..(W - 1) /\ c \in Nat /\ f \in 0..(W - 1)
    /\ st \in 1..W /\ e \in 0..(W - 1) /\ m \in Nat /\ x \in 0..(W - 1) /\ o \in {0, 1}
    /\ s = W * a + b /\ d = W * c + f /\ n = st + W * m + e
    /\ W * (a + o) + x = s + st /\ W * (c + 1) = d + st
    /\ (d + n) \div Word = c + 1 + m
    /\ (s + n) \div Word = a + o + m + (IF x + e >= W THEN 1 ELSE 0)

LEMMA SpanNumbers ==
    ASSUME NEW s \in Nat, NEW d \in Nat, NEW n \in Nat, n > Word
    PROVE  \E W, a, b, c, f, st, e, m, x, o : Numbers(s, d, n, W, a, b, c, f, st, e, m, x, o)
<1>1. PICK W, a, b, c, f : W = Word /\ a = s \div W /\ b = s % W /\ c = d \div W /\ f = d % W
    OBVIOUS
<1>2. W \in Nat \ {0} /\ s \in Int /\ d \in Int /\ s >= 0 /\ d >= 0
    BY <1>1, TextSizes
<1>3. a \in Nat /\ b \in 0..(W - 1) /\ s = W * a + b /\ W * a \in Nat
    <2>1. s \div W \in Nat /\ s % W \in 0..(W - 1) /\ s = W * (s \div W) + (s % W)
        BY <1>2, DivMod
    <2>2. a \in Nat /\ b \in 0..(W - 1) /\ s = W * a + b
        BY <1>1, <2>1
    <2> QED BY <1>2, <2>2
<1>4. c \in Nat /\ f \in 0..(W - 1) /\ d = W * c + f /\ W * c \in Nat
    <2>1. d \div W \in Nat /\ d % W \in 0..(W - 1) /\ d = W * (d \div W) + (d % W)
        BY <1>2, DivMod
    <2>2. c \in Nat /\ f \in 0..(W - 1) /\ d = W * c + f
        BY <1>1, <2>1
    <2> QED BY <1>2, <2>2
<1>5. PICK st, z : st = W - f /\ z = n - st
    OBVIOUS
<1>6. st \in 1..W /\ z \in Nat /\ n = st + z /\ Text!Nstart(d) = st
    BY <1>1, <1>2, <1>4, <1>5 DEF Text!Nstart
<1>7. PICK m, e : m = z \div W /\ e = z % W
    OBVIOUS
<1>8. m \in Nat /\ e \in 0..(W - 1) /\ z = W * m + e /\ W * m \in Nat /\ Text!NlMiddle(d, n) = m
    <2>1. z \in Int /\ z >= 0
        BY <1>6
    <2>2. m \in Nat /\ e \in 0..(W - 1) /\ z = W * m + e
        BY <1>2, <1>7, <2>1, DivMod
    <2>3. W * m \in Nat
        BY <1>2, <2>2
    <2>4. Text!NlMiddle(d, n) = m
        BY <1>1, <1>5, <1>6, <1>7 DEF Text!NlMiddle
    <2> QED BY <2>2, <2>3, <2>4
<1>9. /\ W * (c + 1) = W * c + W /\ W * (c + 1 + m) = W * c + W + W * m /\ W * (a + 1) = W * a + W
      /\ \A i \in {0, 1}, j \in {0, 1} : W * (a + i + m + j) = W * a + W * i + W * m + W * j
      /\ W * 1 = W /\ W * 0 = 0
    BY <1>2, <1>3, <1>4, <1>8
<1>10. W * (c + 1) = d + st
    BY <1>2, <1>4, <1>5, <1>9
<1>11. (d + n) \div W = c + 1 + m /\ Text!Nend(d, n) = e
    <2>1. PICK y, k : y = d + n /\ k = c + 1 + m
        OBVIOUS
    <2>2. k \in Int /\ y = W * k + e
        BY <1>2, <1>4, <1>5, <1>6, <1>8, <1>9, <2>1
    <2>3. y \div W = k /\ y % W = e
        BY <1>2, <1>8, <2>2, DivUnique
    <2> QED BY <1>1, <2>1, <2>3 DEF Text!Nend
<1>12. PICK x, o : /\ x = (IF b + st >= W THEN b + st - W ELSE b + st)
                   /\ o = (IF b + st >= W THEN 1 ELSE 0)
    OBVIOUS
<1>13. x \in 0..(W - 1) /\ o \in {0, 1} /\ W * (a + o) + x = s + st
    BY <1>2, <1>3, <1>6, <1>9, <1>12
<1>14. Text!XoffSrc(s, d) = x /\ Text!SrcStartOver(s, d) = o
    <2>1. PICK y : y = b + st
        OBVIOUS
    <2>2. y = W * o + x
        BY <1>2, <1>3, <1>6, <1>9, <1>12, <2>1
    <2>3. y % W = x
        <3>1. o \in Int /\ x \in 0..(W - 1)
            BY <1>13
        <3> QED BY <1>2, <2>2, <3>1, DivUnique
    <2> QED BY <1>1, <1>6, <1>12, <2>1, <2>3 DEF Text!XoffSrc, Text!SrcStartOver
<1>15. (s + n) \div W = a + o + m + (IF x + e >= W THEN 1 ELSE 0)
    <2>1. PICK y, j, r : /\ y = s + n /\ j = (IF x + e >= W THEN 1 ELSE 0)
                         /\ r = (IF x + e >= W THEN x + e - W ELSE x + e)
        OBVIOUS
    <2>2. PICK k : k = a + o + m + j
        OBVIOUS
    <2>3. j \in {0, 1} /\ r \in 0..(W - 1) /\ x + e = W * j + r
        BY <1>2, <1>8, <1>9, <1>13, <2>1
    <2>4. W * (a + o) = W * a + W * o /\ W * o \in Nat /\ W * j \in Nat
        BY <1>2, <1>3, <1>13, <2>3
    <2>5. W * k = W * a + W * o + W * m + W * j
        BY <1>9, <1>13, <2>2, <2>3
    <2>6. y = s + st + W * m + e
        BY <1>6, <1>8, <2>1
    <2>7. k \in Int /\ y = W * k + r
        BY <1>2, <1>3, <1>6, <1>8, <1>13, <2>2, <2>3, <2>4, <2>5, <2>6
    <2>8. y \div W = k
        BY <1>2, <2>3, <2>7, DivUnique
    <2> QED BY <2>1, <2>2, <2>8
<1>16. n = st + W * m + e
    BY <1>6, <1>8
<1>17. Numbers(s, d, n, W, a, b, c, f, st, e, m, x, o)
    BY <1>1, <1>2, <1>3, <1>4, <1>6, <1>8, <1>10, <1>11, <1>13, <1>14, <1>15, <1>16 DEF Numbers
<1> QED BY <1>17

Step == [src : Nat, dst : Nat, w : Nat]

LEMMA CopyIsStep ==
    ASSUME NEW s \in Nat, NEW d \in Nat, NEW w \in Nat
    PROVE  /\ Text!Copy(s, d, w) \in Step
           /\ Text!Copy(s, d, w).src = s /\ Text!Copy(s, d, w).dst = d /\ Text!Copy(s, d, w).w = w
BY DEF Text!Copy, Step

(***************************************************************************)
(* Each step goes on where the one before it ended, from the left if the   *)
(* source is not to the left of the destination, or else from the right:   *)
(* at[k] is how far from the beginning of the span k steps have come.      *)
(***************************************************************************)
Between(c, s, d, lo, hi) == lo <= hi /\ c.src = s + lo /\ c.dst = d + lo /\ c.w = hi - lo

Walks(steps, at, s, d, n) ==
    /\ Len(steps) \in Nat /\ at \in [0..Len(steps) -> 0..n]
    /\ IF s >= d
       THEN /\ at[0] = 0 /\ at[Len(steps)] = n
            /\ \A k \in 1..Len(steps) : Between(steps[k], s, d, at[k - 1], at[k])
       ELSE /\ at[0] = n /\ at[Len(steps)] = 0
            /\ \A k \in 1..Len(steps) : Between(steps[k], s, d, at[k], at[k - 1])

LEMMA Joined2 ==
    ASSUME NEW S, NEW a \in Seq(S), NEW b \in Seq(S)
    PROVE  /\ a \o b \in Seq(S) /\ Len(a \o b) = Len(a) + Len(b)
           /\ \A i \in 1..Len(a) : (a \o b)[i] = a[i]
           /\ \A i \in 1..Len(b) : (a \o b)[Len(a) + i] = b[i]
OBVIOUS

LEMMA Joined3 ==
    ASSUME NEW S, NEW a \in Seq(S), NEW b \in Seq(S), NEW c \in Seq(S)
    PROVE  /\ a \o b \o c \in Seq(S) /\ Len(a \o b \o c) = Len(a) + Len(b) + Len(c)
           /\ \A i \in 1..Len(a) : (a \o b \o c)[i] = a[i]
           /\ \A i \in 1..Len(b) : (a \o b \o c)[Len(a) + i] = b[i]
           /\ \A i \in 1..Len(c) : (a \o b \o c)[Len(a) + Len(b) + i] = c[i]
<1>1. PICK t : t = a \o b
    OBVIOUS
<1>2. /\ t \in Seq(S) /\ Len(t) = Len(a) + Len(b)
      /\ \A i \in 1..Len(a) : t[i] = a[i]
      /\ \A i \in 1..Len(b) : t[Len(a) + i] = b[i]
    BY <1>1, Joined2
<1>3. /\ t \o c \in Seq(S) /\ Len(t \o c) = Len(t) + Len(c)
      /\ \A i \in 1..Len(t) : (t \o c)[i] = t[i]
      /\ \A i \in 1..Len(c) : (t \o c)[Len(t) + i] = c[i]
    <2>1. t \in Seq(S)
        BY <1>2
    <2> QED BY <2>1, Joined2
<1>4. Len(a) \in Nat /\ Len(b) \in Nat /\ Len(c) \in Nat
    OBVIOUS
<1>5. /\ \A i \in 1..Len(a) : i \in 1..Len(t)
      /\ \A i \in 1..Len(b) : Len(a) + i \in 1..Len(t)
    BY <1>2, <1>4
<1> QED BY <1>1, <1>2, <1>3, <1>4, <1>5

LEMMA LeftToRightWalks ==
    ASSUME NEW s \in Nat, NEW d \in Nat, NEW n \in Nat, n > Word, s >= d
    PROVE  \E at : Walks(Text!LeftToRight(s, d, n), at, s, d, n)
<1>1. PICK W, sw, sr, dw, dr, st, e, m, x, o : Numbers(s, d, n, W, sw, sr, dw, dr, st, e, m, x, o)
    BY SpanNumbers
<1>2. PICK p, q : p = sw + o /\ q = dw + 1
    OBVIOUS
<1>3. /\ W \in Nat \ {0} /\ st \in 1..W /\ e \in 0..(W - 1) /\ m \in Nat /\ x \in 0..(W - 1)
      /\ p \in Nat /\ q \in Nat
      /\ n = st + W * m + e /\ W * p + x = s + st /\ W * q = d + st
    BY <1>1, <1>2, SMTT(40) DEF Numbers
<1>18. PICK a, b, c : /\ a = <<Text!Copy(s, d, st)>>
                     /\ b = [i \in 1..m |-> Text!Copy(W * (p + i - 1) + x, W * (q + i - 1), W)]
                     /\ c = Text!If(e # 0, Text!Copy(W * (p + m) + x, W * (q + m), e))
    OBVIOUS
<1>4. PICK t : t = a \o b \o c
    OBVIOUS
<1>5. Text!LeftToRight(s, d, n) = t
    BY <1>1, <1>2, <1>18, <1>4 DEF Text!LeftToRight, Numbers
<1>6. ASSUME NEW i \in 0..m
      PROVE  /\ W * i \in Nat /\ W * (p + i) + x = s + (st + W * i) /\ W * (q + i) = d + (st + W * i)
             /\ W * (p + i) + x \in Nat /\ W * (q + i) \in Nat /\ W * i <= W * m
    <2>1. W * i \in Nat /\ W * p \in Nat /\ W * q \in Nat /\ W * (p + i) = W * p + W * i /\ W * (q + i) = W * q + W * i
        BY <1>3
    <2>2. W * i <= W * m
        BY <1>3, TimesMonotone
    <2> QED BY <1>3, <2>1, <2>2
<1>7. a \in Seq(Step) /\ Len(a) = 1 /\ a[1] = Text!Copy(s, d, st)
    <2>1. Text!Copy(s, d, st) \in Step
        BY <1>3, CopyIsStep
    <2> QED BY <1>18, <2>1
<1>8. b \in Seq(Step) /\ Len(b) = m /\ \A i \in 1..m : b[i] = Text!Copy(W * (p + (i - 1)) + x, W * (q + (i - 1)), W)
    <2>1. ASSUME NEW i \in 1..m
          PROVE  /\ Text!Copy(W * (p + (i - 1)) + x, W * (q + (i - 1)), W) \in Step
                 /\ p + i - 1 = p + (i - 1) /\ q + i - 1 = q + (i - 1)
        <3>1. i - 1 \in 0..m /\ W \in Nat
            BY <1>3
        <3>2. W * (p + (i - 1)) + x \in Nat /\ W * (q + (i - 1)) \in Nat
            BY <1>6, <3>1
        <3> QED BY <1>3, <3>1, <3>2, CopyIsStep
    <2>2. b = [i \in 1..m |-> Text!Copy(W * (p + (i - 1)) + x, W * (q + (i - 1)), W)]
        BY <1>18, <2>1
    <2> QED BY <1>3, <2>1, <2>2
<1>9. /\ c \in Seq(Step) /\ Len(c) = (IF e # 0 THEN 1 ELSE 0)
      /\ e # 0 => c[1] = Text!Copy(W * (p + m) + x, W * (q + m), e)
    <2>1. m \in 0..m /\ e \in Nat
        BY <1>3
    <2>2. Text!Copy(W * (p + m) + x, W * (q + m), e) \in Step
        BY <1>6, <2>1, CopyIsStep
    <2> QED BY <1>18, <2>2 DEF Text!If
<1>10. PICK last : last = IF e # 0 THEN 1 ELSE 0
    OBVIOUS
<1>11. /\ Len(t) = 1 + m + last /\ t[1] = a[1] /\ \A i \in 1..m : t[1 + i] = b[i]
       /\ e # 0 => t[1 + m + 1] = c[1]
    <2>1. /\ Len(t) = Len(a) + Len(b) + Len(c)
          /\ \A i \in 1..Len(a) : t[i] = a[i]
          /\ \A i \in 1..Len(b) : t[Len(a) + i] = b[i]
          /\ \A i \in 1..Len(c) : t[Len(a) + Len(b) + i] = c[i]
        <3>1. a \in Seq(Step) /\ b \in Seq(Step) /\ c \in Seq(Step)
            BY <1>7, <1>8, <1>9
        <3> QED BY <1>4, <3>1, Joined3
    <2> QED BY <1>7, <1>8, <1>9, <1>10, <2>1
<1>12. PICK at : at = [k \in 0..(1 + m + last) |->
                         IF k = 0 THEN 0 ELSE IF k <= m + 1 THEN st + W * (k - 1) ELSE n]
    OBVIOUS
<1>13. /\ at[0] = 0 /\ \A i \in 0..m : at[1 + i] = st + W * i
       /\ at[1 + m + last] = n
    <2>1. at[0] = 0
        BY <1>3, <1>10, <1>12
    <2>2. ASSUME NEW i \in 0..m PROVE at[1 + i] = st + W * i
        <3>1. 1 + i \in 0..(1 + m + last) /\ 1 + i # 0 /\ 1 + i <= m + 1 /\ (1 + i) - 1 = i
            BY <1>3, <1>10
        <3> QED BY <1>12, <3>1
    <2>3. CASE last = 1
        BY <1>3, <1>12, <2>3
    <2>4. CASE last = 0
        <3>1. e = 0 /\ m \in 0..m
            BY <1>3, <1>10, <2>4
        <3>2. at[1 + m] = st + W * m /\ W * m \in Nat
            BY <1>6, <2>2, <3>1
        <3>3. 1 + m + last = 1 + m /\ n = st + W * m
            BY <1>3, <2>4, <3>1, <3>2
        <3> QED BY <2>1, <2>2, <3>2, <3>3
    <2> QED BY <1>10, <2>1, <2>2, <2>3, <2>4
<1>14. at \in [0..Len(t) -> 0..n]
    <2>1. ASSUME NEW k \in 0..(1 + m + last)
          PROVE (IF k = 0 THEN 0 ELSE IF k <= m + 1 THEN st + W * (k - 1) ELSE n) \in 0..n
        <3>1. CASE k # 0 /\ k <= m + 1
            <4>1. k - 1 \in 0..m
                BY <1>3, <1>10, <3>1
            <4>2. W * (k - 1) \in Nat /\ W * (k - 1) <= W * m /\ W * m \in Nat
                BY <1>3, <1>6, <4>1
            <4> QED BY <1>3, <3>1, <4>2
        <3>2. CASE k = 0 \/ ~(k <= m + 1)
            BY <3>2
        <3> QED BY <3>1, <3>2
    <2> QED BY <1>11, <1>12, <2>1
<1>15. ASSUME NEW k \in 1..Len(t) PROVE Between(t[k], s, d, at[k - 1], at[k])
    <2>0. k = 1 \/ k - 1 \in 1..m \/ (k = 1 + m + 1 /\ last = 1 /\ e # 0)
        BY <1>3, <1>10, <1>11
    <2>1. CASE k = 1
        <3>1. at[0] = 0 /\ at[1] = st
            <4>1. 0 \in 0..m /\ 1 + 0 = 1 /\ st + W * 0 = st
                BY <1>3
            <4> QED BY <1>13, <4>1
        <3>2. t[1].src = s /\ t[1].dst = d /\ t[1].w = st
            <4>1. st \in Nat /\ t[1] = Text!Copy(s, d, st)
                BY <1>3, <1>7, <1>11
            <4> QED BY <4>1 DEF Text!Copy
        <3> QED BY <1>3, <2>1, <3>1, <3>2 DEF Between
    <2>2. CASE k - 1 \in 1..m
        <3>1. PICK i : i = k - 1
            OBVIOUS
        <3>2. i \in 1..m /\ i \in 0..m /\ i - 1 \in 0..m /\ 1 + i = k /\ 1 + (i - 1) = k - 1
            BY <1>3, <2>2, <3>1
        <3>3. at[k] = st + W * i /\ at[k - 1] = st + W * (i - 1)
            BY <1>13, <3>2
        <3>4. t[k] = Text!Copy(W * (p + (i - 1)) + x, W * (q + (i - 1)), W)
            BY <1>8, <1>11, <3>2
        <3>5. t[k].src = s + (st + W * (i - 1)) /\ t[k].dst = d + (st + W * (i - 1)) /\ t[k].w = W
            <4>1. PICK u, v : u = W * (p + (i - 1)) + x /\ v = W * (q + (i - 1))
                OBVIOUS
            <4>2. u \in Nat /\ v \in Nat /\ u = s + (st + W * (i - 1)) /\ v = d + (st + W * (i - 1)) /\ W \in Nat
                BY <1>3, <1>6, <3>2, <4>1
            <4>3. t[k] = Text!Copy(u, v, W)
                BY <3>4, <4>1
            <4>4. t[k].src = u /\ t[k].dst = v /\ t[k].w = W
                BY <4>3 DEF Text!Copy
            <4> QED BY <4>2, <4>4
        <3>6. W * i = W * (i - 1) + W /\ W * (i - 1) \in Nat
            BY <1>3, <1>6, <3>2
        <3>7. PICK u, v : u = at[k - 1] /\ v = at[k]
            OBVIOUS
        <3>8. u \in Nat /\ v = u + W /\ u = st + W * (i - 1)
            BY <1>3, <3>3, <3>6, <3>7
        <3>9. t[k].src = s + u /\ t[k].dst = d + u /\ t[k].w = v - u /\ u <= v
            BY <1>3, <3>5, <3>8, SMTT(40)
        <3> QED BY <3>7, <3>9 DEF Between
    <2>3. CASE k = 1 + m + 1 /\ last = 1 /\ e # 0
        <3>1. at[k] = n /\ at[k - 1] = st + W * m
            <4>1. m \in 0..m /\ k - 1 = 1 + m /\ k = 1 + m + last
                BY <1>3, <2>3
            <4> QED BY <1>13, <4>1
        <3>2. t[k].src = s + (st + W * m) /\ t[k].dst = d + (st + W * m) /\ t[k].w = e
            <4>1. m \in 0..m /\ e \in Nat
                BY <1>3
            <4>2. PICK u, v : u = W * (p + m) + x /\ v = W * (q + m)
                OBVIOUS
            <4>3. u \in Nat /\ v \in Nat /\ u = s + (st + W * m) /\ v = d + (st + W * m)
                BY <1>6, <4>1, <4>2
            <4>4. t[k] = Text!Copy(u, v, e)
                BY <1>9, <1>11, <2>3, <4>2
            <4>5. t[k].src = u /\ t[k].dst = v /\ t[k].w = e
                BY <4>4 DEF Text!Copy
            <4> QED BY <4>3, <4>5
        <3>3. W * m \in Nat
            BY <1>3
        <3>4. PICK u, v : u = at[k - 1] /\ v = at[k]
            OBVIOUS
        <3>5. u = st + W * m /\ v = n /\ v = u + e /\ u \in Nat
            BY <1>3, <3>1, <3>3, <3>4
        <3>6. t[k].src = s + u /\ t[k].dst = d + u /\ t[k].w = v - u /\ u <= v
            BY <1>3, <3>2, <3>5
        <3> QED BY <3>4, <3>6 DEF Between
    <2> QED BY <2>0, <2>1, <2>2, <2>3
<1>16. Len(t) \in Nat /\ at[Len(t)] = n
    BY <1>3, <1>10, <1>11, <1>13
<1>17. Walks(t, at, s, d, n)
    BY <1>13, <1>14, <1>15, <1>16 DEF Walks
<1> QED BY <1>5, <1>17

LEMMA RightToLeftWalks ==
    ASSUME NEW s \in Nat, NEW d \in Nat, NEW n \in Nat, n > Word, ~(s >= d)
    PROVE  \E at : Walks(Text!RightToLeft(s, d, n), at, s, d, n)
<1>1. PICK W, sw, sr, dw, dr, st, e, m, x, o : Numbers(s, d, n, W, sw, sr, dw, dr, st, e, m, x, o)
    BY SpanNumbers
<1>2. PICK p, q : p = sw + o /\ q = dw + 1
    OBVIOUS
<1>3. /\ W \in Nat \ {0} /\ st \in 1..W /\ e \in 0..(W - 1) /\ m \in Nat /\ x \in 0..(W - 1)
      /\ p \in Nat /\ q \in Nat
      /\ n = st + W * m + e /\ W * p + x = s + st /\ W * q = d + st
    <2>1. /\ W \in Nat \ {0} /\ st \in 1..W /\ e \in 0..(W - 1) /\ m \in Nat /\ x \in 0..(W - 1)
          /\ n = st + W * m + e /\ W * (sw + o) + x = s + st /\ W * (dw + 1) = d + st
        BY <1>1 DEF Numbers
    <2>2. sw + o \in Nat /\ dw + 1 \in Nat
        BY <1>1 DEF Numbers
    <2> QED BY <1>2, <2>1, <2>2, Zenon
<1>4. PICK a, b, c : /\ a = Text!If(e # 0, Text!Copy(W * (p + m) + x, W * (q + m), e))
                     /\ b = [i \in 1..m |-> Text!Copy(W * (p + m - i) + x, W * (q + m - i), W)]
                     /\ c = <<Text!Copy(s, d, st)>>
    OBVIOUS
<1>5. PICK t : t = a \o b \o c
    OBVIOUS
<1>6. Text!RightToLeft(s, d, n) = t
    <2>1. PICK u, v : /\ u = (s + n) \div Word - (IF Text!XoffSrc(s, d) + Text!Nend(d, n) >= Word THEN 1 ELSE 0)
                      /\ v = (d + n) \div Word
        OBVIOUS
    <2>2. u = p + m /\ v = q + m
        BY <1>1, <1>2, <2>1 DEF Numbers
    <2>3. Word * (u - m - o) + (s % Word) = s /\ Word * (v - m - 1) + (d % Word) = d
        <3>1. u - m - o = sw /\ v - m - 1 = dw
            <4>1. sw \in Nat /\ dw \in Nat /\ o \in {0, 1} /\ m \in Nat
                BY <1>1 DEF Numbers
            <4> QED BY <1>2, <2>2, <4>1
        <3> QED BY <1>1, <3>1 DEF Numbers
    <2>4. Text!RightToLeft(s, d, n) =
              Text!If(e # 0, Text!Copy(Word * u + x, Word * v, e))
              \o [i \in 1..m |-> Text!Copy(Word * (u - i) + x, Word * (v - i), Word)]
              \o <<Text!Copy(Word * (u - m - o) + (s % Word), Word * (v - m - 1) + (d % Word), st)>>
        BY <1>1, <2>1 DEF Text!RightToLeft, Numbers
    <2>5. W = Word
        BY <1>1 DEF Numbers
    <2>6. Text!RightToLeft(s, d, n) =
              Text!If(e # 0, Text!Copy(W * u + x, W * v, e))
              \o [i \in 1..m |-> Text!Copy(W * (u - i) + x, W * (v - i), W)]
              \o <<Text!Copy(s, d, st)>>
        BY <2>3, <2>4, <2>5, Zenon
    <2>7. a = Text!If(e # 0, Text!Copy(W * u + x, W * v, e))
        BY <1>4, <2>2
    <2>8. b = [i \in 1..m |-> Text!Copy(W * (u - i) + x, W * (v - i), W)]
        <3>1. ASSUME NEW i \in 1..m
              PROVE  Text!Copy(W * (u - i) + x, W * (v - i), W)
                         = Text!Copy(W * (p + m - i) + x, W * (q + m - i), W)
            <4>1. u - i = p + m - i /\ v - i = q + m - i
                BY <1>3, <2>2
            <4> QED BY <4>1
        <3>2. b = [i \in 1..m |-> Text!Copy(W * (p + m - i) + x, W * (q + m - i), W)]
            BY <1>4
        <3> QED BY <3>1, <3>2
    <2>9. c = <<Text!Copy(s, d, st)>>
        BY <1>4
    <2> QED BY <1>5, <2>6, <2>7, <2>8, <2>9, Zenon
<1>7. ASSUME NEW i \in 0..m
      PROVE  /\ W * i \in Nat /\ W * (p + i) + x = s + (st + W * i) /\ W * (q + i) = d + (st + W * i)
             /\ W * (p + i) + x \in Nat /\ W * (q + i) \in Nat /\ W * i <= W * m
    <2>1. W * i \in Nat /\ W * p \in Nat /\ W * q \in Nat /\ W * (p + i) = W * p + W * i /\ W * (q + i) = W * q + W * i
        BY <1>3
    <2>2. W * i <= W * m
        BY <1>3, TimesMonotone
    <2> QED BY <1>3, <2>1, <2>2
<1>8. /\ a \in Seq(Step) /\ Len(a) = (IF e # 0 THEN 1 ELSE 0)
      /\ e # 0 => a[1] = Text!Copy(W * (p + m) + x, W * (q + m), e)
    <2>1. m \in 0..m /\ e \in Nat
        BY <1>3
    <2>2. Text!Copy(W * (p + m) + x, W * (q + m), e) \in Step
        BY <1>7, <2>1, CopyIsStep
    <2> QED BY <1>4, <2>2 DEF Text!If
<1>9. b \in Seq(Step) /\ Len(b) = m /\ \A i \in 1..m : b[i] = Text!Copy(W * (p + (m - i)) + x, W * (q + (m - i)), W)
    <2>1. ASSUME NEW i \in 1..m
          PROVE  /\ Text!Copy(W * (p + (m - i)) + x, W * (q + (m - i)), W) \in Step
                 /\ p + m - i = p + (m - i) /\ q + m - i = q + (m - i)
        <3>1. m - i \in 0..m /\ W \in Nat
            BY <1>3
        <3>2. W * (p + (m - i)) + x \in Nat /\ W * (q + (m - i)) \in Nat
            BY <1>7, <3>1
        <3> QED BY <1>3, <3>1, <3>2, CopyIsStep
    <2>2. b = [i \in 1..m |-> Text!Copy(W * (p + (m - i)) + x, W * (q + (m - i)), W)]
        BY <1>4, <2>1
    <2> QED BY <1>3, <2>1, <2>2
<1>10. c \in Seq(Step) /\ Len(c) = 1 /\ c[1] = Text!Copy(s, d, st)
    <2>1. Text!Copy(s, d, st) \in Step
        BY <1>3, CopyIsStep
    <2> QED BY <1>4, <2>1
<1>11. PICK r : r = IF e # 0 THEN 1 ELSE 0
    OBVIOUS
<1>12. /\ Len(t) = r + m + 1 /\ t[r + m + 1] = c[1] /\ \A i \in 1..m : t[r + i] = b[i]
       /\ e # 0 => t[1] = a[1]
    <2>1. /\ Len(t) = Len(a) + Len(b) + Len(c)
          /\ \A i \in 1..Len(a) : t[i] = a[i]
          /\ \A i \in 1..Len(b) : t[Len(a) + i] = b[i]
          /\ \A i \in 1..Len(c) : t[Len(a) + Len(b) + i] = c[i]
        <3>1. a \in Seq(Step) /\ b \in Seq(Step) /\ c \in Seq(Step)
            BY <1>8, <1>9, <1>10
        <3> QED BY <1>5, <3>1, Joined3
    <2> QED BY <1>8, <1>9, <1>10, <1>11, <2>1
<1>13. PICK at : at = [k \in 0..(r + m + 1) |->
                         IF k = r + m + 1 THEN 0 ELSE IF k < r THEN n ELSE st + W * (m - (k - r))]
    OBVIOUS
<1>14. at[0] = n /\ at[r + m + 1] = 0 /\ \A i \in 0..m : at[r + i] = st + W * (m - i)
    <2>1. at[r + m + 1] = 0
        BY <1>3, <1>11, <1>13
    <2>2. ASSUME NEW i \in 0..m PROVE at[r + i] = st + W * (m - i)
        <3>1. r + i \in 0..(r + m + 1) /\ r + i # r + m + 1 /\ ~(r + i < r) /\ (r + i) - r = i
            BY <1>3, <1>11
        <3> QED BY <1>13, <3>1
    <2>3. CASE r = 1
        <3>1. at[0] = n
            BY <1>3, <1>13, <2>3
        <3> QED BY <2>1, <2>2, <3>1
    <2>4. CASE r = 0
        <3>1. e = 0 /\ 0 \in 0..m /\ m - 0 = m /\ r + 0 = 0
            BY <1>3, <1>11, <2>4
        <3>2. at[0] = st + W * m /\ W * m \in Nat
            BY <1>3, <2>2, <3>1
        <3>3. n = st + W * m
            BY <1>3, <3>1, <3>2
        <3> QED BY <2>1, <2>2, <3>2, <3>3
    <2> QED BY <1>11, <2>3, <2>4
<1>15. at \in [0..Len(t) -> 0..n]
    <2>1. ASSUME NEW k \in 0..(r + m + 1)
          PROVE (IF k = r + m + 1 THEN 0 ELSE IF k < r THEN n ELSE st + W * (m - (k - r))) \in 0..n
        <3>1. CASE k # r + m + 1 /\ ~(k < r)
            <4>1. m - (k - r) \in 0..m
                BY <1>3, <1>11, <3>1
            <4>2. W * (m - (k - r)) \in Nat /\ W * (m - (k - r)) <= W * m /\ W * m \in Nat
                BY <1>3, <1>7, <4>1
            <4> QED BY <1>3, <3>1, <4>2
        <3>2. CASE k = r + m + 1 \/ k < r
            BY <3>2
        <3> QED BY <3>1, <3>2
    <2> QED BY <1>12, <1>13, <2>1
<1>16. ASSUME NEW k \in 1..Len(t) PROVE Between(t[k], s, d, at[k], at[k - 1])
    <2>0. k = r + m + 1 \/ k - r \in 1..m \/ (k = 1 /\ r = 1 /\ e # 0)
        BY <1>3, <1>11, <1>12
    <2>1. CASE k = r + m + 1
        <3>1. at[k] = 0 /\ at[k - 1] = st
            <4>1. m \in 0..m /\ r + m = k - 1 /\ st + W * (m - m) = st
                BY <1>3, <1>11, <2>1
            <4> QED BY <1>14, <2>1, <4>1
        <3>2. t[k].src = s /\ t[k].dst = d /\ t[k].w = st
            <4>1. st \in Nat /\ t[k] = Text!Copy(s, d, st)
                BY <1>3, <1>10, <1>12, <2>1
            <4> QED BY <4>1 DEF Text!Copy
        <3> QED BY <1>3, <2>1, <3>1, <3>2 DEF Between
    <2>2. CASE k - r \in 1..m
        <3>1. PICK i, j : i = k - r /\ j = m - i
            OBVIOUS
        <3>2. i \in 1..m /\ i \in 0..m /\ i - 1 \in 0..m /\ r + i = k /\ r + (i - 1) = k - 1
              /\ j \in 0..m /\ j + 1 \in 0..m /\ m - (i - 1) = j + 1
            BY <1>3, <1>11, <2>2, <3>1
        <3>3. at[k] = st + W * j /\ at[k - 1] = st + W * (j + 1)
            BY <1>14, <3>1, <3>2
        <3>4. t[k] = Text!Copy(W * (p + j) + x, W * (q + j), W)
            BY <1>9, <1>12, <3>1, <3>2
        <3>5. t[k].src = s + (st + W * j) /\ t[k].dst = d + (st + W * j) /\ t[k].w = W
            <4>1. PICK u, v : u = W * (p + j) + x /\ v = W * (q + j)
                OBVIOUS
            <4>2. u \in Nat /\ v \in Nat /\ u = s + (st + W * j) /\ v = d + (st + W * j) /\ W \in Nat
                BY <1>3, <1>7, <3>2, <4>1
            <4>3. t[k] = Text!Copy(u, v, W)
                BY <3>4, <4>1
            <4>4. t[k].src = u /\ t[k].dst = v /\ t[k].w = W
                BY <4>3 DEF Text!Copy
            <4> QED BY <4>2, <4>4
        <3>6. W * (j + 1) = W * j + W /\ W * j \in Nat
            BY <1>3, <1>7, <3>2
        <3>7. PICK u, v : u = at[k] /\ v = at[k - 1]
            OBVIOUS
        <3>8. u \in Nat /\ v = u + W /\ u = st + W * j
            BY <1>3, <3>3, <3>6, <3>7
        <3>9. t[k].src = s + u /\ t[k].dst = d + u /\ t[k].w = v - u /\ u <= v
            <4>1. W \in Nat /\ v - u = W /\ u <= v
                BY <1>3, <3>8
            <4> QED BY <3>5, <3>8, <4>1
        <3> QED BY <3>7, <3>9 DEF Between
    <2>3. CASE k = 1 /\ r = 1 /\ e # 0
        <3>1. at[k - 1] = n /\ at[k] = st + W * m
            <4>1. 0 \in 0..m /\ k - 1 = 0 /\ k = r + 0 /\ m - 0 = m
                BY <1>3, <2>3
            <4> QED BY <1>14, <4>1
        <3>2. t[k].src = s + (st + W * m) /\ t[k].dst = d + (st + W * m) /\ t[k].w = e
            <4>1. m \in 0..m /\ e \in Nat
                BY <1>3
            <4>2. PICK u, v : u = W * (p + m) + x /\ v = W * (q + m)
                OBVIOUS
            <4>3. u \in Nat /\ v \in Nat /\ u = s + (st + W * m) /\ v = d + (st + W * m)
                BY <1>7, <4>1, <4>2
            <4>4. t[k] = Text!Copy(u, v, e)
                BY <1>8, <1>12, <2>3, <4>2
            <4>5. t[k].src = u /\ t[k].dst = v /\ t[k].w = e
                BY <4>4 DEF Text!Copy
            <4> QED BY <4>3, <4>5
        <3>3. W * m \in Nat
            BY <1>3
        <3>4. PICK u, v : u = at[k] /\ v = at[k - 1]
            OBVIOUS
        <3>5. u = st + W * m /\ v = n /\ v = u + e /\ u \in Nat
            BY <1>3, <3>1, <3>3, <3>4
        <3>6. t[k].src = s + u /\ t[k].dst = d + u /\ t[k].w = v - u /\ u <= v
            BY <1>3, <3>2, <3>5
        <3> QED BY <3>4, <3>6 DEF Between
    <2> QED BY <2>0, <2>1, <2>2, <2>3
<1>17. Len(t) \in Nat /\ at[Len(t)] = 0
    BY <1>3, <1>11, <1>12, <1>14
<1>18. Walks(t, at, s, d, n)
    BY <1>14, <1>15, <1>16, <1>17 DEF Walks
<1> QED BY <1>6, <1>18

LEMMA StepsWalk ==
    ASSUME NEW s \in Nat, NEW d \in Nat, NEW n \in Nat
    PROVE  \E at : Walks(Text!Steps(s, d, n), at, s, d, n)
<1>1. Word \in Nat
    BY TextSizes
<1>2. CASE n <= Word
    <2>1. PICK t, at : t = <<Text!Copy(s, d, n)>> /\ at = [k \in 0..1 |-> IF (s >= d) = (k = 0) THEN 0 ELSE n]
        OBVIOUS
    <2>2. Len(t) = 1 /\ t[1].src = s /\ t[1].dst = d /\ t[1].w = n
        <3>1. Len(t) = 1 /\ t[1] = Text!Copy(s, d, n)
            BY <2>1
        <3> QED BY <3>1 DEF Text!Copy
    <2>3. at \in [0..1 -> 0..n]
        BY <2>1
    <2>4. CASE s >= d
        <3>1. at[0] = 0 /\ at[1] = n
            BY <2>1, <2>4
        <3>2. ASSUME NEW k \in 1..1 PROVE Between(t[k], s, d, at[k - 1], at[k])
            <4>1. k = 1 /\ k - 1 = 0
                OBVIOUS
            <4> QED BY <2>2, <3>1, <4>1 DEF Between
        <3>3. Walks(t, at, s, d, n)
            BY <2>2, <2>3, <2>4, <3>1, <3>2 DEF Walks
        <3> QED BY <1>2, <2>1, <3>3 DEF Text!Steps
    <2>5. CASE ~(s >= d)
        <3>1. at[0] = n /\ at[1] = 0
            BY <2>1, <2>5
        <3>2. ASSUME NEW k \in 1..1 PROVE Between(t[k], s, d, at[k], at[k - 1])
            <4>1. k = 1 /\ k - 1 = 0
                OBVIOUS
            <4> QED BY <2>2, <3>1, <4>1 DEF Between
        <3>3. Walks(t, at, s, d, n)
            BY <2>2, <2>3, <2>5, <3>1, <3>2 DEF Walks
        <3> QED BY <1>2, <2>1, <3>3 DEF Text!Steps
    <2> QED BY <2>4, <2>5
<1>3. CASE ~(n <= Word) /\ s >= d
    <2>1. n > Word /\ Text!Steps(s, d, n) = Text!LeftToRight(s, d, n)
        BY <1>1, <1>3 DEF Text!Steps
    <2> QED BY <1>3, <2>1, LeftToRightWalks
<1>4. CASE ~(n <= Word) /\ ~(s >= d)
    <2>1. n > Word /\ Text!Steps(s, d, n) = Text!RightToLeft(s, d, n)
        BY <1>1, <1>4 DEF Text!Steps
    <2> QED BY <1>4, <2>1, RightToLeftWalks
<1> QED BY <1>2, <1>3, <1>4

(***************************************************************************)
(* A recursive function over 0..n exists: were it not so, there would be a *)
(* least n where it is not.                                                *)
(***************************************************************************)
Iterates(h, S, x, F, n) ==
    h \in [0..n -> S] /\ h[0] = x /\ \A k \in 1..n : h[k] = F[<<k, h[k - 1]>>]

LEMMA LeastNumber ==
    ASSUME NEW S \in SUBSET Nat, S # {}
    PROVE  \E n \in S : \A m \in S : n <= m
<1> DEFINE R == OpToRel(<, Nat)
<1>1. \E n \in S : \A m \in S : ~(<<m, n>> \in R)
    BY NatLessThanWellFounded, WFMin
<1>2. \A n, m \in Nat : m < n => <<m, n>> \in R
    BY DEF OpToRel
<1> HIDE DEF R
<1>3. PICK n \in S : \A m \in S : ~(<<m, n>> \in R)
    BY <1>1
<1>4. \A m \in S : ~(m < n)
    BY <1>2, <1>3
<1> QED BY <1>3, <1>4

LEMMA IterationExists ==
    ASSUME NEW S, NEW x \in S, NEW N \in Nat, NEW F \in [(1..N) \X S -> S]
    PROVE  \E h : Iterates(h, S, x, F, N)
<1> DEFINE Bad == {n \in 0..N : \A h : ~Iterates(h, S, x, F, n)}
<1>1. Bad = {}
    <2> SUFFICES ASSUME Bad # {} PROVE FALSE
        OBVIOUS
    <2>0. Bad \in SUBSET Nat
        OBVIOUS
    <2>1. PICK n \in Bad : \A m \in Bad : n <= m
        <3> HIDE DEF Bad
        <3> QED BY <2>0, LeastNumber
    <2>2. CASE n = 0
        <3>1. PICK h : h = [k \in 0..0 |-> x]
            OBVIOUS
        <3>2. h \in [0..0 -> S] /\ h[0] = x /\ \A k \in 1..0 : h[k] = F[<<k, h[k - 1]>>]
            BY <3>1
        <3>3. Iterates(h, S, x, F, n)
            BY <2>2, <3>2 DEF Iterates
        <3> QED BY <2>1, <3>3
    <2>3. CASE n # 0
        <3>1. n \in 1..N /\ n - 1 \in 0..N /\ n - 1 \notin Bad
            BY <2>1, <2>3
        <3>2. PICK e : Iterates(e, S, x, F, n - 1)
            BY <3>1
        <3>3. e \in [0..(n - 1) -> S] /\ e[0] = x /\ \A k \in 1..(n - 1) : e[k] = F[<<k, e[k - 1]>>]
            BY <3>2 DEF Iterates
        <3>4. PICK h : h = [k \in 0..n |-> IF k = n THEN F[<<n, e[n - 1]>>] ELSE e[k]]
            OBVIOUS
        <3>5. h \in [0..n -> S]
            <4>1. n - 1 \in 0..(n - 1)
                BY <3>1
            <4>2. e[n - 1] \in S
                BY <3>3, <4>1
            <4>3. <<n, e[n - 1]>> \in (1..N) \X S
                BY <3>1, <4>2
            <4>4. F[<<n, e[n - 1]>>] \in S
                BY <4>3
            <4>5. \A k \in 0..n : k # n => k \in 0..(n - 1)
                BY <3>1
            <4> QED BY <3>3, <3>4, <4>4, <4>5
        <3>6. h[0] = x
            BY <3>1, <3>3, <3>4
        <3>7. ASSUME NEW k \in 1..n PROVE h[k] = F[<<k, h[k - 1]>>]
            <4>1. k - 1 \in 0..n /\ k - 1 # n /\ k \in 0..n
                BY <3>1
            <4>2. h[k - 1] = e[k - 1]
                BY <3>4, <4>1
            <4>3. k # n => k \in 1..(n - 1) /\ h[k] = e[k]
                BY <3>1, <3>4, <4>1
            <4>4. k = n => h[k] = F[<<k, e[k - 1]>>]
                BY <3>4, <4>1
            <4> QED BY <3>3, <4>2, <4>3, <4>4
        <3>8. Iterates(h, S, x, F, n)
            BY <3>5, <3>6, <3>7 DEF Iterates
        <3> QED BY <2>1, <3>8
    <2> QED BY <2>2, <2>3
<1>2. N \in 0..N
    OBVIOUS
<1> QED BY <1>1, <1>2

Pixels == [0..(Text!Stride - 1) -> {0, 1}]
Plane  == [Text!RowsOf -> Pixels]

LEMMA PutIsLine ==
    ASSUME NEW f \in Pixels, NEW l \in Pixels, NEW s \in Nat, NEW d \in Nat, NEW w \in Nat, NEW rop,
           s + w <= Text!Stride
    PROVE  /\ Text!GetAndPut(f, l, s, d, w, rop) \in Pixels
           /\ \A x \in 0..(Text!Stride - 1) :
                 Text!GetAndPut(f, l, s, d, w, rop)[x] =
                     IF x \in d..(d + w - 1) THEN (IF rop = "clear" THEN 0 ELSE f[s + x - d]) ELSE l[x]
<1>1. PICK L : L = Text!Stride
    OBVIOUS
<1>2. L \in Nat /\ s + w <= L /\ f \in [0..(L - 1) -> {0, 1}] /\ l \in [0..(L - 1) -> {0, 1}]
    BY <1>1, TextSizes DEF Pixels
<1>3. Text!GetAndPut(f, l, s, d, w, rop) = [x \in 0..(L - 1) |->
          IF x \in d..(d + w - 1) THEN (IF rop = "clear" THEN 0 ELSE f[s + x - d]) ELSE l[x]]
    BY <1>2 DEF Text!GetAndPut
<1>4. ASSUME NEW x \in 0..(L - 1)
      PROVE  (IF x \in d..(d + w - 1) THEN (IF rop = "clear" THEN 0 ELSE f[s + x - d]) ELSE l[x]) \in {0, 1}
    <2>1. x \in d..(d + w - 1) => s + x - d \in 0..(L - 1)
        BY <1>2
    <2>2. x \in d..(d + w - 1) => f[s + x - d] \in {0, 1}
        BY <1>2, <2>1
    <2>3. l[x] \in {0, 1}
        BY <1>2
    <2> QED BY <2>2, <2>3
<1> QED BY <1>1, <1>3, <1>4 DEF Pixels

(***************************************************************************)
(* The steps through a line put at once what they put one after the other, *)
(* though source and destination may overlap.                              *)
(***************************************************************************)
MovesLine(h, P, src, dst, steps, rop) ==
    /\ h \in [0..Len(steps) -> Plane] /\ h[0] = P
    /\ \A k \in 1..Len(steps) :
          h[k] = [h[k - 1] EXCEPT ![dst] = Text!GetAndPut(h[k - 1][src], h[k - 1][dst],
                     steps[k].src, steps[k].dst, steps[k].w, rop)]
    /\ Text!MoveLine(P, src, dst, steps, rop) = h[Len(steps)]

\* steps whose sources are in the line
StepsFit(steps) ==
    /\ Len(steps) \in Nat
    /\ \A k \in 1..Len(steps) :
          /\ steps[k].src \in Nat /\ steps[k].dst \in Nat /\ steps[k].w \in Nat
          /\ steps[k].src + steps[k].w <= Text!Stride

LEMMA WalksFit ==
    ASSUME NEW s \in Nat, NEW d \in Nat, NEW n \in Nat, s + n <= Text!Stride,
           NEW steps, NEW at, Walks(steps, at, s, d, n)
    PROVE  StepsFit(steps)
<1>1. PICK N : N = Len(steps)
    OBVIOUS
<1>2. N \in Nat /\ at \in [0..N -> 0..n]
    BY <1>1 DEF Walks
<1>3. ASSUME NEW k \in 1..N
      PROVE  steps[k].src \in Nat /\ steps[k].dst \in Nat /\ steps[k].w \in Nat
             /\ steps[k].src + steps[k].w <= Text!Stride
    <2>1. k - 1 \in 0..N /\ k \in 0..N
        BY <1>2
    <2>2. at[k - 1] \in 0..n /\ at[k] \in 0..n
        BY <1>2, <2>1
    <2>3. Between(steps[k], s, d, at[k - 1], at[k]) \/ Between(steps[k], s, d, at[k], at[k - 1])
        BY <1>1 DEF Walks
    <2>4. PICK lo, hi : lo \in 0..n /\ hi \in 0..n /\ Between(steps[k], s, d, lo, hi)
        BY <2>2, <2>3
    <2>5. lo <= hi /\ steps[k].src = s + lo /\ steps[k].dst = d + lo /\ steps[k].w = hi - lo
        BY <2>4 DEF Between
    <2>6. Text!Stride \in Nat
        BY TextSizes
    <2> QED BY <2>4, <2>5, <2>6
<1> QED BY <1>1, <1>2, <1>3 DEF StepsFit

LEMMA LineMoves ==
    ASSUME NEW P \in Plane, NEW src \in Text!RowsOf, NEW dst \in Text!RowsOf, NEW rop,
           NEW steps, StepsFit(steps)
    PROVE  \E h : MovesLine(h, P, src, dst, steps, rop)
<1>1. PICK N : N = Len(steps)
    OBVIOUS
<1>2. N \in Nat
    BY <1>1 DEF StepsFit
<1>3. ASSUME NEW k \in 1..N
      PROVE  steps[k].src \in Nat /\ steps[k].dst \in Nat /\ steps[k].w \in Nat
             /\ steps[k].src + steps[k].w <= Text!Stride
    BY <1>1 DEF StepsFit
<1> DEFINE G(k, f) == [f EXCEPT ![dst] = Text!GetAndPut(f[src], f[dst], steps[k].src, steps[k].dst, steps[k].w, rop)]
<1>4. ASSUME NEW k \in 1..N, NEW f \in Plane PROVE G(k, f) \in Plane
    <2>1. f[src] \in Pixels /\ f[dst] \in Pixels
        BY DEF Plane
    <2>2. PICK g : g = Text!GetAndPut(f[src], f[dst], steps[k].src, steps[k].dst, steps[k].w, rop)
        OBVIOUS
    <2>3. g \in Pixels
        BY <1>3, <2>1, <2>2, PutIsLine
    <2>4. G(k, f) = [f EXCEPT ![dst] = g]
        BY <2>2
    <2> QED BY <2>3, <2>4 DEF Plane
<1> HIDE DEF G
<1>5. PICK F : F = [z \in (1..N) \X Plane |-> G(z[1], z[2])]
    OBVIOUS
<1>6. F \in [(1..N) \X Plane -> Plane]
    <2>1. ASSUME NEW z \in (1..N) \X Plane PROVE G(z[1], z[2]) \in Plane
        <3>1. z[1] \in 1..N /\ z[2] \in Plane
            OBVIOUS
        <3> QED BY <1>4, <3>1
    <2> QED BY <1>5, <2>1
<1>7. PICK h : Iterates(h, Plane, P, F, N)
    BY <1>2, <1>6, IterationExists
<1>8. h \in [0..N -> Plane] /\ h[0] = P /\ \A k \in 1..N : h[k] = G(k, h[k - 1])
    <2>1. h \in [0..N -> Plane] /\ h[0] = P /\ \A k \in 1..N : h[k] = F[<<k, h[k - 1]>>]
        BY <1>7 DEF Iterates
    <2>2. ASSUME NEW k \in 1..N PROVE F[<<k, h[k - 1]>>] = G(k, h[k - 1])
        <3>1. h[k - 1] \in Plane
            <4>1. k - 1 \in 0..N
                BY <1>2
            <4> QED BY <2>1, <4>1
        <3>2. PICK z : z = <<k, h[k - 1]>>
            OBVIOUS
        <3>3. z \in (1..N) \X Plane /\ z[1] = k /\ z[2] = h[k - 1]
            BY <3>1, <3>2
        <3> QED BY <1>5, <3>2, <3>3
    <2> QED BY <2>1, <2>2
<1> DEFINE Moves(e) == e = [k \in 0..N |-> IF k = 0 THEN P ELSE G(k, e[k - 1])]
<1>9. Moves(h)
    <2>1. h = [k \in 0..N |-> h[k]]
        BY <1>8
    <2>2. \A k \in 0..N : k # 0 => k \in 1..N
        BY <1>2
    <2>3. \A k \in 0..N : h[k] = IF k = 0 THEN P ELSE G(k, h[k - 1])
        BY <1>8, <2>2
    <2> QED BY <2>1, <2>3
<1> DEFINE move == CHOOSE e : Moves(e)
<1>10. Moves(move)
    <2> HIDE DEF Moves
    <2> QED BY <1>9
<1>11. Text!MoveLine(P, src, dst, steps, rop) = move[N]
    BY <1>1 DEF Text!MoveLine, G
<1> HIDE DEF move
<1>12. move[0] = P /\ \A k \in 1..N : move[k] = G(k, move[k - 1])
    <2>1. 0 \in 0..N /\ \A k \in 1..N : k \in 0..N /\ k # 0
        BY <1>2
    <2> QED BY <1>10, <2>1
<1>13. move \in [0..N -> Plane]
    <2> DEFINE Bad == {k \in 0..N : move[k] \notin Plane}
    <2>1. Bad = {}
        <3> SUFFICES ASSUME Bad # {} PROVE FALSE
            OBVIOUS
        <3>0. Bad \in SUBSET Nat
            OBVIOUS
        <3>1. PICK k \in Bad : \A m \in Bad : k <= m
            <4> HIDE DEF Bad
            <4> QED BY <3>0, LeastNumber
        <3>2. k # 0
            BY <1>12, <3>1
        <3>3. k \in 1..N /\ k - 1 \in 0..N /\ k - 1 \notin Bad
            BY <1>2, <3>1, <3>2
        <3>4. move[k - 1] \in Plane
            BY <3>3
        <3>5. move[k] \in Plane
            BY <1>4, <1>12, <3>3, <3>4
        <3> QED BY <3>1, <3>5
    <2>2. move = [k \in 0..N |-> move[k]]
        BY <1>10
    <2> QED BY <2>1, <2>2
<1>14. \A k \in 1..N : move[k] = [move[k - 1] EXCEPT ![dst] = Text!GetAndPut(move[k - 1][src], move[k - 1][dst],
                                   steps[k].src, steps[k].dst, steps[k].w, rop)]
    BY <1>12 DEF G
<1>15. MovesLine(move, P, src, dst, steps, rop)
    BY <1>1, <1>11, <1>12, <1>13, <1>14 DEF MovesLine
<1> QED BY <1>15

LEMMA LineTyped ==
    ASSUME NEW P \in Plane, NEW src \in Text!RowsOf, NEW dst \in Text!RowsOf, NEW rop,
           NEW steps, StepsFit(steps)
    PROVE  Text!MoveLine(P, src, dst, steps, rop) \in Plane
<1>1. PICK h : MovesLine(h, P, src, dst, steps, rop)
    BY LineMoves
<1>2. Len(steps) \in 0..Len(steps)
    BY DEF StepsFit
<1> QED BY <1>1, <1>2 DEF MovesLine

\* the steps of a block move, also those that are left when the pointer is lost
LEMMA StepsOfFit ==
    ASSUME NEW s \in Nat, NEW d \in Nat, NEW n \in Nat, s + n <= Text!Stride, NEW rop
    PROVE  StepsFit(Text!Steps(s, d, n)) /\ StepsFit(Text!StepsOf(s, d, n, rop))
<1>1. PICK steps : steps = Text!Steps(s, d, n)
    OBVIOUS
<1>2. PICK at : Walks(steps, at, s, d, n)
    BY <1>1, StepsWalk
<1>3. StepsFit(steps)
    BY <1>2, WalksFit
<1>4. ASSUME Text!PointerLost(s, d, n, rop)
      PROVE  StepsFit(<<steps[1]>>) /\ StepsFit(<<>>)
    <2>1. n > Word /\ Word \in Nat
        BY <1>4, TextSizes DEF Text!PointerLost
    <2>2. Len(steps) \in Nat /\ Len(steps) # 0
        BY <1>2, <2>1 DEF Walks
    <2>3. 1 \in 1..Len(steps)
        BY <2>2
    <2>4. PICK c : c = steps[1]
        OBVIOUS
    <2>5. c.src \in Nat /\ c.dst \in Nat /\ c.w \in Nat /\ c.src + c.w <= Text!Stride
        BY <1>3, <2>3, <2>4 DEF StepsFit
    <2>6. StepsFit(<<c>>)
        <3>1. Len(<<c>>) = 1 /\ <<c>>[1] = c /\ \A k \in 1..1 : k = 1
            OBVIOUS
        <3> QED BY <2>5, <3>1 DEF StepsFit
    <2>7. StepsFit(<<>>)
        BY DEF StepsFit
    <2> QED BY <2>4, <2>6, <2>7
<1>5. StepsFit(Text!StepsOf(s, d, n, rop))
    BY <1>1, <1>3, <1>4 DEF Text!StepsOf, Text!Om1Steps, Text!If
<1> QED BY <1>1, <1>3, <1>5

\* what is put at a position of a line, and where k steps have put it
Value(P, src, s, d, x, rop) == IF rop = "clear" THEN 0 ELSE P[src][s + x - d]
Put(s, d, n, a)             == IF s >= d THEN d..(d + a - 1) ELSE (d + a)..(d + n - 1)

LEMMA LineMoved ==
    ASSUME NEW P \in Plane, NEW src \in Text!RowsOf, NEW dst \in Text!RowsOf, NEW rop,
           NEW s \in Nat, NEW d \in Nat, NEW n \in Nat, s + n <= Text!Stride, d + n <= Text!Stride
    PROVE  /\ Text!MoveLine(P, src, dst, Text!Steps(s, d, n), rop) \in Plane
           /\ \A r \in Text!RowsOf, x \in 0..(Text!Stride - 1) :
                 Text!MoveLine(P, src, dst, Text!Steps(s, d, n), rop)[r][x] =
                     IF r = dst /\ x \in d..(d + n - 1) THEN Value(P, src, s, d, x, rop) ELSE P[r][x]
<1>1. PICK steps, L : steps = Text!Steps(s, d, n) /\ L = Text!Stride
    OBVIOUS
<1>2. PICK at : Walks(steps, at, s, d, n)
    BY <1>1, StepsWalk
<1>3. PICK h : MovesLine(h, P, src, dst, steps, rop)
    <2>1. StepsFit(steps)
        BY <1>2, WalksFit
    <2> QED BY <2>1, LineMoves
<1>4. PICK N : N = Len(steps)
    OBVIOUS
<1>5. N \in Nat /\ at \in [0..N -> 0..n] /\ L \in Nat /\ s + n <= L /\ d + n <= L
    BY <1>1, <1>2, <1>4, TextSizes DEF Walks
<1> DEFINE Good(k) == \A r \in Text!RowsOf, x \in 0..(L - 1) :
                          h[k][r][x] = IF r = dst /\ x \in Put(s, d, n, at[k]) THEN Value(P, src, s, d, x, rop)
                                       ELSE P[r][x]
           Bad == {k \in 0..N : ~Good(k)}
<1>6. at[0] = (IF s >= d THEN 0 ELSE n) /\ at[N] = (IF s >= d THEN n ELSE 0)
    BY <1>2, <1>4 DEF Walks
<1>7. Good(0)
    <2>1. \A x \in 0..(L - 1) : x \notin Put(s, d, n, at[0])
        BY <1>5, <1>6 DEF Put
    <2> QED BY <1>3, <2>1 DEF MovesLine
<1>8. ASSUME NEW k \in 1..N, Good(k - 1) PROVE Good(k)
    <2>1. k - 1 \in 0..N /\ k \in 0..N
        BY <1>5
    <2>2. PICK H, c, a, b : H = h[k - 1] /\ c = steps[k] /\ a = at[k - 1] /\ b = at[k]
        OBVIOUS
    <2>3. a \in 0..n /\ b \in 0..n /\ H \in Plane
        BY <1>3, <1>4, <1>5, <2>1, <2>2 DEF MovesLine
    <2>4. PICK lo, hi : /\ lo \in 0..n /\ hi \in 0..n /\ Between(c, s, d, lo, hi)
                        /\ IF s >= d THEN lo = a /\ hi = b ELSE lo = b /\ hi = a
        <3>1. IF s >= d THEN Between(c, s, d, a, b) ELSE Between(c, s, d, b, a)
            BY <1>2, <1>4, <2>2 DEF Walks
        <3> QED BY <2>3, <3>1
    <2>5. lo <= hi /\ c.src = s + lo /\ c.dst = d + lo /\ c.w = hi - lo
        BY <2>4 DEF Between
    <2>6. PICK g : g = Text!GetAndPut(H[src], H[dst], c.src, c.dst, c.w, rop)
        OBVIOUS
    <2>7. /\ H[src] \in Pixels /\ H[dst] \in Pixels
          /\ c.src \in Nat /\ c.dst \in Nat /\ c.w \in Nat /\ c.src + c.w <= Text!Stride
        <3>1. c.src \in Nat /\ c.dst \in Nat /\ c.w \in Nat /\ c.src + c.w <= L
            BY <1>5, <2>4, <2>5
        <3> QED BY <1>1, <2>3, <3>1 DEF Plane
    <2>8. \A x \in 0..(L - 1) :
              g[x] = IF x \in c.dst..(c.dst + c.w - 1) THEN (IF rop = "clear" THEN 0 ELSE H[src][c.src + x - c.dst])
                     ELSE H[dst][x]
        <3>1. PICK f, l, cs, cd, cw : f = H[src] /\ l = H[dst] /\ cs = c.src /\ cd = c.dst /\ cw = c.w
            OBVIOUS
        <3>2. f \in Pixels /\ l \in Pixels /\ cs \in Nat /\ cd \in Nat /\ cw \in Nat /\ cs + cw <= Text!Stride
            BY <2>7, <3>1
        <3>3. \A x \in 0..(Text!Stride - 1) :
                  Text!GetAndPut(f, l, cs, cd, cw, rop)[x] =
                      IF x \in cd..(cd + cw - 1) THEN (IF rop = "clear" THEN 0 ELSE f[cs + x - cd]) ELSE l[x]
            BY <3>2, PutIsLine
        <3> QED BY <1>1, <2>6, <3>1, <3>3
    <2>9. h[k] = [H EXCEPT ![dst] = g]
        BY <1>3, <1>4, <2>2, <2>6 DEF MovesLine
    <2>10. \A r \in Text!RowsOf : h[k][r] = IF r = dst THEN g ELSE H[r]
        BY <2>3, <2>9 DEF Plane
    <2>11. \A r \in Text!RowsOf, x \in 0..(L - 1) :
              H[r][x] = IF r = dst /\ x \in Put(s, d, n, a) THEN Value(P, src, s, d, x, rop) ELSE P[r][x]
        BY <1>8, <2>2
    <2>12. ASSUME NEW x \in 0..(L - 1)
           PROVE  /\ x \in (d + lo)..(d + hi - 1) =>
                        /\ x \in Put(s, d, n, b)
                        /\ s + x - d \in 0..(L - 1) /\ s + x - d \notin Put(s, d, n, a)
                  /\ x \notin (d + lo)..(d + hi - 1) => (x \in Put(s, d, n, b) <=> x \in Put(s, d, n, a))
        <3>1. CASE s >= d
            BY <1>5, <2>3, <2>4, <2>5, <3>1 DEF Put
        <3>2. CASE ~(s >= d)
            BY <1>5, <2>3, <2>4, <2>5, <3>2 DEF Put
        <3> QED BY <3>1, <3>2
    <2>13. ASSUME NEW x \in 0..(L - 1)
           PROVE  g[x] = IF x \in Put(s, d, n, b) THEN Value(P, src, s, d, x, rop) ELSE P[dst][x]
        <3>1. CASE x \in (d + lo)..(d + hi - 1)
            <4>1. x \in c.dst..(c.dst + c.w - 1) /\ c.src + x - c.dst = s + x - d
                BY <2>3, <2>4, <2>5, <3>1
            <4>2. H[src][s + x - d] = P[src][s + x - d]
                <5>1. s + x - d \in 0..(L - 1) /\ s + x - d \notin Put(s, d, n, a)
                    BY <2>12, <3>1
                <5> QED BY <2>11, <5>1
            <4>3. g[x] = IF rop = "clear" THEN 0 ELSE P[src][s + x - d]
                BY <2>8, <4>1, <4>2
            <4> QED BY <2>12, <3>1, <4>3 DEF Value
        <3>2. CASE x \notin (d + lo)..(d + hi - 1)
            <4>1. x \notin c.dst..(c.dst + c.w - 1)
                BY <2>3, <2>4, <2>5, <3>2
            <4>2. g[x] = H[dst][x]
                BY <2>8, <4>1
            <4> QED BY <2>11, <2>12, <3>2, <4>2
        <3> QED BY <3>1, <3>2
    <2>14. ASSUME NEW r \in Text!RowsOf, NEW x \in 0..(L - 1)
           PROVE  h[k][r][x] = IF r = dst /\ x \in Put(s, d, n, b) THEN Value(P, src, s, d, x, rop) ELSE P[r][x]
        <3>1. CASE r = dst
            BY <2>10, <2>13, <3>1
        <3>2. CASE r # dst
            BY <2>10, <2>11, <3>2
        <3> QED BY <3>1, <3>2
    <2> QED BY <2>2, <2>14
<1>9. Bad = {}
    <2> SUFFICES ASSUME Bad # {} PROVE FALSE
        OBVIOUS
    <2> HIDE DEF Good
    <2>0. Bad \in SUBSET Nat
        OBVIOUS
    <2>1. PICK k \in Bad : \A m \in Bad : k <= m
        <3> HIDE DEF Bad
        <3> QED BY <2>0, LeastNumber
    <2>2. k # 0
        BY <1>7, <2>1
    <2>3. k \in 1..N /\ k - 1 \in 0..N /\ k - 1 \notin Bad
        BY <1>5, <2>1, <2>2
    <2> QED BY <1>8, <2>1, <2>3
<1>10. Good(N)
    <2>1. N \in 0..N
        BY <1>5
    <2> HIDE DEF Good
    <2> QED BY <1>9, <2>1
<1>11. \A x : x \in Put(s, d, n, at[N]) <=> x \in d..(d + n - 1)
    <2>1. d + 0 = d
        OBVIOUS
    <2> QED BY <1>6, <2>1 DEF Put
<1>12. h[N] \in Plane
    BY <1>3, <1>4, <1>5 DEF MovesLine
<1> HIDE DEF Bad
<1> QED BY <1>1, <1>3, <1>4, <1>10, <1>11, <1>12 DEF MovesLine

(***************************************************************************)
(* And the lines of a block, of which those that are sources of others to  *)
(* come have not been written yet.                                         *)
(***************************************************************************)
Written(sy, dy, cy, k) == IF sy < dy THEN (dy + cy - k)..(dy + cy - 1) ELSE dy..(dy + k - 1)

MovesBlock(h, P, sy, dy, cy, steps, rop) ==
    /\ h \in [0..cy -> Plane] /\ h[0] = P
    /\ \A k \in 1..cy :
          h[k] = Text!MoveLine(h[k - 1], sy + Text!Line(sy, dy, cy, k), dy + Text!Line(sy, dy, cy, k), steps, rop)
    /\ Text!MoveLines(P, sy, dy, cy, steps, rop) = h[cy]

LEMMA LineNumbers ==
    ASSUME NEW sy \in Nat, NEW dy \in Nat, NEW cy \in Nat, sy + cy <= Nrows, dy + cy <= Nrows, NEW k \in 1..cy
    PROVE  /\ sy + Text!Line(sy, dy, cy, k) \in Text!RowsOf /\ dy + Text!Line(sy, dy, cy, k) \in Text!RowsOf
           /\ \A r \in Text!RowsOf : r \in Written(sy, dy, cy, k)
                 <=> r = dy + Text!Line(sy, dy, cy, k) \/ r \in Written(sy, dy, cy, k - 1)
           /\ sy + Text!Line(sy, dy, cy, k) \notin Written(sy, dy, cy, k - 1)
           /\ sy + (dy + Text!Line(sy, dy, cy, k)) - dy = sy + Text!Line(sy, dy, cy, k)
<1>1. Nrows \in Nat
    BY TextSizes
<1>2. CASE sy < dy
    BY <1>1, <1>2 DEF Text!Line, Text!RowsOf, Written
<1>3. CASE ~(sy < dy)
    BY <1>1, <1>3 DEF Text!Line, Text!RowsOf, Written
<1> QED BY <1>2, <1>3

LEMMA BlockMoves ==
    ASSUME NEW P \in Plane, NEW rop, NEW steps, StepsFit(steps),
           NEW sy \in Nat, NEW dy \in Nat, NEW cy \in Nat, sy + cy <= Nrows, dy + cy <= Nrows
    PROVE  \E h : MovesBlock(h, P, sy, dy, cy, steps, rop)
<1> DEFINE G(k, f) == Text!MoveLine(f, sy + Text!Line(sy, dy, cy, k), dy + Text!Line(sy, dy, cy, k), steps, rop)
<1>1. ASSUME NEW k \in 1..cy, NEW f \in Plane PROVE G(k, f) \in Plane
    <2>1. PICK src, dst : src = sy + Text!Line(sy, dy, cy, k) /\ dst = dy + Text!Line(sy, dy, cy, k)
        OBVIOUS
    <2>2. src \in Text!RowsOf /\ dst \in Text!RowsOf
        BY <2>1, LineNumbers
    <2>3. Text!MoveLine(f, src, dst, steps, rop) \in Plane
        BY <2>2, LineTyped
    <2> QED BY <2>1, <2>3
<1> HIDE DEF G
<1>2. PICK F : F = [z \in (1..cy) \X Plane |-> G(z[1], z[2])]
    OBVIOUS
<1>3. F \in [(1..cy) \X Plane -> Plane]
    <2>1. ASSUME NEW z \in (1..cy) \X Plane PROVE G(z[1], z[2]) \in Plane
        <3>1. z[1] \in 1..cy /\ z[2] \in Plane
            OBVIOUS
        <3> QED BY <1>1, <3>1
    <2> QED BY <1>2, <2>1
<1>4. PICK h : Iterates(h, Plane, P, F, cy)
    BY <1>3, IterationExists
<1>5. h \in [0..cy -> Plane] /\ h[0] = P /\ \A k \in 1..cy : h[k] = G(k, h[k - 1])
    <2>1. h \in [0..cy -> Plane] /\ h[0] = P /\ \A k \in 1..cy : h[k] = F[<<k, h[k - 1]>>]
        BY <1>4 DEF Iterates
    <2>2. ASSUME NEW k \in 1..cy PROVE F[<<k, h[k - 1]>>] = G(k, h[k - 1])
        <3>1. h[k - 1] \in Plane
            <4>1. k - 1 \in 0..cy
                OBVIOUS
            <4> QED BY <2>1, <4>1
        <3>2. PICK z : z = <<k, h[k - 1]>>
            OBVIOUS
        <3>3. z \in (1..cy) \X Plane /\ z[1] = k /\ z[2] = h[k - 1]
            BY <3>1, <3>2
        <3> QED BY <1>2, <3>2, <3>3
    <2> QED BY <2>1, <2>2
<1> DEFINE Moves(e) == e = [k \in 0..cy |-> IF k = 0 THEN P ELSE G(k, e[k - 1])]
<1>6. Moves(h)
    <2>1. h = [k \in 0..cy |-> h[k]]
        BY <1>5
    <2>2. \A k \in 0..cy : k # 0 => k \in 1..cy
        OBVIOUS
    <2>3. \A k \in 0..cy : h[k] = IF k = 0 THEN P ELSE G(k, h[k - 1])
        BY <1>5, <2>2
    <2> QED BY <2>1, <2>3
<1> DEFINE lines == CHOOSE e : Moves(e)
<1>7. Moves(lines)
    <2> HIDE DEF Moves
    <2> QED BY <1>6
<1>8. Text!MoveLines(P, sy, dy, cy, steps, rop) = lines[cy]
    BY DEF Text!MoveLines, G
<1> HIDE DEF lines
<1>9. lines[0] = P /\ \A k \in 1..cy : lines[k] = G(k, lines[k - 1])
    <2>1. 0 \in 0..cy /\ \A k \in 1..cy : k \in 0..cy /\ k # 0
        OBVIOUS
    <2> QED BY <1>7, <2>1
<1>10. lines \in [0..cy -> Plane]
    <2> DEFINE Bad == {k \in 0..cy : lines[k] \notin Plane}
    <2>1. Bad = {}
        <3> SUFFICES ASSUME Bad # {} PROVE FALSE
            OBVIOUS
        <3>0. Bad \in SUBSET Nat
            OBVIOUS
        <3>1. PICK k \in Bad : \A m \in Bad : k <= m
            <4> HIDE DEF Bad
            <4> QED BY <3>0, LeastNumber
        <3>2. k # 0
            BY <1>9, <3>1
        <3>3. k \in 1..cy /\ k - 1 \in 0..cy /\ k - 1 \notin Bad
            BY <3>1, <3>2
        <3>4. lines[k - 1] \in Plane
            BY <3>3
        <3>5. lines[k] \in Plane
            BY <1>1, <1>9, <3>3, <3>4
        <3> QED BY <3>1, <3>5
    <2>2. lines = [k \in 0..cy |-> lines[k]]
        BY <1>7
    <2> QED BY <2>1, <2>2
<1>11. MovesBlock(lines, P, sy, dy, cy, steps, rop)
    BY <1>8, <1>9, <1>10 DEF MovesBlock, G
<1> QED BY <1>11

LEMMA BlockMoved ==
    ASSUME NEW P \in Plane, NEW rop, NEW sx \in Nat, NEW dx \in Nat, NEW cx \in Nat,
           sx + cx <= Text!Stride, dx + cx <= Text!Stride,
           NEW sy \in Nat, NEW dy \in Nat, NEW cy \in Nat, sy + cy <= Nrows, dy + cy <= Nrows
    PROVE  /\ Text!MoveLines(P, sy, dy, cy, Text!Steps(sx, dx, cx), rop) \in Plane
           /\ \A r \in Text!RowsOf, x \in 0..(Text!Stride - 1) :
                 Text!MoveLines(P, sy, dy, cy, Text!Steps(sx, dx, cx), rop)[r][x] =
                     IF r \in dy..(dy + cy - 1) /\ x \in dx..(dx + cx - 1)
                     THEN Value(P, sy + r - dy, sx, dx, x, rop) ELSE P[r][x]
<1>1. PICK h : MovesBlock(h, P, sy, dy, cy, Text!Steps(sx, dx, cx), rop)
    <2>1. StepsFit(Text!Steps(sx, dx, cx))
        BY StepsOfFit
    <2> QED BY <2>1, BlockMoves
<1>2. /\ h \in [0..cy -> Plane] /\ h[0] = P
      /\ Text!MoveLines(P, sy, dy, cy, Text!Steps(sx, dx, cx), rop) = h[cy]
    BY <1>1 DEF MovesBlock
<1>3. PICK L : L = Text!Stride
    OBVIOUS
<1>4. L \in Nat /\ sx + cx <= L /\ dx + cx <= L /\ Nrows \in Nat
    BY <1>3, TextSizes
<1> DEFINE Good(k) == \A r \in Text!RowsOf, x \in 0..(L - 1) :
                          h[k][r][x] = IF r \in Written(sy, dy, cy, k) /\ x \in dx..(dx + cx - 1)
                                       THEN Value(P, sy + r - dy, sx, dx, x, rop) ELSE P[r][x]
           Bad == {k \in 0..cy : ~Good(k)}
<1>5. Good(0)
    <2>1. \A r \in Text!RowsOf : r \notin Written(sy, dy, cy, 0)
        BY <1>4 DEF Written, Text!RowsOf
    <2> QED BY <1>2, <2>1
<1>6. ASSUME NEW k \in 1..cy, Good(k - 1) PROVE Good(k)
    <2>1. PICK H, src, dst : /\ H = h[k - 1]
                             /\ src = sy + Text!Line(sy, dy, cy, k) /\ dst = dy + Text!Line(sy, dy, cy, k)
        OBVIOUS
    <2>2. H \in Plane
        <3>1. k - 1 \in 0..cy
            OBVIOUS
        <3> QED BY <1>2, <2>1, <3>1
    <2>3. /\ src \in Text!RowsOf /\ dst \in Text!RowsOf /\ src \notin Written(sy, dy, cy, k - 1)
          /\ \A r \in Text!RowsOf : r \in Written(sy, dy, cy, k) <=> r = dst \/ r \in Written(sy, dy, cy, k - 1)
          /\ sy + dst - dy = src
        BY <2>1, LineNumbers
    <2>4. h[k] = Text!MoveLine(H, src, dst, Text!Steps(sx, dx, cx), rop)
        BY <1>1, <2>1 DEF MovesBlock
    <2>5. \A r \in Text!RowsOf, x \in 0..(L - 1) :
              h[k][r][x] = IF r = dst /\ x \in dx..(dx + cx - 1) THEN Value(H, src, sx, dx, x, rop) ELSE H[r][x]
        BY <1>3, <2>2, <2>3, <2>4, LineMoved
    <2>6. \A r \in Text!RowsOf, x \in 0..(L - 1) :
              H[r][x] = IF r \in Written(sy, dy, cy, k - 1) /\ x \in dx..(dx + cx - 1)
                        THEN Value(P, sy + r - dy, sx, dx, x, rop) ELSE P[r][x]
        BY <1>6, <2>1
    <2>7. ASSUME NEW x \in 0..(L - 1), x \in dx..(dx + cx - 1)
          PROVE  Value(H, src, sx, dx, x, rop) = Value(P, src, sx, dx, x, rop)
        <3>1. sx + x - dx \in 0..(L - 1)
            BY <1>4, <2>7
        <3>2. H[src][sx + x - dx] = P[src][sx + x - dx]
            BY <2>3, <2>6, <3>1
        <3> QED BY <3>2 DEF Value
    <2>8. ASSUME NEW r \in Text!RowsOf, NEW x \in 0..(L - 1)
          PROVE  h[k][r][x] = IF r \in Written(sy, dy, cy, k) /\ x \in dx..(dx + cx - 1)
                              THEN Value(P, sy + r - dy, sx, dx, x, rop) ELSE P[r][x]
        <3>1. CASE r = dst /\ x \in dx..(dx + cx - 1)
            BY <2>3, <2>5, <2>7, <3>1
        <3>2. CASE r # dst
            BY <2>3, <2>5, <2>6, <3>2
        <3>3. CASE x \notin dx..(dx + cx - 1)
            BY <2>5, <2>6, <3>3
        <3> QED BY <3>1, <3>2, <3>3
    <2> QED BY <2>8
<1>7. Bad = {}
    <2> SUFFICES ASSUME Bad # {} PROVE FALSE
        OBVIOUS
    <2> HIDE DEF Good
    <2>0. Bad \in SUBSET Nat
        OBVIOUS
    <2>1. PICK k \in Bad : \A m \in Bad : k <= m
        <3> HIDE DEF Bad
        <3> QED BY <2>0, LeastNumber
    <2>2. k # 0
        BY <1>5, <2>1
    <2>3. k \in 1..cy /\ k - 1 \in 0..cy /\ k - 1 \notin Bad
        BY <2>1, <2>2
    <2> QED BY <1>6, <2>1, <2>3
<1>8. Good(cy)
    <2>1. cy \in 0..cy
        OBVIOUS
    <2> HIDE DEF Good
    <2> QED BY <1>7, <2>1
<1>9. \A r \in Text!RowsOf : r \in Written(sy, dy, cy, cy) <=> r \in dy..(dy + cy - 1)
    BY <1>4 DEF Written, Text!RowsOf
<1>10. h[cy] \in Plane
    <2>1. cy \in 0..cy
        OBVIOUS
    <2> QED BY <1>2, <2>1
<1> HIDE DEF Bad
<1> QED BY <1>2, <1>3, <1>8, <1>9, <1>10

LEMMA BlockTyped ==
    ASSUME NEW P \in Plane, NEW rop, NEW steps, StepsFit(steps),
           NEW sy \in Nat, NEW dy \in Nat, NEW cy \in Nat, sy + cy <= Nrows, dy + cy <= Nrows
    PROVE  Text!MoveLines(P, sy, dy, cy, steps, rop) \in Plane
<1>1. PICK h : MovesBlock(h, P, sy, dy, cy, steps, rop)
    BY BlockMoves
<1>2. cy \in 0..cy
    OBVIOUS
<1> QED BY <1>1, <1>2 DEF MovesBlock

-----------------------------------------------------------------------------
(* What the display shows                                                  *)

Span(c, n)   == (Xorigin + FontWidth * c)..(Xorigin + FontWidth * c + FontWidth * n - 1)
PlanesOf(D)  == IF D = 1 THEN {0} ELSE 0..(Nplanes - 1)
Cell         == [0..(FontWidth - 1) -> {0, 1}] \X (Attrs \cup {Text!Black})
CellRows     == [Text!RowsOf -> [Text!ColsOf -> Cell]]

\* a position of a character, and of a screen without a cursor
CellBit(D, p, cell, i) ==
    IF D = 1 THEN Text!Om1Bit(cell[1][i], cell[2]) ELSE Text!Om4Bit(cell[1][i], cell[2], p)
Drawn(D, cs, p, row, x) ==
    IF x < Xorigin \/ (x - Xorigin) \div FontWidth \notin Text!ColsOf THEN 0
    ELSE CellBit(D, p, cs[row][(x - Xorigin) \div FontWidth], (x - Xorigin) % FontWidth)

TextTyped ==
    /\ depth \in {1, 4} /\ planes \in [PlanesOf(depth) -> Plane]
    /\ ccrow \in Text!RowsOf /\ cccol \in Text!ColsOf /\ cells \in CellRows /\ ops \in 0..MaxDraws
    /\ (lost => depth = 1)

TextInv ==
    /\ TextTyped /\ cursor \in BOOLEAN /\ lost \in BOOLEAN
    /\ ~lost => \A p \in PlanesOf(depth), row \in Text!RowsOf, x \in 0..(Text!Stride - 1) :
          planes[p][row][x] = IF cursor /\ row = ccrow /\ x \in Span(cccol, 1)
                              THEN 1 - Drawn(depth, cells, p, row, x) ELSE Drawn(depth, cells, p, row, x)

\* a position is in the span of some characters when its character is one of them
LEMMA SpanIs ==
    ASSUME NEW x \in Nat, NEW c \in Nat, NEW n \in Nat, c + n <= Ncols
    PROVE  /\ x \in Span(c, n) <=> ~(x < Xorigin) /\ (x - Xorigin) \div FontWidth \in c..(c + n - 1)
           /\ x \in Span(c, n) => (x - Xorigin) \div FontWidth \in Text!ColsOf
           /\ ~(x < Xorigin) => (x - Xorigin) \div FontWidth \in Nat
<1>1. PICK q : q = (x - Xorigin) \div FontWidth
    OBVIOUS
<1>2. q \in Int /\ (q \in c..(c + n - 1) <=> x \in Span(c, n))
    <2>1. x \in Int /\ c \in Int
        OBVIOUS
    <2>2. /\ (x - Xorigin) \div FontWidth \in Int
          /\ (x - Xorigin) \div FontWidth \in c..(c + n - 1)
                <=> x \in (Xorigin + FontWidth * c)..(Xorigin + FontWidth * c + FontWidth * n - 1)
        BY <2>1, CellAt, Zenon
    <2> QED BY <1>1, <2>2, Zenon DEF Span
<1>3. Xorigin \in Nat /\ Ncols \in Nat /\ FontWidth \in Nat \ {0} /\ FontWidth * c \in Nat /\ FontWidth * n \in Nat
    BY TextSizes
<1>4. x \in Span(c, n) => ~(x < Xorigin) /\ q \in Text!ColsOf
    BY <1>2, <1>3 DEF Span, Text!ColsOf
<1>5. ~(x < Xorigin) => q \in Nat
    <2> SUFFICES ASSUME ~(x < Xorigin) PROVE q \in Nat
        OBVIOUS
    <2>1. x - Xorigin \in Int /\ x - Xorigin >= 0
        BY <1>3
    <2> QED BY <1>1, <1>3, <2>1, DivMod
<1> QED BY <1>1, <1>2, <1>4, <1>5

LEMMA SpanEnds ==
    ASSUME NEW c \in Nat, NEW n \in Nat, c + n <= Ncols
    PROVE  /\ Xorigin + c * FontWidth \in Nat /\ n * FontWidth \in Nat
           /\ (Xorigin + c * FontWidth) + n * FontWidth <= Text!Stride
           /\ (Xorigin + c * FontWidth)..(Xorigin + c * FontWidth + n * FontWidth - 1) = Span(c, n)
           /\ c = 0 => Xorigin + c * FontWidth = Xorigin
<1>1. PICK F, S : F = FontWidth /\ S = Text!Stride
    OBVIOUS
<1>2. F \in Nat /\ S \in Nat /\ Xorigin \in Nat /\ Ncols \in Nat /\ Xorigin + F * Ncols <= S
    BY <1>1, TextSizes
<1>3. /\ c * F = F * c /\ n * F = F * n /\ F * c \in Nat /\ F * n \in Nat /\ F * (c + n) = F * c + F * n
      /\ c = 0 => F * c = 0
    BY <1>2
<1>4. F * (c + n) <= F * Ncols /\ F * Ncols \in Int
    BY <1>2, TimesMonotone
<1> QED BY <1>1, <1>2, <1>3, <1>4 DEF Span

LEMMA BitOfCell ==
    ASSUME NEW D, NEW p, NEW cell \in Cell, NEW i \in 0..(FontWidth - 1)
    PROVE  CellBit(D, p, cell, i) \in {0, 1}
<1>1. cell[1][i] \in {0, 1}
    BY DEF Cell
<1> QED BY <1>1 DEF CellBit, Text!Om1Bit, Text!Om4Bit, Text!HasBit

LEMMA DrawnIsBit ==
    ASSUME NEW D, NEW cs \in CellRows, NEW p, NEW row \in Text!RowsOf, NEW x \in Nat
    PROVE  Drawn(D, cs, p, row, x) \in {0, 1}
<1>1. PICK c, i : c = (x - Xorigin) \div FontWidth /\ i = (x - Xorigin) % FontWidth
    OBVIOUS
<1>2. i \in 0..(FontWidth - 1)
    BY <1>1, CellAt
<1>3. c \in Text!ColsOf => cs[row][c] \in Cell
    BY DEF CellRows
<1>4. c \in Text!ColsOf => CellBit(D, p, cs[row][c], i) \in {0, 1}
    BY <1>2, <1>3, BitOfCell
<1> QED BY <1>1, <1>4 DEF Drawn

\* nothing is to be seen of a blank
LEMMA BlankIsDark ==
    ASSUME NEW D, NEW p, NEW i \in 0..(FontWidth - 1)
    PROVE  CellBit(D, p, <<Text!Plain, Text!Black>>, i) = 0 /\ <<Text!Plain, Text!Black>> \in Cell
<1>1. Text!Plain[i] = 0 /\ Text!Plain \in [0..(FontWidth - 1) -> {0, 1}]
    BY DEF Text!Plain
<1>2. Text!Black[2] = {}
    BY DEF Text!Black
<1> QED BY <1>1, <1>2 DEF CellBit, Cell, Text!Om1Bit, Text!Om4Bit, Text!HasBit

LEMMA TextShown == TextInv => Text!TypeOK /\ Text!DisplayShowsText
<1> SUFFICES ASSUME TextInv PROVE Text!TypeOK /\ Text!DisplayShowsText
    OBVIOUS
<1>1. Text!PlaneOf = PlanesOf(depth)
    BY DEF Text!PlaneOf, PlanesOf
<1>2. Text!TypeOK
    <2>1. cursor \in BOOLEAN /\ lost \in BOOLEAN
        BY DEF TextInv
    <2>2. planes \in [Text!PlaneOf -> Text!Screen]
        BY <1>1 DEF TextInv, TextTyped, Plane, Pixels, Text!Screen, Text!Bit
    <2>3. depth \in {1, 4} /\ ccrow \in Text!RowsOf /\ cccol \in Text!ColsOf /\ ops \in 0..MaxDraws
        BY DEF TextInv, TextTyped
    <2>4. cells \in [Text!RowsOf -> [Text!ColsOf -> [0..(FontWidth - 1) -> Text!Bit] \X (Attrs \cup {Text!Black})]]
        BY DEF TextInv, TextTyped, CellRows, Cell, Text!Bit
    <2> QED BY <2>1, <2>2, <2>3, <2>4 DEF Text!TypeOK
<1>3. ASSUME depth = 4 \/ ~lost,
             NEW p \in Text!PlaneOf, NEW row \in Text!RowsOf, NEW x \in 0..(Text!Stride - 1)
      PROVE  planes[p][row][x] = Text!Painted(p, row, x)
    <2>0. ~lost
        BY <1>3 DEF TextInv, TextTyped
    <2>1. PICK q, i, v : /\ q = (x - Xorigin) \div FontWidth /\ i = (x - Xorigin) % FontWidth
                         /\ v = Drawn(depth, cells, p, row, x)
        OBVIOUS
    <2>2. cccol \in Nat /\ cccol + 1 <= Ncols /\ x \in Nat /\ q \in Int /\ (q \in cccol..(cccol + 1 - 1) <=> q = cccol)
        <3>1. cccol \in Nat /\ cccol + 1 <= Ncols /\ x \in Nat
            BY TextSizes DEF TextInv, TextTyped, Text!ColsOf
        <3>2. q \in Int
            BY <2>1, <3>1, CellAt
        <3> QED BY <3>1, <3>2
    <2>3. x \in Span(cccol, 1) <=> ~(x < Xorigin) /\ q = cccol
        BY <2>1, <2>2, SpanIs
    <2>4. v = IF x < Xorigin \/ q \notin Text!ColsOf THEN 0
              ELSE Text!Colour(p, cells[row][q][1][i], cells[row][q][2])
        BY <2>1 DEF Drawn, CellBit, Text!Colour
    <2>5. planes[p][row][x] = IF cursor /\ row = ccrow /\ x \in Span(cccol, 1) THEN 1 - v ELSE v
        BY <1>1, <2>0, <2>1 DEF TextInv
    <2>6. cccol \in Text!ColsOf
        BY DEF TextInv, TextTyped
    <2>7. Text!Painted(p, row, x) =
              IF x < Xorigin \/ q \notin Text!ColsOf THEN 0
              ELSE IF cursor /\ row = ccrow /\ q = cccol
                   THEN 1 - Text!Colour(p, cells[row][q][1][i], cells[row][q][2])
                   ELSE Text!Colour(p, cells[row][q][1][i], cells[row][q][2])
        BY <2>1 DEF Text!Painted
    <2> QED BY <2>3, <2>4, <2>5, <2>6, <2>7
<1> QED BY <1>2, <1>3 DEF Text!DisplayShowsText, Text!Shown

LEMMA TextStart == Text!Init => TextInv
<1> SUFFICES ASSUME Text!Init PROVE TextInv
    OBVIOUS
<1>1. depth \in {1, 4} /\ cursor = FALSE /\ lost = FALSE /\ ccrow = 0 /\ cccol = 0 /\ ops = 0 /\ cells \in CellRows
    BY TextAssumption DEF Text!Init, CellRows, Cell, Text!RowsOf, Text!ColsOf
<1>2. Text!PlaneOf = PlanesOf(depth)
    BY DEF Text!PlaneOf, PlanesOf
<1>3. PICK L : L = Text!Stride
    OBVIOUS
<1>4. ASSUME NEW p \in PlanesOf(depth), NEW row \in Text!RowsOf, NEW x \in 0..(L - 1)
      PROVE  Text!Painted(p, row, x) = Drawn(depth, cells, p, row, x) /\ Drawn(depth, cells, p, row, x) \in {0, 1}
    <2>1. Text!Painted(p, row, x) = Drawn(depth, cells, p, row, x)
        BY <1>1 DEF Text!Painted, Text!Colour, Drawn, CellBit
    <2>2. x \in Nat
        OBVIOUS
    <2> QED BY <1>1, <2>1, <2>2, DrawnIsBit
<1>5. planes = [p \in PlanesOf(depth) |-> [row \in Text!RowsOf |-> [x \in 0..(L - 1) |-> Text!Painted(p, row, x)]]]
    BY <1>2, <1>3 DEF Text!Init
<1>6. planes = [p \in PlanesOf(depth) |-> [row \in Text!RowsOf |-> [x \in 0..(L - 1) |-> Drawn(depth, cells, p, row, x)]]]
    BY <1>4, <1>5
<1>7. planes \in [PlanesOf(depth) -> Plane]
    BY <1>3, <1>4, <1>6 DEF Plane, Pixels
<1>8. \A p \in PlanesOf(depth), row \in Text!RowsOf, x \in 0..(L - 1) :
          planes[p][row][x] = Drawn(depth, cells, p, row, x)
    BY <1>6
<1>9. 0 \in Text!RowsOf /\ 0 \in Text!ColsOf /\ 0 \in 0..MaxDraws
    BY TextAssumption, TextSizes DEF Text!RowsOf, Text!ColsOf
<1> QED BY <1>1, <1>3, <1>7, <1>8, <1>9 DEF TextInv, TextTyped

(***************************************************************************)
(* An operation that draws leaves what is to be seen of the new text.      *)
(***************************************************************************)
LEMMA TextDrawn ==
    ASSUME TextInv, Text!Draws, planes' \in [PlanesOf(depth) -> Plane], cells' \in CellRows,
           lost' \in BOOLEAN, lost' => depth = 1,
           ~lost' => \A p \in PlanesOf(depth), row \in Text!RowsOf, x \in 0..(Text!Stride - 1) :
               planes'[p][row][x] = Drawn(depth, cells', p, row, x)
    PROVE  TextInv'
<1>1. /\ depth' = depth /\ cursor' = FALSE /\ ccrow' = ccrow /\ cccol' = cccol
      /\ ops' = ops + 1 /\ ops < MaxDraws
    <2>1. cursor \in BOOLEAN
        BY DEF TextInv
    <2> QED BY <2>1 DEF Text!Draws
<1>2. ops' \in 0..MaxDraws
    BY <1>1, TextAssumption DEF TextInv, TextTyped
<1> QED BY <1>1, <1>2 DEF TextInv, TextTyped

LEMMA TextNow ==
    ASSUME TextInv, ~cursor
    PROVE  /\ planes \in [PlanesOf(depth) -> Plane] /\ cells \in CellRows
           /\ lost \in BOOLEAN /\ (lost => depth = 1)
           /\ ~lost => \A p \in PlanesOf(depth), row \in Text!RowsOf, x \in 0..(Text!Stride - 1) :
                 planes[p][row][x] = Drawn(depth, cells, p, row, x)
    BY DEF TextInv, TextTyped

LEMMA TextMoved ==
    ASSUME TextInv, Text!Draws, cells' \in CellRows,
           NEW rop, NEW sx \in Nat, NEW dx \in Nat, NEW cx \in Nat,
           sx + cx <= Text!Stride, dx + cx <= Text!Stride,
           NEW sy \in Nat, NEW dy \in Nat, NEW cy \in Nat, sy + cy <= Nrows, dy + cy <= Nrows,
           Text!Windowmove(sx, sy, dx, dy, cx, cy, rop),
           \A p \in PlanesOf(depth), r \in Text!RowsOf, x \in 0..(Text!Stride - 1) :
               Drawn(depth, cells', p, r, x) =
                   IF r \in dy..(dy + cy - 1) /\ x \in dx..(dx + cx - 1)
                   THEN IF rop = "clear" THEN 0 ELSE Drawn(depth, cells, p, sy + r - dy, sx + x - dx)
                   ELSE Drawn(depth, cells, p, r, x)
    PROVE  TextInv'
<1>1. PICK D, L, ct : D = depth /\ L = Text!Stride /\ ct = cells'
    OBVIOUS
<1>2. /\ planes \in [PlanesOf(D) -> Plane] /\ cells \in CellRows /\ lost \in BOOLEAN /\ (lost => D = 1)
      /\ ~lost => \A p \in PlanesOf(D), row \in Text!RowsOf, x \in 0..(L - 1) :
            planes[p][row][x] = Drawn(D, cells, p, row, x)
    <2>1. ~cursor
        BY DEF Text!Draws
    <2> QED BY <1>1, <2>1, TextNow
<1>3. L \in Nat /\ Nrows \in Nat
    BY <1>1, TextSizes
<1>4. PICK steps : steps = Text!StepsOf(sx, dx, cx, rop)
    OBVIOUS
<1>5. planes' = [p \in PlanesOf(D) |-> Text!MoveLines(planes[p], sy, dy, cy, steps, rop)]
    BY <1>1, <1>4 DEF Text!Windowmove, Text!Draws, Text!PlaneOf, PlanesOf
<1>6. planes' \in [PlanesOf(D) -> Plane]
    <2>1. ASSUME NEW p \in PlanesOf(D) PROVE Text!MoveLines(planes[p], sy, dy, cy, steps, rop) \in Plane
        <3>1. PICK P : P = planes[p]
            OBVIOUS
        <3>2. P \in Plane
            BY <1>2, <3>1
        <3>3. StepsFit(steps)
            BY <1>4, StepsOfFit
        <3>4. Text!MoveLines(P, sy, dy, cy, steps, rop) \in Plane
            BY <3>2, <3>3, BlockTyped
        <3> QED BY <3>1, <3>4
    <2> QED BY <1>5, <2>1
<1>7. /\ lost' \in BOOLEAN /\ (lost' => D = 1) /\ (~lost' => ~lost)
      /\ ~lost' => steps = Text!Steps(sx, dx, cx)
    <2>1. lost' = (lost \/ (depth = 1 /\ Text!PointerLost(sx, dx, cx, rop)))
        BY DEF Text!Windowmove
    <2>2. lost' \in BOOLEAN /\ (lost' => D = 1) /\ (~lost' => ~lost)
        BY <1>1, <1>2, <2>1
    <2>3. ~lost' => steps = Text!Steps(sx, dx, cx)
        BY <1>4, <2>1 DEF Text!StepsOf, Text!Om1Steps
    <2> QED BY <2>2, <2>3
<1>8. ASSUME ~lost', NEW p \in PlanesOf(D), NEW r \in Text!RowsOf, NEW x \in 0..(L - 1)
      PROVE  planes'[p][r][x] = Drawn(D, ct, p, r, x)
    <2>1. PICK P, Q : P = planes[p] /\ Q = Text!MoveLines(P, sy, dy, cy, Text!Steps(sx, dx, cx), rop)
        OBVIOUS
    <2>2. P \in Plane
        BY <1>2, <2>1
    <2>3. Q \in Plane /\ \A y \in Text!RowsOf, z \in 0..(L - 1) :
              Q[y][z] = IF y \in dy..(dy + cy - 1) /\ z \in dx..(dx + cx - 1)
                        THEN Value(P, sy + y - dy, sx, dx, z, rop) ELSE P[y][z]
        <3>1. PICK st : st = Text!Steps(sx, dx, cx)
            OBVIOUS
        <3>2. PICK M : M = Text!MoveLines(P, sy, dy, cy, st, rop)
            OBVIOUS
        <3>3. M \in Plane /\ \A y \in Text!RowsOf, z \in 0..(L - 1) :
                  M[y][z] = IF y \in dy..(dy + cy - 1) /\ z \in dx..(dx + cx - 1)
                            THEN Value(P, sy + y - dy, sx, dx, z, rop) ELSE P[y][z]
            BY <1>1, <2>2, <3>1, <3>2, BlockMoved
        <3> QED BY <2>1, <3>1, <3>2, <3>3
    <2>4. planes'[p] = Q
        BY <1>5, <1>7, <1>8, <2>1
    <2>5. P[r][x] = Drawn(D, cells, p, r, x)
        BY <1>2, <1>7, <1>8, <2>1
    <2>6. ASSUME r \in dy..(dy + cy - 1), x \in dx..(dx + cx - 1)
          PROVE  P[sy + r - dy][sx + x - dx] = Drawn(D, cells, p, sy + r - dy, sx + x - dx)
        <3>1. sy + r - dy \in Text!RowsOf
            BY <1>3, <2>6 DEF Text!RowsOf
        <3>2. sx + x - dx \in 0..(L - 1)
            BY <1>1, <1>3, <2>6
        <3> QED BY <1>2, <1>7, <1>8, <2>1, <3>1, <3>2
    <2>7. Drawn(D, ct, p, r, x) =
              IF r \in dy..(dy + cy - 1) /\ x \in dx..(dx + cx - 1)
              THEN IF rop = "clear" THEN 0 ELSE Drawn(D, cells, p, sy + r - dy, sx + x - dx)
              ELSE Drawn(D, cells, p, r, x)
        BY <1>1
    <2> QED BY <2>3, <2>4, <2>5, <2>6, <2>7 DEF Value
<1>9. cells' \in CellRows /\ Text!Draws
    OBVIOUS
<1>10. ~lost' => \A p \in PlanesOf(depth), r \in Text!RowsOf, x \in 0..(Text!Stride - 1) :
                    planes'[p][r][x] = Drawn(depth, cells', p, r, x)
    BY <1>1, <1>8
<1> QED BY <1>1, <1>6, <1>7, <1>9, <1>10, TextDrawn

LEMMA PutcharStep ==
    ASSUME TextInv, NEW row \in Text!RowsOf, NEW col \in Text!ColsOf, NEW glyph \in Font, NEW attr \in Attrs,
           Text!Putchar(row, col, glyph, attr)
    PROVE  TextInv'
<1>1. PICK D, L, ct, F : D = depth /\ L = Text!Stride /\ ct = cells' /\ F = FontWidth
    OBVIOUS
<1>2. /\ planes \in [PlanesOf(D) -> Plane] /\ cells \in CellRows /\ lost \in BOOLEAN /\ (lost => D = 1)
      /\ ~lost => \A p \in PlanesOf(D), r \in Text!RowsOf, x \in 0..(L - 1) :
            planes[p][r][x] = Drawn(D, cells, p, r, x)
    <2>1. ~cursor
        BY DEF Text!Putchar, Text!Draws
    <2> QED BY <1>1, <2>1, TextNow
<1>3. L \in Nat /\ F \in Nat \ {0} /\ Xorigin \in Nat /\ col \in Nat /\ col + 1 <= Ncols /\ F * col \in Nat
    BY <1>1, TextSizes DEF Text!ColsOf
<1>4. <<glyph, attr>> \in Cell /\ glyph \in [0..(F - 1) -> {0, 1}]
    BY <1>1, TextAssumption DEF Cell
<1>5. ct = [cells EXCEPT ![row][col] = <<glyph, attr>>]
    BY <1>1 DEF Text!Putchar
<1>6. ct \in CellRows /\ \A r \in Text!RowsOf, c \in Text!ColsOf :
                            ct[r][c] = IF r = row /\ c = col THEN <<glyph, attr>> ELSE cells[r][c]
    <2>1. PICK l : l = cells[row]
        OBVIOUS
    <2>2. l \in [Text!ColsOf -> Cell]
        BY <1>2, <2>1 DEF CellRows
    <2>3. PICK k : k = [l EXCEPT ![col] = <<glyph, attr>>]
        OBVIOUS
    <2>4. k \in [Text!ColsOf -> Cell] /\ \A c \in Text!ColsOf : k[c] = IF c = col THEN <<glyph, attr>> ELSE l[c]
        BY <1>4, <2>2, <2>3
    <2>5. ct = [cells EXCEPT ![row] = k]
        BY <1>5, <2>1, <2>3
    <2> QED BY <1>2, <2>1, <2>4, <2>5 DEF CellRows
<1>7. ASSUME NEW x \in 0..(L - 1)
      PROVE  /\ x \in Text!Under(col) <=> ~(x < Xorigin) /\ (x - Xorigin) \div FontWidth = col
             /\ x \in Text!Under(col) =>
                   /\ (x - Xorigin) % FontWidth = x - Xorigin - F * col
                   /\ x - Xorigin - F * col \in 0..(F - 1)
    <2>1. PICK q, i : q = (x - Xorigin) \div FontWidth /\ i = (x - Xorigin) % FontWidth
        OBVIOUS
    <2>2. x \in Nat /\ x \in Int
        OBVIOUS
    <2>3. q \in Int /\ i \in 0..(F - 1) /\ x = Xorigin + F * q + i
        <3>1. /\ (x - Xorigin) \div FontWidth \in Int /\ (x - Xorigin) % FontWidth \in 0..(FontWidth - 1)
              /\ x = Xorigin + FontWidth * ((x - Xorigin) \div FontWidth) + ((x - Xorigin) % FontWidth)
            BY <1>3, <2>2, CellAt, Zenon
        <3> QED BY <1>1, <2>1, <3>1, Zenon
    <2>4. x \in Text!Under(col) <=> x \in Span(col, 1)
        <3>1. FontWidth * 1 = FontWidth
            BY <1>1, <1>3
        <3> QED BY <1>3, <2>2, <3>1, UnderIsCell DEF Span
    <2>5. x \in Span(col, 1) <=> ~(x < Xorigin) /\ q \in col..(col + 1 - 1)
        BY <1>3, <2>1, <2>2, SpanIs
    <2>6. q \in col..(col + 1 - 1) <=> q = col
        BY <1>3, <2>3
    <2>7. q = col => i = x - Xorigin - F * col
        BY <1>3, <2>2, <2>3
    <2> QED BY <2>1, <2>3, <2>4, <2>5, <2>6, <2>7
<1>8. ASSUME NEW p \in PlanesOf(D), NEW x \in 0..(L - 1)
      PROVE  Drawn(D, ct, p, row, x) = IF x \in Text!Under(col)
                                       THEN CellBit(D, p, <<glyph, attr>>, x - Xorigin - F * col)
                                       ELSE Drawn(D, cells, p, row, x)
    <2>1. CASE x \in Text!Under(col)
        BY <1>6, <1>7, <2>1 DEF Drawn
    <2>2. CASE x \notin Text!Under(col)
        BY <1>6, <1>7, <2>2 DEF Drawn
    <2> QED BY <2>1, <2>2
<1>9. \A p \in PlanesOf(D), r \in Text!RowsOf, x \in 0..(L - 1) :
          r # row => Drawn(D, ct, p, r, x) = Drawn(D, cells, p, r, x)
    BY <1>6 DEF Drawn
<1>10. planes' = [p \in PlanesOf(D) |-> [planes[p] EXCEPT ![row] = [x \in DOMAIN @ |->
          IF x \in Text!Under(col)
          THEN CellBit(D, p, <<glyph, attr>>, x - Xorigin - F * col) ELSE @[x]]]]
    BY <1>1 DEF Text!Putchar, Text!PlaneOf, PlanesOf, Text!Colour, CellBit
<1>11. ASSUME NEW p \in PlanesOf(D)
       PROVE  /\ planes'[p] \in Plane
              /\ ~lost => \A r \in Text!RowsOf, x \in 0..(L - 1) : planes'[p][r][x] = Drawn(D, ct, p, r, x)
    <2>1. PICK P, l : P = planes[p] /\ l = P[row]
        OBVIOUS
    <2>2. P \in Plane /\ l \in [0..(L - 1) -> {0, 1}]
        <3>1. P \in Plane
            BY <1>2, <2>1
        <3> QED BY <1>1, <2>1, <3>1 DEF Plane, Pixels
    <2>3. PICK k : k = [x \in 0..(L - 1) |-> IF x \in Text!Under(col)
                                             THEN CellBit(D, p, <<glyph, attr>>, x - Xorigin - F * col) ELSE l[x]]
        OBVIOUS
    <2>4. k = [x \in DOMAIN l |-> IF x \in Text!Under(col)
                                  THEN CellBit(D, p, <<glyph, attr>>, x - Xorigin - F * col) ELSE l[x]]
        BY <2>2, <2>3
    <2>5. planes'[p] = [P EXCEPT ![row] = k]
        BY <1>10, <2>1, <2>4
    <2>6. k \in Pixels /\ (~lost => \A x \in 0..(L - 1) : k[x] = Drawn(D, ct, p, row, x))
        <3>1. ~lost => \A x \in 0..(L - 1) : l[x] = Drawn(D, cells, p, row, x)
            BY <1>2, <2>1
        <3>2. ~lost => \A x \in 0..(L - 1) : k[x] = Drawn(D, ct, p, row, x)
            BY <1>8, <2>3, <3>1
        <3>3. ASSUME NEW x \in 0..(L - 1) PROVE k[x] \in {0, 1}
            <4>1. x \in Text!Under(col) => CellBit(D, p, <<glyph, attr>>, x - Xorigin - F * col) \in {0, 1}
                BY <1>1, <1>4, <1>7, BitOfCell
            <4> QED BY <2>2, <2>3, <4>1
        <3> QED BY <1>1, <2>3, <3>2, <3>3 DEF Pixels
    <2>7. planes'[p] \in Plane /\ \A r \in Text!RowsOf : planes'[p][r] = IF r = row THEN k ELSE P[r]
        BY <2>2, <2>5, <2>6 DEF Plane
    <2>8. ~lost => \A r \in Text!RowsOf, x \in 0..(L - 1) : P[r][x] = Drawn(D, cells, p, r, x)
        BY <1>2, <2>1
    <2> QED BY <1>9, <2>6, <2>7, <2>8
<1>12. planes' \in [PlanesOf(D) -> Plane]
    BY <1>10, <1>11
<1>13. Text!Draws /\ lost' = lost
    BY DEF Text!Putchar
<1>14. /\ lost' \in BOOLEAN /\ (lost' => depth = 1)
       /\ ~lost' => \A p \in PlanesOf(depth), r \in Text!RowsOf, x \in 0..(Text!Stride - 1) :
                       planes'[p][r][x] = Drawn(depth, cells', p, r, x)
    BY <1>1, <1>2, <1>11, <1>13
<1>15. planes' \in [PlanesOf(depth) -> Plane] /\ cells' \in CellRows
    BY <1>1, <1>6, <1>12
<1> QED BY <1>13, <1>14, <1>15, TextDrawn

LEMMA EraseColsStep ==
    ASSUME TextInv, NEW row \in Text!RowsOf, NEW col \in Text!ColsOf, NEW num \in 1..(Ncols - col),
           Text!EraseCols(row, col, num)
    PROVE  TextInv'
<1>1. PICK D, s, n, blank : D = depth /\ s = Xorigin + col * FontWidth /\ n = num * FontWidth
                            /\ blank = <<Text!Plain, Text!Black>>
    OBVIOUS
<1>2. /\ col \in Nat /\ num \in Nat /\ col + num <= Ncols /\ Nrows \in Nat /\ row \in Nat /\ row + 1 <= Nrows
      /\ FontWidth \in Nat \ {0}
    BY TextSizes DEF Text!ColsOf, Text!RowsOf
<1>3. s \in Nat /\ n \in Nat /\ s + n <= Text!Stride /\ s..(s + n - 1) = Span(col, num)
    BY <1>1, <1>2, SpanEnds
<1>4. Text!Draws /\ Text!Windowmove(s, row, s, row, n, 1, "clear")
    BY <1>1 DEF Text!EraseCols
<1>5. ~cursor /\ cells \in CellRows
    BY <1>4 DEF Text!Draws, TextInv, TextTyped
<1>6. blank \in Cell /\ \A p : \A i \in 0..(FontWidth - 1) : CellBit(D, p, blank, i) = 0
    <2>1. 0 \in 0..(FontWidth - 1)
        BY <1>2
    <2> QED BY <1>1, <2>1, BlankIsDark
<1>7. cells' \in CellRows /\ \A r \in Text!RowsOf, c \in Text!ColsOf :
          cells'[r][c] = IF r = row /\ c \in col..(col + num - 1) THEN blank ELSE cells[r][c]
    <2>1. PICK l, k : l = cells[row] /\ k = [c \in Text!ColsOf |-> IF c \in col..(col + num - 1) THEN blank ELSE l[c]]
        OBVIOUS
    <2>2. l \in [Text!ColsOf -> Cell]
        BY <1>5, <2>1 DEF CellRows
    <2>3. k \in [Text!ColsOf -> Cell]
        BY <1>6, <2>1, <2>2
    <2>4. cells' = [cells EXCEPT ![row] = k]
        BY <1>1, <2>1 DEF Text!EraseCols
    <2> QED BY <1>5, <2>1, <2>3, <2>4 DEF CellRows
<1>8. ASSUME NEW p \in PlanesOf(D), NEW r \in Text!RowsOf, NEW x \in 0..(Text!Stride - 1)
      PROVE  Drawn(D, cells', p, r, x) =
                 IF r \in row..(row + 1 - 1) /\ x \in s..(s + n - 1)
                 THEN IF "clear" = "clear" THEN 0 ELSE Drawn(D, cells, p, row + r - row, s + x - s)
                 ELSE Drawn(D, cells, p, r, x)
    <2>1. PICK q, i : q = (x - Xorigin) \div FontWidth /\ i = (x - Xorigin) % FontWidth
        OBVIOUS
    <2>2. x \in Nat /\ (r \in row..(row + 1 - 1) <=> r = row)
        BY <1>2 DEF Text!RowsOf
    <2>3. i \in 0..(FontWidth - 1)
        BY <2>1, <2>2, CellAt
    <2>4. /\ x \in Span(col, num) <=> ~(x < Xorigin) /\ q \in col..(col + num - 1)
          /\ x \in Span(col, num) => q \in Text!ColsOf
        BY <1>2, <2>1, <2>2, SpanIs
    <2>5. CASE r = row /\ x \in Span(col, num)
        <3>1. cells'[r][q] = blank /\ CellBit(D, p, blank, i) = 0
            BY <1>6, <1>7, <2>3, <2>4, <2>5
        <3> QED BY <1>3, <2>1, <2>2, <2>5, <3>1 DEF Drawn
    <2>6. CASE ~(r = row /\ x \in Span(col, num))
        <3>1. ~(x < Xorigin) /\ q \in Text!ColsOf => cells'[r][q] = cells[r][q]
            BY <1>7, <2>4, <2>6
        <3> QED BY <1>3, <2>1, <2>2, <2>6, <3>1 DEF Drawn
    <2> QED BY <2>5, <2>6
<1>9. row \in Nat /\ 1 \in Nat
    BY <1>2
<1>10. \A p \in PlanesOf(depth), r \in Text!RowsOf, x \in 0..(Text!Stride - 1) :
          Drawn(depth, cells', p, r, x) =
              IF r \in row..(row + 1 - 1) /\ x \in s..(s + n - 1)
              THEN IF "clear" = "clear" THEN 0 ELSE Drawn(depth, cells, p, row + r - row, s + x - s)
              ELSE Drawn(depth, cells, p, r, x)
    BY <1>1, <1>8
<1>11. cells' \in CellRows
    BY <1>7
<1> QED BY <1>2, <1>3, <1>4, <1>9, <1>10, <1>11, TextMoved

LEMMA EraseRowsStep ==
    ASSUME TextInv, NEW row \in Text!RowsOf, NEW num \in 1..(Nrows - row), Text!EraseRows(row, num)
    PROVE  TextInv'
<1>1. PICK D, s, n, blank : D = depth /\ s = Xorigin /\ n = Ncols * FontWidth
                            /\ blank = <<Text!Plain, Text!Black>>
    OBVIOUS
<1>2. /\ num \in Nat /\ row \in Nat /\ row + num <= Nrows /\ Nrows \in Nat /\ Ncols \in Nat /\ 0 \in Nat /\ 0 + Ncols <= Ncols
      /\ FontWidth \in Nat \ {0}
    BY TextSizes DEF Text!ColsOf, Text!RowsOf
<1>3. s \in Nat /\ n \in Nat /\ s + n <= Text!Stride /\ s..(s + n - 1) = Span(0, Ncols)
    <2>1. Xorigin + 0 * FontWidth = Xorigin
        BY <1>2, SpanEnds
    <2> QED BY <1>1, <1>2, <2>1, SpanEnds
<1>4. Text!Draws /\ Text!Windowmove(s, row, s, row, n, num, "clear")
    BY <1>1 DEF Text!EraseRows
<1>5. ~cursor /\ cells \in CellRows
    BY <1>4 DEF Text!Draws, TextInv, TextTyped
<1>6. blank \in Cell /\ \A p : \A i \in 0..(FontWidth - 1) : CellBit(D, p, blank, i) = 0
    <2>1. 0 \in 0..(FontWidth - 1)
        BY <1>2
    <2> QED BY <1>1, <2>1, BlankIsDark
<1>7. cells' \in CellRows /\ \A r \in Text!RowsOf, c \in Text!ColsOf :
          cells'[r][c] = IF r \in row..(row + num - 1) THEN blank ELSE cells[r][c]
    <2>1. cells' = [r \in Text!RowsOf |-> IF r \in row..(row + num - 1) THEN [c \in Text!ColsOf |-> blank] ELSE cells[r]]
        BY <1>1 DEF Text!EraseRows
    <2> QED BY <1>5, <1>6, <2>1 DEF CellRows
<1>8. ASSUME NEW p \in PlanesOf(D), NEW r \in Text!RowsOf, NEW x \in 0..(Text!Stride - 1)
      PROVE  Drawn(D, cells', p, r, x) =
                 IF r \in row..(row + num - 1) /\ x \in s..(s + n - 1)
                 THEN IF "clear" = "clear" THEN 0 ELSE Drawn(D, cells, p, row + r - row, s + x - s)
                 ELSE Drawn(D, cells, p, r, x)
    <2>1. PICK q, i : q = (x - Xorigin) \div FontWidth /\ i = (x - Xorigin) % FontWidth
        OBVIOUS
    <2>2. x \in Nat
        OBVIOUS
    <2>3. i \in 0..(FontWidth - 1) /\ q \in Int
        BY <2>1, <2>2, CellAt
    <2>4. x \in Span(0, Ncols) <=> ~(x < Xorigin) /\ q \in 0..(0 + Ncols - 1)
        BY <1>2, <2>1, <2>2, SpanIs
    <2>5. q \in 0..(0 + Ncols - 1) <=> q \in Text!ColsOf
        BY <1>2, <2>3 DEF Text!ColsOf
    <2>6. CASE r \in row..(row + num - 1) /\ x \in Span(0, Ncols)
        <3>1. cells'[r][q] = blank /\ CellBit(D, p, blank, i) = 0
            BY <1>6, <1>7, <2>3, <2>4, <2>5, <2>6
        <3> QED BY <1>3, <2>1, <2>6, <3>1 DEF Drawn
    <2>7. CASE ~(r \in row..(row + num - 1) /\ x \in Span(0, Ncols))
        <3>1. ~(x < Xorigin) /\ q \in Text!ColsOf => cells'[r][q] = cells[r][q]
            BY <1>7, <2>4, <2>5, <2>7
        <3> QED BY <1>3, <2>1, <2>7, <3>1 DEF Drawn
    <2> QED BY <2>6, <2>7
<1>9. \A p \in PlanesOf(depth), r \in Text!RowsOf, x \in 0..(Text!Stride - 1) :
          Drawn(depth, cells', p, r, x) =
              IF r \in row..(row + num - 1) /\ x \in s..(s + n - 1)
              THEN IF "clear" = "clear" THEN 0 ELSE Drawn(depth, cells, p, row + r - row, s + x - s)
              ELSE Drawn(depth, cells, p, r, x)
    BY <1>1, <1>8
<1> QED BY <1>2, <1>3, <1>4, <1>7, <1>9, TextMoved

LEMMA CopyRowsStep ==
    ASSUME TextInv, NEW src \in Text!RowsOf, NEW dst \in Text!RowsOf, NEW n \in Nat,
           src + n <= Nrows, dst + n <= Nrows, Text!CopyRows(src, dst, n)
    PROVE  TextInv'
<1>1. PICK D, s, w : D = depth /\ s = Xorigin /\ w = Ncols * FontWidth
    OBVIOUS
<1>2. src \in Nat /\ dst \in Nat /\ Nrows \in Nat /\ Ncols \in Nat /\ 0 \in Nat /\ 0 + Ncols <= Ncols
    BY TextSizes DEF Text!RowsOf
<1>3. s \in Nat /\ w \in Nat /\ s + w <= Text!Stride /\ s..(s + w - 1) = Span(0, Ncols)
    <2>1. Xorigin + 0 * FontWidth = Xorigin
        BY <1>2, SpanEnds
    <2> QED BY <1>1, <1>2, <2>1, SpanEnds
<1>4. Text!Draws /\ Text!Windowmove(s, src, s, dst, w, n, "copy")
    BY <1>1 DEF Text!CopyRows
<1>5. ~cursor /\ cells \in CellRows
    BY <1>4 DEF Text!Draws, TextInv, TextTyped
<1>6. cells' = [r \in Text!RowsOf |-> IF r \in dst..(dst + n - 1) THEN cells[src + r - dst] ELSE cells[r]]
    BY DEF Text!CopyRows
<1>7. \A r \in Text!RowsOf : r \in dst..(dst + n - 1) => src + r - dst \in Text!RowsOf
    BY <1>2 DEF Text!RowsOf
<1>8. cells' \in CellRows
    BY <1>5, <1>6, <1>7 DEF CellRows
<1>9. ASSUME NEW p \in PlanesOf(D), NEW r \in Text!RowsOf, NEW x \in 0..(Text!Stride - 1)
      PROVE  Drawn(D, cells', p, r, x) =
                 IF r \in dst..(dst + n - 1) /\ x \in s..(s + w - 1)
                 THEN IF "copy" = "clear" THEN 0 ELSE Drawn(D, cells, p, src + r - dst, s + x - s)
                 ELSE Drawn(D, cells, p, r, x)
    <2>1. PICK q, i : q = (x - Xorigin) \div FontWidth /\ i = (x - Xorigin) % FontWidth
        OBVIOUS
    <2>2. x \in Nat /\ s + x - s = x
        BY <1>3
    <2>3. q \in Int
        BY <2>1, <2>2, CellAt
    <2>4. x \in Span(0, Ncols) <=> ~(x < Xorigin) /\ q \in 0..(0 + Ncols - 1)
        BY <1>2, <2>1, <2>2, SpanIs
    <2>5. q \in 0..(0 + Ncols - 1) <=> q \in Text!ColsOf
        BY <1>2, <2>3 DEF Text!ColsOf
    <2>6. CASE r \in dst..(dst + n - 1) /\ x \in Span(0, Ncols)
        <3>1. cells'[r] = cells[src + r - dst]
            BY <1>6, <2>6
        <3>2. Drawn(D, cells', p, r, x) = Drawn(D, cells, p, src + r - dst, x)
            BY <3>1 DEF Drawn
        <3> QED BY <1>3, <2>2, <2>6, <3>2
    <2>7. CASE ~(r \in dst..(dst + n - 1) /\ x \in Span(0, Ncols))
        <3>1. ~(x < Xorigin) /\ q \in Text!ColsOf => cells'[r] = cells[r]
            BY <1>6, <2>4, <2>5, <2>7
        <3>2. Drawn(D, cells', p, r, x) = Drawn(D, cells, p, r, x)
            BY <2>1, <3>1 DEF Drawn
        <3> QED BY <1>3, <2>7, <3>2
    <2> QED BY <2>6, <2>7
<1>10. \A p \in PlanesOf(depth), r \in Text!RowsOf, x \in 0..(Text!Stride - 1) :
          Drawn(depth, cells', p, r, x) =
              IF r \in dst..(dst + n - 1) /\ x \in s..(s + w - 1)
              THEN IF "copy" = "clear" THEN 0 ELSE Drawn(depth, cells, p, src + r - dst, s + x - s)
              ELSE Drawn(depth, cells, p, r, x)
    BY <1>1, <1>9
<1> QED BY <1>1, <1>2, <1>3, <1>4, <1>8, <1>10, TextMoved

LEMMA CopyColsStep ==
    ASSUME TextInv, NEW row \in Text!RowsOf, NEW src \in Text!ColsOf, NEW dst \in Text!ColsOf, NEW n \in Nat,
           src + n <= Ncols, dst + n <= Ncols, Text!CopyCols(row, src, dst, n)
    PROVE  TextInv'
<1>1. PICK D, s, d, w, F : /\ D = depth /\ s = Xorigin + src * FontWidth /\ d = Xorigin + dst * FontWidth
                           /\ w = n * FontWidth /\ F = FontWidth
    OBVIOUS
<1>2. /\ src \in Nat /\ dst \in Nat /\ Ncols \in Nat /\ Nrows \in Nat /\ row \in Nat /\ row + 1 <= Nrows
      /\ F \in Nat \ {0} /\ Xorigin \in Nat
    BY <1>1, TextSizes DEF Text!ColsOf, Text!RowsOf
<1>3. /\ s \in Nat /\ w \in Nat /\ s + w <= Text!Stride
      /\ d \in Nat /\ d + w <= Text!Stride /\ d..(d + w - 1) = Span(dst, n)
    BY <1>1, <1>2, SpanEnds
<1>4. Text!Draws /\ Text!Windowmove(s, row, d, row, w, 1, "copy")
    BY <1>1 DEF Text!CopyCols
<1>5. ~cursor /\ cells \in CellRows
    BY <1>4 DEF Text!Draws, TextInv, TextTyped
<1>6. \A c \in dst..(dst + n - 1) : src + c - dst \in Text!ColsOf
    BY <1>2 DEF Text!ColsOf
<1>7. cells' \in CellRows /\ \A r \in Text!RowsOf, c \in Text!ColsOf :
          cells'[r][c] = IF r = row /\ c \in dst..(dst + n - 1) THEN cells[r][src + c - dst] ELSE cells[r][c]
    <2>1. PICK l, k : l = cells[row] /\ k = [c \in Text!ColsOf |-> IF c \in dst..(dst + n - 1) THEN l[src + c - dst] ELSE l[c]]
        OBVIOUS
    <2>2. l \in [Text!ColsOf -> Cell]
        BY <1>5, <2>1 DEF CellRows
    <2>3. k \in [Text!ColsOf -> Cell]
        BY <1>6, <2>1, <2>2
    <2>4. cells' = [cells EXCEPT ![row] = k]
        BY <2>1 DEF Text!CopyCols
    <2> QED BY <1>5, <2>1, <2>3, <2>4 DEF CellRows
<1>8. ASSUME NEW p \in PlanesOf(D), NEW r \in Text!RowsOf, NEW x \in 0..(Text!Stride - 1)
      PROVE  Drawn(D, cells', p, r, x) =
                 IF r \in row..(row + 1 - 1) /\ x \in d..(d + w - 1)
                 THEN IF "copy" = "clear" THEN 0 ELSE Drawn(D, cells, p, row + r - row, s + x - d)
                 ELSE Drawn(D, cells, p, r, x)
    <2>1. PICK q, i : q = (x - Xorigin) \div FontWidth /\ i = (x - Xorigin) % FontWidth
        OBVIOUS
    <2>2. x \in Nat /\ x \in Int /\ (r \in row..(row + 1 - 1) <=> r = row) /\ row + r - row = r
        BY <1>2 DEF Text!RowsOf
    <2>3. q \in Int /\ i \in 0..(F - 1) /\ x = Xorigin + F * q + i
        <3>1. /\ (x - Xorigin) \div FontWidth \in Int /\ (x - Xorigin) % FontWidth \in 0..(FontWidth - 1)
              /\ x = Xorigin + FontWidth * ((x - Xorigin) \div FontWidth) + ((x - Xorigin) % FontWidth)
            <4>1. 0 \in Int /\ 0 \in Nat
                OBVIOUS
            <4> QED BY <2>2, <4>1, CellAt, Zenon
        <3> QED BY <1>1, <2>1, <3>1, Zenon
    <2>4. /\ x \in Span(dst, n) <=> ~(x < Xorigin) /\ q \in dst..(dst + n - 1)
          /\ x \in Span(dst, n) => q \in Text!ColsOf
        BY <1>2, <2>1, <2>2, SpanIs
    <2>5. CASE r = row /\ x \in Span(dst, n)
        <3>1. PICK k, z : k = src + q - dst /\ z = s + x - d
            OBVIOUS
        <3>2. k \in Text!ColsOf /\ k \in Nat
            BY <1>2, <1>6, <2>3, <2>4, <2>5, <3>1
        <3>3. z - Xorigin = F * k + i
            <4>1. src * F = F * src /\ dst * F = F * dst /\ F * k = F * src + F * q - F * dst
                BY <1>2, <2>3, <3>1
            <4>2. F * src \in Nat /\ F * dst \in Nat /\ F * q \in Int
                BY <1>2, <2>3
            <4> QED BY <1>1, <1>2, <2>3, <3>1, <4>1, <4>2
        <3>4. (z - Xorigin) \div FontWidth = k /\ (z - Xorigin) % FontWidth = i
            <4>1. PICK y : y = z - Xorigin
                OBVIOUS
            <4>2. y = F * k + i /\ k \in Int
                BY <3>2, <3>3, <4>1
            <4>3. y \div F = k /\ y % F = i
                BY <1>2, <2>3, <4>2, DivUnique
            <4> QED BY <1>1, <4>1, <4>3
        <3>5. ~(z < Xorigin)
            <4>1. F * k \in Nat /\ z \in Int
                BY <1>2, <1>3, <2>2, <3>1, <3>2
            <4> QED BY <1>2, <2>3, <3>3, <4>1
        <3>6. cells'[r][q] = cells[r][k]
            BY <1>7, <2>4, <2>5, <3>1
        <3>7. Drawn(D, cells', p, r, x) = CellBit(D, p, cells[r][k], i)
            BY <2>1, <2>4, <2>5, <3>6 DEF Drawn
        <3>8. Drawn(D, cells, p, r, z) = CellBit(D, p, cells[r][k], i)
            BY <3>2, <3>4, <3>5 DEF Drawn
        <3> QED BY <1>3, <2>2, <2>5, <3>1, <3>7, <3>8
    <2>6. CASE ~(r = row /\ x \in Span(dst, n))
        <3>1. ~(x < Xorigin) /\ q \in Text!ColsOf => cells'[r][q] = cells[r][q]
            BY <1>7, <2>4, <2>6
        <3>2. Drawn(D, cells', p, r, x) = Drawn(D, cells, p, r, x)
            BY <2>1, <3>1 DEF Drawn
        <3> QED BY <1>3, <2>2, <2>6, <3>2
    <2> QED BY <2>5, <2>6
<1>9. 1 \in Nat
    OBVIOUS
<1>10. \A p \in PlanesOf(depth), r \in Text!RowsOf, x \in 0..(Text!Stride - 1) :
          Drawn(depth, cells', p, r, x) =
              IF r \in row..(row + 1 - 1) /\ x \in d..(d + w - 1)
              THEN IF "copy" = "clear" THEN 0 ELSE Drawn(depth, cells, p, row + r - row, s + x - d)
              ELSE Drawn(depth, cells, p, r, x)
    BY <1>1, <1>8
<1>11. cells' \in CellRows
    BY <1>7
<1> QED BY <1>2, <1>3, <1>4, <1>9, <1>10, <1>11, TextMoved

\* a character is inverted, and nothing else
LEMMA InvertedIs ==
    ASSUME TextInv, NEW row \in Text!RowsOf, NEW col \in Text!ColsOf, Text!Inverted(row, col), depth' = depth
    PROVE  /\ planes' \in [PlanesOf(depth) -> Plane]
           /\ \A p \in PlanesOf(depth), r \in Text!RowsOf, x \in 0..(Text!Stride - 1) :
                 planes'[p][r][x] = IF r = row /\ x \in Span(col, 1) THEN 1 - planes[p][r][x] ELSE planes[p][r][x]
<1>1. PICK D, L : D = depth /\ L = Text!Stride
    OBVIOUS
<1>2. planes \in [PlanesOf(D) -> Plane] /\ col \in Nat
    BY <1>1 DEF TextInv, TextTyped, Text!ColsOf
<1>3. \A x \in 0..(L - 1) : x \in Text!Under(col) <=> x \in Span(col, 1)
    <2>1. FontWidth * 1 = FontWidth
        BY TextSizes
    <2> QED BY <1>2, <2>1, UnderIsCell DEF Span
<1>4. planes' = [p \in PlanesOf(D) |-> [planes[p] EXCEPT ![row] = [x \in DOMAIN @ |->
          IF x \in Text!Under(col) THEN 1 - @[x] ELSE @[x]]]]
    BY <1>1 DEF Text!Inverted, Text!PlaneOf, PlanesOf
<1>5. ASSUME NEW p \in PlanesOf(D)
      PROVE  planes'[p] \in Plane /\ \A r \in Text!RowsOf, x \in 0..(L - 1) :
                 planes'[p][r][x] = IF r = row /\ x \in Span(col, 1) THEN 1 - planes[p][r][x] ELSE planes[p][r][x]
    <2>1. PICK P, l : P = planes[p] /\ l = P[row]
        OBVIOUS
    <2>2. P \in Plane /\ l \in [0..(L - 1) -> {0, 1}]
        <3>1. P \in Plane
            BY <1>2, <2>1
        <3> QED BY <1>1, <2>1, <3>1 DEF Plane, Pixels
    <2>3. PICK k : k = [x \in 0..(L - 1) |-> IF x \in Text!Under(col) THEN 1 - l[x] ELSE l[x]]
        OBVIOUS
    <2>4. k = [x \in DOMAIN l |-> IF x \in Text!Under(col) THEN 1 - l[x] ELSE l[x]]
        BY <2>2, <2>3
    <2>5. planes'[p] = [P EXCEPT ![row] = k]
        BY <1>4, <2>1, <2>4
    <2>6. k \in Pixels
        <3>1. \A x \in 0..(L - 1) : l[x] \in {0, 1} /\ 1 - l[x] \in {0, 1}
            BY <2>2
        <3> QED BY <1>1, <2>3, <3>1 DEF Pixels
    <2>7. planes'[p] \in Plane /\ \A r \in Text!RowsOf : planes'[p][r] = IF r = row THEN k ELSE P[r]
        BY <2>2, <2>5, <2>6 DEF Plane
    <2>8. ASSUME NEW r \in Text!RowsOf, NEW x \in 0..(L - 1)
          PROVE  planes'[p][r][x] = IF r = row /\ x \in Span(col, 1) THEN 1 - P[r][x] ELSE P[r][x]
        <3>1. CASE r = row
            <4>1. planes'[p][r] = k /\ P[r] = l
                BY <2>1, <2>7, <3>1
            <4> QED BY <1>3, <2>3, <3>1, <4>1
        <3>2. CASE r # row
            BY <2>7, <3>2
        <3> QED BY <3>1, <3>2
    <2> QED BY <2>1, <2>7, <2>8
<1>6. planes' \in [PlanesOf(D) -> Plane]
    BY <1>4, <1>5
<1> QED BY <1>1, <1>5, <1>6

LEMMA CursorSteps ==
    ASSUME TextInv, NEW row \in Text!RowsOf, NEW col \in Text!ColsOf,
           Text!CursorOn(row, col) \/ Text!CursorOff(row, col)
    PROVE  TextInv'
<1>1. PICK D, L : D = depth /\ L = Text!Stride
    OBVIOUS
<1>2. /\ D \in {1, 4} /\ lost \in BOOLEAN /\ (lost => D = 1) /\ cells \in CellRows /\ ops \in 0..MaxDraws
      /\ ccrow \in Text!RowsOf /\ cccol \in Text!ColsOf
    BY <1>1 DEF TextInv, TextTyped
<1>3. \A p \in PlanesOf(D), r \in Text!RowsOf, x \in 0..(L - 1) : Drawn(D, cells, p, r, x) \in {0, 1}
    BY <1>2, DrawnIsBit
<1>4. CASE Text!CursorOn(row, col)
    <2>1. /\ ~cursor /\ cursor' = TRUE /\ ccrow' = row /\ cccol' = col /\ Text!Inverted(row, col)
          /\ depth' = depth /\ cells' = cells /\ lost' = lost /\ ops' = ops
        BY <1>4 DEF Text!CursorOn
    <2>2. /\ planes' \in [PlanesOf(D) -> Plane]
          /\ \A p \in PlanesOf(D), r \in Text!RowsOf, x \in 0..(L - 1) :
                planes'[p][r][x] = IF r = row /\ x \in Span(col, 1) THEN 1 - planes[p][r][x] ELSE planes[p][r][x]
        BY <1>1, <2>1, InvertedIs
    <2>3. ~lost => \A p \in PlanesOf(D), r \in Text!RowsOf, x \in 0..(L - 1) : planes[p][r][x] = Drawn(D, cells, p, r, x)
        BY <1>1, <2>1, TextNow
    <2>4. TextTyped'
        BY <1>1, <1>2, <2>1, <2>2 DEF TextTyped
    <2>5. ~lost => \A p \in PlanesOf(D), r \in Text!RowsOf, x \in 0..(L - 1) :
              planes'[p][r][x] = IF r = row /\ x \in Span(col, 1) THEN 1 - Drawn(D, cells, p, r, x)
                                 ELSE Drawn(D, cells, p, r, x)
        BY <2>2, <2>3
    <2> QED BY <1>1, <1>2, <2>1, <2>4, <2>5 DEF TextInv
<1>5. CASE Text!CursorOff(row, col)
    <2>1. /\ cursor /\ cursor' = FALSE /\ ccrow' = ccrow /\ cccol' = cccol /\ Text!Inverted(ccrow, cccol)
          /\ depth' = depth /\ cells' = cells /\ lost' = lost /\ ops' = ops
        BY <1>5 DEF Text!CursorOff
    <2>2. /\ planes' \in [PlanesOf(D) -> Plane]
          /\ \A p \in PlanesOf(D), r \in Text!RowsOf, x \in 0..(L - 1) :
                planes'[p][r][x] = IF r = ccrow /\ x \in Span(cccol, 1) THEN 1 - planes[p][r][x] ELSE planes[p][r][x]
        BY <1>1, <1>2, <2>1, InvertedIs
    <2>3. ~lost => \A p \in PlanesOf(D), r \in Text!RowsOf, x \in 0..(L - 1) :
              planes[p][r][x] = IF r = ccrow /\ x \in Span(cccol, 1) THEN 1 - Drawn(D, cells, p, r, x)
                                ELSE Drawn(D, cells, p, r, x)
        BY <1>1, <2>1 DEF TextInv
    <2>4. \A p \in PlanesOf(D), r \in Text!RowsOf, x \in 0..(L - 1) :
              1 - (1 - Drawn(D, cells, p, r, x)) = Drawn(D, cells, p, r, x)
        BY <1>3
    <2>5. ~lost => \A p \in PlanesOf(D), r \in Text!RowsOf, x \in 0..(L - 1) : planes'[p][r][x] = Drawn(D, cells, p, r, x)
        BY <2>2, <2>3, <2>4
    <2>6. TextTyped'
        BY <1>1, <1>2, <2>1, <2>2 DEF TextTyped
    <2> QED BY <1>1, <1>2, <2>1, <2>5, <2>6, ZenonT(60) DEF TextInv
<1> QED BY <1>4, <1>5

LEMMA TextStep == TextInv /\ [Text!Next]_rasterVars => TextInv'
<1> SUFFICES ASSUME TextInv, [Text!Next]_rasterVars PROVE TextInv'
    OBVIOUS
<1>1. CASE UNCHANGED rasterVars
    BY <1>1 DEF rasterVars, TextInv, TextTyped
<1>2. CASE Text!Next
    <2>1. PICK row \in Text!RowsOf, col \in Text!ColsOf :
            \/ \E glyph \in Font, attr \in Attrs : Text!Putchar(row, col, glyph, attr)
            \/ \E num \in 1..(Ncols - col) : Text!EraseCols(row, col, num)
            \/ \E num \in 1..(Nrows - row) : Text!EraseRows(row, num)
            \/ \E dst \in Text!RowsOf : \E n \in 1..(Nrows - (IF dst > row THEN dst ELSE row)) : Text!CopyRows(row, dst, n)
            \/ \E dst \in Text!ColsOf : \E n \in 1..(Ncols - (IF dst > col THEN dst ELSE col)) : Text!CopyCols(row, col, dst, n)
            \/ Text!CursorOn(row, col) \/ Text!CursorOff(row, col)
        BY <1>2 DEF Text!Next
    <2>2. ASSUME NEW glyph \in Font, NEW attr \in Attrs, Text!Putchar(row, col, glyph, attr) PROVE TextInv'
        BY <2>2, PutcharStep
    <2>3. ASSUME NEW num \in 1..(Ncols - col), Text!EraseCols(row, col, num) PROVE TextInv'
        BY <2>3, EraseColsStep
    <2>4. ASSUME NEW num \in 1..(Nrows - row), Text!EraseRows(row, num) PROVE TextInv'
        BY <2>4, EraseRowsStep
    <2>5. ASSUME NEW dst \in Text!RowsOf, NEW n \in 1..(Nrows - (IF dst > row THEN dst ELSE row)), Text!CopyRows(row, dst, n)
          PROVE TextInv'
        <3>1. n \in Nat /\ row + n <= Nrows /\ dst + n <= Nrows
            BY TextSizes DEF Text!RowsOf
        <3> QED BY <2>5, <3>1, CopyRowsStep
    <2>6. ASSUME NEW dst \in Text!ColsOf, NEW n \in 1..(Ncols - (IF dst > col THEN dst ELSE col)), Text!CopyCols(row, col, dst, n)
          PROVE TextInv'
        <3>1. n \in Nat /\ col + n <= Ncols /\ dst + n <= Ncols
            BY TextSizes DEF Text!ColsOf
        <3> QED BY <2>6, <3>1, CopyColsStep
    <2>7. CASE Text!CursorOn(row, col) \/ Text!CursorOff(row, col)
        BY <2>7, CursorSteps
    <2> QED BY <2>1, <2>2, <2>3, <2>4, <2>5, <2>6, <2>7
<1> QED BY <1>1, <1>2

-----------------------------------------------------------------------------
(* The colour map: FrameBuffer                                             *)

(***************************************************************************)
(* Once the device is configured the probe has been made: the driver knows *)
(* the planes of the board, and the depth is one of those it can show.     *)
(***************************************************************************)
Probed ==
    /\ checked => hwplanebits = board
    /\ fbstate # "none" =>
          /\ checked
          /\ dcdepth \in {1, 4, 8} /\ dcdepth <= board
          /\ cmsize = Display!Cmsize(dcdepth)

(***************************************************************************)
(* The two maps never differ, also beyond the entries of the current depth *)
(* and before the first configuration: a change of depth may bring those   *)
(* entries back.                                                           *)
(***************************************************************************)
MapInv == board \in {1, 4, 8} /\ Probed /\ soft = dac

\* a colour map can be set only on a board that has one
LEMMA MapIsShown ==
    ASSUME MapInv, fbstate = "attached", cmsize # 0 PROVE hwplanebits # 1
<1>1. dcdepth # 1
    BY DEF MapInv, Probed, Display!Cmsize
<1>2. hwplanebits = board /\ dcdepth \in {4, 8} /\ dcdepth <= board
    BY <1>1 DEF MapInv, Probed
<1> QED BY <1>2 DEF MapInv

LEMMA ConfigureStep ==
    ASSUME MapInv, Display!Getdevconfig, board' = board
    PROVE  Probed' /\ soft' = dac'
<1>1. Display!Probe = board
    BY DEF MapInv, Probed, Display!Probe
<1>2. hwplanebits' = board /\ checked' /\ dcdepth' = board /\ cmsize' = Display!Cmsize(board)
    BY <1>1 DEF Display!Getdevconfig
<1>3. Probed'
    BY <1>2 DEF MapInv, Probed, Display!Cmsize, Display!Entries
<1>4. soft' = dac'
    BY DEF MapInv, Display!Getdevconfig, Display!DefaultCmap
<1> QED BY <1>3, <1>4

LEMMA DepthStep == ASSUME MapInv, Display!SetGfxmode PROVE MapInv'
<1>1. PICK d \in {1, 4, 8} :
          /\ fbstate = "attached" /\ (d = 4 => hwplanebits # 1) /\ (d = 8 => hwplanebits = 8)
          /\ dcdepth' = d /\ cmsize' = Display!Cmsize(d) /\ Display!DefaultCmap(hwplanebits, d)
          /\ UNCHANGED <<board, hwplanebits, checked, fbstate>>
    <2>1. fbstate = "attached" /\ hwplanebits \in {1, 4, 8}
        BY DEF Display!SetGfxmode, MapInv, Probed
    <2> QED BY <2>1 DEF Display!SetGfxmode
<1>2. hwplanebits = board /\ board \in {1, 4, 8} /\ checked
    BY <1>1 DEF MapInv, Probed
<1>3. d <= board
    BY <1>1, <1>2
<1>4. Probed'
    BY <1>1, <1>2, <1>3 DEF Probed, Display!Cmsize, Display!Entries
<1>5. soft' = dac'
    BY <1>1 DEF MapInv, Display!DefaultCmap
<1> QED BY <1>1, <1>2, <1>4, <1>5 DEF MapInv

LEMMA PutcmapStep == ASSUME MapInv, Display!Omsetcmap PROVE MapInv'
<1>1. fbstate = "attached" /\ cmsize # 0
    BY DEF Display!Omsetcmap, Display!Allowed
<1>2. hwplanebits # 1
    BY <1>1, MapIsShown
<1>3. soft' = dac'
    BY <1>2 DEF Display!Omsetcmap, MapInv
<1> QED BY <1>3 DEF Display!Omsetcmap, MapInv, Probed, Display!Cmsize, Display!Entries

LEMMA MapInit == Display!Init => MapInv
BY DEF Display!Init, MapInv, Probed

LEMMA MapStep == MapInv /\ [Display!Next]_fbVars => MapInv'
<1> SUFFICES ASSUME MapInv, [Display!Next]_fbVars PROVE MapInv'
    OBVIOUS
<1>1. CASE Display!OmfbCnattach
    BY <1>1, ConfigureStep DEF Display!OmfbCnattach, MapInv
<1>2. CASE Display!Omfbattach
    <2>1. CASE fbstate = "console"
        BY <1>2, <2>1 DEF Display!Omfbattach, MapInv, Probed, Display!Cmsize, Display!Entries
    <2>2. CASE fbstate # "console"
        BY <1>2, <2>2, ConfigureStep DEF Display!Omfbattach, MapInv
    <2> QED BY <2>1, <2>2
<1>3. CASE Display!AllocScreen \/ Display!FreeScreen \/ Display!Omgetcmap \/ UNCHANGED fbVars
    BY <1>3 DEF Display!AllocScreen, Display!FreeScreen, Display!Omgetcmap, fbVars, MapInv, Probed,
                Display!Cmsize, Display!Entries
<1>4. CASE Display!Omsetcmap
    BY <1>4, PutcmapStep
<1>5. CASE Display!SetGfxmode
    BY <1>5, DepthStep
<1> QED BY <1>1, <1>2, <1>3, <1>4, <1>5 DEF Display!Next

LEMMA MapAgrees == MapInv => CopyIsShown
BY DEF MapInv, Probed, CopyIsShown, Display!CopyIsShown

\* the entries of a map are colours
LEMMA ColoursTyped ==
    /\ <<"unset", 0>> \in Display!Colour /\ \A c \in Colours : <<"set", c>> \in Display!Colour
    /\ \A d, i : i \in Display!Slot => Display!Default(d, i) \in Display!Colour
<1>1. ASSUME NEW i \in Display!Slot PROVE i % 2 \in {0, 1} /\ i % Size4 \in 0..Size4 - 1
    <2>1. i \in Nat
        BY DisplayAssumption DEF Display!Slot
    <2> QED BY <2>1, DisplayAssumption
<1>2. ASSUME NEW d, NEW i \in Display!Slot PROVE Display!Default(d, i) \in Display!Colour
    BY <1>1 DEF Display!Default, Display!Colour
<1> QED BY <1>2 DEF Display!Colour

LEMMA DisplayTyped == Display!TypeOK /\ [Display!Next]_fbVars => Display!TypeOK'
<1> SUFFICES ASSUME Display!TypeOK, [Display!Next]_fbVars PROVE Display!TypeOK'
    OBVIOUS
<1> DEFINE Mapped == \A i \in Display!Slot : {soft[i]} \cup {dac[i]} \subseteq Display!Colour
           Rest   == /\ {board, hwplanebits} \subseteq {1, 4, 8} /\ dcdepth \in {0, 1, 4, 8}
                     /\ fbstate \in {"none", "console", "attached"} /\ checked \in BOOLEAN
                     /\ cmsize \in {0, Size4, Size8} /\ nscreens \in 0..1
<1>0. Mapped /\ Rest
    BY DEF Display!TypeOK
<1>1. ASSUME NEW bits, NEW d, Display!DefaultCmap(bits, d) PROVE Mapped'
    <2>1. ASSUME NEW i \in Display!Slot PROVE soft'[i] \in Display!Colour /\ dac'[i] \in Display!Colour
        <3>1. Display!Default(d, i) \in Display!Colour
            BY ColoursTyped
        <3> QED BY <1>0, <1>1, <3>1 DEF Display!DefaultCmap
    <2> QED BY <2>1
<1>2. CASE Display!Omsetcmap
    <2>1. PICK index \in Display!Slot, count \in 0..Size8, c \in Colours, bad \in BOOLEAN :
             /\ soft' = [i \in Display!Slot |->
                           IF ~bad /\ i \in Display!Part(index, count) THEN <<"set", c>> ELSE soft[i]]
             /\ dac'  = [i \in Display!Slot |->
                           IF ~bad /\ hwplanebits # 1 /\ i \in Display!Part(index, count) THEN soft'[i] ELSE dac[i]]
        BY <1>2 DEF Display!Omsetcmap
    <2>2. ASSUME NEW i \in Display!Slot PROVE soft'[i] \in Display!Colour
        BY <1>0, <2>1, ColoursTyped
    <2>3. ASSUME NEW i \in Display!Slot PROVE dac'[i] \in Display!Colour
        BY <1>0, <2>1, <2>2
    <2>4. Mapped'
        BY <2>2, <2>3
    <2>5. Rest'
        BY <1>0, <1>2 DEF Display!Omsetcmap
    <2> QED BY <2>4, <2>5 DEF Display!TypeOK
<1>3. ASSUME Display!Getdevconfig PROVE Mapped' /\ {hwplanebits'} \subseteq {1, 4, 8} /\ checked' \in BOOLEAN
                                /\ dcdepth' \in {0, 1, 4, 8} /\ cmsize' \in {0, Size4, Size8}
    <2>1. Display!Probe \in {1, 4, 8}
        BY <1>0 DEF Display!Probe
    <2>2. Mapped'
        BY <1>1, <1>3 DEF Display!Getdevconfig
    <2> HIDE DEF Mapped
    <2> QED BY <1>3, <2>1, <2>2 DEF Display!Getdevconfig, Display!Cmsize, Display!Entries
<1>4. CASE Display!OmfbCnattach
    <2>1. Mapped'
        BY <1>3, <1>4 DEF Display!OmfbCnattach
    <2>2. Rest'
        BY <1>0, <1>3, <1>4 DEF Display!OmfbCnattach
    <2> QED BY <2>1, <2>2 DEF Display!TypeOK
<1>5. CASE Display!Omfbattach
    <2>1. Mapped'
        BY <1>0, <1>3, <1>5 DEF Display!Omfbattach
    <2>2. Rest'
        BY <1>0, <1>3, <1>5 DEF Display!Omfbattach
    <2> QED BY <2>1, <2>2 DEF Display!TypeOK
<1>6. CASE Display!SetGfxmode
    <2>1. Mapped'
        BY <1>1, <1>6 DEF Display!SetGfxmode
    <2>2. Rest'
        BY <1>0, <1>6 DEF Display!SetGfxmode, Display!Cmsize, Display!Entries
    <2> QED BY <2>1, <2>2 DEF Display!TypeOK
<1>7. CASE Display!AllocScreen \/ Display!FreeScreen \/ Display!Omgetcmap \/ UNCHANGED fbVars
    <2>1. UNCHANGED <<soft, dac>>
        BY <1>7 DEF Display!AllocScreen, Display!FreeScreen, Display!Omgetcmap, fbVars
    <2>2. Rest'
        BY <1>0, <1>7 DEF Display!AllocScreen, Display!FreeScreen, Display!Omgetcmap, fbVars
    <2> QED BY <1>0, <2>1, <2>2 DEF Display!TypeOK
<1> QED BY <1>2, <1>4, <1>5, <1>6, <1>7 DEF Display!Next

LEMMA DisplayInit == Display!Init => Display!TypeOK
<1> SUFFICES ASSUME Display!Init PROVE Display!TypeOK
    OBVIOUS
<1>1. \A i \in Display!Slot : {soft[i]} \cup {dac[i]} \subseteq Display!Colour
    <2>1. \A i \in Display!Slot : soft[i] = <<"unset", 0>> /\ dac[i] = <<"unset", 0>>
        BY DEF Display!Init
    <2> QED BY <2>1, ColoursTyped
<1>2. checked \in BOOLEAN
    BY DEF Display!Init
<1> QED BY <1>1, <1>2 DEF Display!Init, Display!TypeOK

-----------------------------------------------------------------------------
(* The keyboard and the mouse: Lunaws                                      *)

(***************************************************************************)
(* What may come after how much of a report, and in the line: each byte    *)
(* that is not damaged goes on where the one before it ended.              *)
(***************************************************************************)
Continues(at, is) ==
    \/ at = 0 /\ is \in {"key", "buttons"}
    \/ at = 1 /\ is = "dx"
    \/ at = 2 /\ is = "dy"

Looks(b) == b.look = "first" <=> b.is = "buttons"

LineInv ==
    /\ \A i \in 1..Len(line) : Looks(line[i].b)
    /\ \A i \in 1..Len(line) - 1 :
          ~line[i + 1].err =>
             /\ Continues(Keys!After(line[i].b), line[i + 1].b.is)
             /\ Keys!After(line[i].b) # 0 => line[i + 1].b.of = line[i].b.of
    /\ Len(line) # 0 =>
          /\ Keys!After(line[Len(line)].b) = sending.part
          /\ sending.part # 0 => line[Len(line)].b.of = sending.of
          /\ ~line[1].err => Continues(pos, line[1].b.is)
    /\ Len(line) = 0 => pos = sending.part

(***************************************************************************)
(* The driver is right about the report when it has counted what was read, *)
(* has the beginning of the report, and the rest is of the same one.       *)
(***************************************************************************)
Counted ==
    /\ msreport = pos
    /\ msreport # 0 =>
          /\ report[1].is = "buttons"
          /\ Len(line) = 0 => sending.of = report[1].of
          /\ Len(line) # 0 /\ ~line[1].err => line[1].b.of = report[1].of
    /\ msreport = 2 => report[2].is = "dx" /\ report[2].of = report[1].of

(***************************************************************************)
(* What the driver may still make up before it is right: by how much it    *)
(* has counted and what it has read.                                       *)
(***************************************************************************)
Budget ==
    CASE msreport = 0 -> (IF pos = 0 THEN 0 ELSE 3 - pos)
      [] msreport # 0 /\ msreport = pos -> (IF Counted THEN 0 ELSE 1)
      [] msreport = 2 /\ pos = 1 -> 2
      [] OTHER -> 3

KeysInv ==
    /\ Keys!TypeOK /\ LineInv
    /\ lies + Budget <= 3 /\ (~faulted => lies = 0 /\ Budget = 0)

LEMMA LineAppended ==
    ASSUME NEW S, NEW L \in Seq(S), NEW c \in S
    PROVE  /\ Append(L, c) \in Seq(S) /\ Len(Append(L, c)) = Len(L) + 1
           /\ \A i \in 1..Len(L) : Append(L, c)[i] = L[i]
           /\ Append(L, c)[Len(L) + 1] = c
OBVIOUS

LEMMA LineReplaced ==
    ASSUME NEW S, NEW L \in Seq(S), NEW n \in 1..Len(L), NEW c \in S
    PROVE  /\ [L EXCEPT ![n] = c] \in Seq(S) /\ Len([L EXCEPT ![n] = c]) = Len(L)
           /\ [L EXCEPT ![n] = c][n] = c /\ \A i \in 1..Len(L) : i # n => [L EXCEPT ![n] = c][i] = L[i]
OBVIOUS

LEMMA LineTail ==
    ASSUME NEW S, NEW L \in Seq(S), L # <<>>
    PROVE  /\ Len(L) \in Nat \ {0} /\ Head(L) = L[1] /\ Head(L) \in S /\ Tail(L) \in Seq(S)
           /\ Len(Tail(L)) = Len(L) - 1 /\ \A i \in 1..Len(L) - 1 : Tail(L)[i] = L[i + 1]
OBVIOUS

Received == [b : Keys!Byte, err : BOOLEAN]

LEMMA KeysFacts ==
    ASSUME KeysInv
    PROVE  /\ line \in Seq(Received) /\ Len(line) \in Nat /\ Len(line) <= Fifo /\ Fifo \in Nat \ {0}
           /\ \A i \in 1..Len(line) : line[i] \in Received
           /\ sending \in [part : 0..2, of : {0, 1}] /\ pos \in 0..2 /\ msreport \in 0..2
           /\ report \in Seq(Keys!Byte) /\ Len(report) = msreport /\ lies \in 0..9
           /\ reporting \in BOOLEAN /\ asked \in BOOLEAN /\ reset \in BOOLEAN /\ faulted \in BOOLEAN
<1>1. line \in Seq(Received) /\ Len(line) <= Fifo
    BY DEF KeysInv, Keys!TypeOK, Received
<1>2. Len(line) \in Nat /\ \A i \in 1..Len(line) : line[i] \in Received
    BY <1>1
<1> QED BY <1>1, <1>2, KeysAssumption DEF KeysInv, Keys!TypeOK

LEMMA BytesAfter ==
    ASSUME NEW b \in Keys!Byte
    PROVE  /\ b.is \in {"key", "buttons", "dx", "dy"} /\ b.of \in {0, 1}
           /\ Keys!After(b) = IF b.is = "buttons" THEN 1 ELSE IF b.is = "dx" THEN 2 ELSE 0
BY DEF Keys!Byte, Keys!After

\* a byte that is sent goes on in the line where the unit is
LEMMA SentStep ==
    ASSUME KeysInv, NEW b \in Keys!Byte, Keys!Sends(b), Looks(b),
           Continues(sending.part, b.is), sending.part # 0 => b.of = sending.of,
           Keys!After(b) = sending'.part, sending'.part # 0 => b.of = sending'.of,
           UNCHANGED <<msreport, report, pos>>
    PROVE  /\ line' \in Seq(Received) /\ Len(line') <= Fifo
           /\ LineInv' /\ (Counted => Counted')
<1>0. PICK n : n = Len(line)
    OBVIOUS
<1>1. /\ line \in Seq(Received) /\ n \in Nat /\ n <= Fifo /\ Fifo \in Nat \ {0}
      /\ (\A i \in 1..n : line[i] \in Received) /\ LineInv
    BY <1>0, KeysFacts DEF KeysInv
<1>2. PICK err \in BOOLEAN :
         IF n < Fifo THEN line' = Append(line, [b |-> b, err |-> err])
         ELSE line' = [line EXCEPT ![Fifo] = [b |-> b, err |-> TRUE]]
    BY <1>0 DEF Keys!Sends
<1>3. CASE n < Fifo
    <2>1. PICK e : e = [b |-> b, err |-> err]
        OBVIOUS
    <2>2. e \in Received /\ e.b = b /\ e.err = err
        BY <2>1 DEF Received
    <2>3. /\ line' \in Seq(Received) /\ Len(line') = n + 1 /\ line'[n + 1] = e
          /\ \A i \in 1..n : line'[i] = line[i]
        BY <1>0, <1>1, <1>2, <1>3, <2>1, <2>2, LineAppended
    <2>4. \A i \in 1..n + 1 : Looks(line'[i].b)
        BY <1>0, <1>1, <2>2, <2>3 DEF LineInv
    <2>5. ASSUME NEW i \in 1..n, ~line'[i + 1].err
          PROVE  /\ Continues(Keys!After(line'[i].b), line'[i + 1].b.is)
                 /\ Keys!After(line'[i].b) # 0 => line'[i + 1].b.of = line'[i].b.of
        <3>1. CASE i < n
            <4>1. i \in 1..n - 1 /\ i + 1 \in 1..n /\ line'[i] = line[i] /\ line'[i + 1] = line[i + 1]
                BY <1>1, <2>3, <3>1
            <4> QED BY <1>0, <1>1, <2>5, <4>1 DEF LineInv
        <3>2. CASE i = n
            <4>1. line'[i] = line[n] /\ line'[i + 1] = e /\ n # 0
                BY <1>1, <2>3, <3>2
            <4>2. Keys!After(line[n].b) = sending.part /\ (sending.part # 0 => line[n].b.of = sending.of)
                BY <1>0, <1>1, <4>1 DEF LineInv
            <4> QED BY <2>2, <4>1, <4>2
        <3> QED BY <1>1, <3>1, <3>2
    <2>6. Keys!After(line'[n + 1].b) = sending'.part /\ (sending'.part # 0 => line'[n + 1].b.of = sending'.of)
        BY <2>2, <2>3
    <2>7. ~line'[1].err => Continues(pos, line'[1].b.is)
        <3>1. CASE n = 0
            BY <1>0, <1>1, <2>2, <2>3, <3>1 DEF LineInv
        <3>2. CASE n # 0
            BY <1>0, <1>1, <2>3, <3>2 DEF LineInv
        <3> QED BY <3>1, <3>2
    <2>8. LineInv'
        <3>1. /\ \A i \in 1..Len(line') : Looks(line'[i].b)
              /\ \A i \in 1..Len(line') - 1 :
                    ~line'[i + 1].err =>
                       /\ Continues(Keys!After(line'[i].b), line'[i + 1].b.is)
                       /\ Keys!After(line'[i].b) # 0 => line'[i + 1].b.of = line'[i].b.of
            BY <1>1, <2>3, <2>4, <2>5
        <3> QED BY <1>1, <2>3, <2>6, <2>7, <3>1 DEF LineInv, Looks, Keys!After, Continues
    <2>9. ASSUME Counted PROVE Counted'
        <3>1. CASE n = 0
            <4>1. msreport # 0 => sending.part # 0 /\ sending.of = report[1].of
                BY <1>0, <1>1, <2>9, <3>1 DEF Counted, LineInv
            <4>2. msreport # 0 => line'[1].b.of = report[1].of
                BY <2>2, <2>3, <3>1, <4>1
            <4> QED BY <1>1, <2>3, <2>9, <3>1, <4>2 DEF Counted
        <3>2. CASE n # 0
            <4>1. line'[1] = line[1] /\ Len(line) # 0 /\ Len(line') # 0
                BY <1>0, <1>1, <2>3, <3>2
            <4> QED BY <2>9, <4>1 DEF Counted
        <3> QED BY <3>1, <3>2
    <2> QED BY <1>1, <1>3, <2>3, <2>8, <2>9
<1>4. CASE n >= Fifo
    <2>1. PICK e : e = [b |-> b, err |-> TRUE]
        OBVIOUS
    <2>2. e \in Received /\ e.b = b /\ e.err
        BY <2>1 DEF Received
    <2>3. n = Fifo /\ line' = [line EXCEPT ![n] = e]
        BY <1>1, <1>2, <1>4, <2>1
    <2>4. /\ line' \in Seq(Received) /\ Len(line') = n /\ line'[n] = e /\ n >= 1
          /\ \A i \in 1..n - 1 : line'[i] = line[i]
        <3>1. n \in 1..Len(line)
            BY <1>0, <1>1, <2>3
        <3>2. /\ line' \in Seq(Received) /\ Len(line') = Len(line) /\ line'[n] = e
              /\ \A i \in 1..Len(line) : i # n => line'[i] = line[i]
            BY <1>1, <2>2, <2>3, <3>1, LineReplaced
        <3> QED BY <1>0, <1>1, <2>3, <3>2
    <2>5. \A i \in 1..n : Looks(line'[i].b)
        BY <1>0, <1>1, <2>2, <2>4 DEF LineInv
    <2>6. ASSUME NEW i \in 1..n - 1, ~line'[i + 1].err
          PROVE  /\ Continues(Keys!After(line'[i].b), line'[i + 1].b.is)
                 /\ Keys!After(line'[i].b) # 0 => line'[i + 1].b.of = line'[i].b.of
        <3>1. i + 1 # n
            BY <2>2, <2>4, <2>6
        <3>2. i + 1 \in 1..n - 1 /\ line'[i] = line[i] /\ line'[i + 1] = line[i + 1]
            BY <1>1, <2>4, <3>1
        <3> QED BY <1>0, <1>1, <2>6, <3>2 DEF LineInv
    <2>7. ~line'[1].err => line'[1] = line[1]
        BY <1>1, <2>2, <2>4
    <2>8. LineInv'
        <3>1. /\ \A i \in 1..Len(line') : Looks(line'[i].b)
              /\ \A i \in 1..Len(line') - 1 :
                    ~line'[i + 1].err =>
                       /\ Continues(Keys!After(line'[i].b), line'[i + 1].b.is)
                       /\ Keys!After(line'[i].b) # 0 => line'[i + 1].b.of = line'[i].b.of
            BY <2>4, <2>5, <2>6
        <3>2. ~line'[1].err => Continues(pos, line'[1].b.is)
            BY <1>0, <1>1, <2>4, <2>7 DEF LineInv
        <3>3. Keys!After(line'[n].b) = sending'.part /\ (sending'.part # 0 => line'[n].b.of = sending'.of)
            BY <2>2, <2>4
        <3> QED BY <1>1, <2>4, <3>1, <3>2, <3>3 DEF LineInv, Looks, Keys!After, Continues
    <2>9. Counted => Counted'
        <3>1. Len(line) # 0 /\ Len(line') # 0
            BY <1>0, <1>1, <2>4
        <3> QED BY <2>7, <3>1 DEF Counted
    <2> QED BY <1>1, <2>4, <2>8, <2>9
<1> QED BY <1>1, <1>3, <1>4

\* a byte that is read leaves the next one to be read, which goes on where it ended
LEMMA ReadLine ==
    ASSUME KeysInv, line # <<>>, NEW b, b = Head(line).b,
           line' = Tail(line), pos' = Keys!After(b), UNCHANGED sending
    PROVE  /\ b \in Keys!Byte /\ Looks(b) /\ b = line[1].b /\ Head(line) = line[1] /\ Head(line).err \in BOOLEAN
           /\ Len(line) # 0 /\ line' \in Seq(Received) /\ Len(line') <= Fifo /\ LineInv' /\ pos' \in 0..2
           /\ ~Head(line).err => Continues(pos, b.is)
           /\ Len(line') = 0 /\ pos' # 0 => sending.of = b.of
           /\ Len(line') # 0 /\ pos' # 0 /\ ~line'[1].err => line'[1].b.of = b.of
<1>0. PICK n : n = Len(line)
    OBVIOUS
<1>1. /\ line \in Seq(Received) /\ n \in Nat \ {0} /\ n <= Fifo /\ Fifo \in Nat \ {0} /\ LineInv
      /\ (\A i \in 1..n : line[i] \in Received)
      /\ Head(line) = line[1] /\ Tail(line) \in Seq(Received) /\ Len(Tail(line)) = n - 1
      /\ \A i \in 1..n - 1 : Tail(line)[i] = line[i + 1]
    <2>1. /\ line \in Seq(Received) /\ LineInv /\ n <= Fifo /\ Fifo \in Nat \ {0}
          /\ \A i \in 1..n : line[i] \in Received
        BY <1>0, KeysFacts DEF KeysInv
    <2> QED BY <1>0, <2>1, LineTail
<1>2. b \in Keys!Byte /\ b = line[1].b /\ Looks(b) /\ Head(line).err \in BOOLEAN
    <2>1. line[1] \in Received
        BY <1>1
    <2> QED BY <1>0, <1>1, <2>1 DEF Received, LineInv
<1>3. pos' \in 0..2
    BY <1>2, BytesAfter
<1>4. /\ line' \in Seq(Received) /\ Len(line') = n - 1 /\ \A i \in 1..n - 1 : line'[i] = line[i + 1]
    BY <1>1
<1>5. n = 1 => pos' = sending.part /\ (sending.part # 0 => b.of = sending.of)
    BY <1>0, <1>1, <1>2 DEF LineInv
<1>6. n # 1 => /\ ~line'[1].err => Continues(pos', line'[1].b.is) /\ (pos' # 0 => line'[1].b.of = b.of)
               /\ line'[n - 1] = line[n]
    <2> SUFFICES ASSUME n # 1
                 PROVE  /\ ~line'[1].err => Continues(pos', line'[1].b.is) /\ (pos' # 0 => line'[1].b.of = b.of)
                        /\ line'[n - 1] = line[n]
        OBVIOUS
    <2>1. 1 \in 1..n - 1 /\ n - 1 \in 1..n - 1 /\ line'[1] = line[1 + 1] /\ line'[n - 1] = line[n]
        BY <1>1, <1>4
    <2> QED BY <1>0, <1>1, <1>2, <2>1 DEF LineInv
<1>7. LineInv'
    <2>1. \A i \in 1..n - 1 : Looks(line'[i].b)
        <3>1. \A i \in 1..n - 1 : i + 1 \in 1..n /\ line'[i] = line[i + 1]
            BY <1>1, <1>4
        <3> QED BY <1>0, <1>1, <3>1 DEF LineInv
    <2>2. ASSUME NEW i \in 1..(n - 1) - 1, ~line'[i + 1].err
          PROVE  /\ Continues(Keys!After(line'[i].b), line'[i + 1].b.is)
                 /\ Keys!After(line'[i].b) # 0 => line'[i + 1].b.of = line'[i].b.of
        <3>1. i + 1 \in 1..n - 1 /\ i \in 1..n - 1 /\ line'[i] = line[i + 1] /\ line'[i + 1] = line[(i + 1) + 1]
            BY <1>1, <1>4
        <3> QED BY <1>0, <1>1, <2>2, <3>1 DEF LineInv
    <2>3. n - 1 # 0 =>
            /\ Keys!After(line'[n - 1].b) = sending.part
            /\ sending.part # 0 => line'[n - 1].b.of = sending.of
            /\ ~line'[1].err => Continues(pos', line'[1].b.is)
        BY <1>0, <1>1, <1>6 DEF LineInv
    <2>4. n - 1 = 0 => pos' = sending.part
        BY <1>1, <1>5
    <2> QED BY <1>4, <2>1, <2>2, <2>3, <2>4 DEF LineInv, Looks, Keys!After, Continues
<1>8. ~Head(line).err => Continues(pos, b.is)
    BY <1>0, <1>1, <1>2 DEF LineInv
<1> QED BY <1>0, <1>1, <1>2, <1>3, <1>4, <1>5, <1>6, <1>7, <1>8

\* a byte that was not damaged and is counted: what it makes the driver make up is
\* taken from what it still may make up
LEMMA TakeStep ==
    ASSUME KeysInv, line # <<>>, NEW b, b = Head(line).b, ~Head(line).err,
           line' = Tail(line), pos' = Keys!After(b), UNCHANGED sending, Keys!Take(b)
    PROVE  /\ msreport' \in 0..2 /\ report' \in Seq(Keys!Byte) /\ Len(report') = msreport' /\ lies' \in 0..9
           /\ faulted' = faulted /\ lies' + Budget' <= lies + Budget
<1>1. /\ b \in Keys!Byte /\ Looks(b) /\ b = line[1].b /\ Head(line) = line[1] /\ Len(line) # 0
      /\ Continues(pos, b.is) /\ pos' \in 0..2
      /\ Len(line') = 0 /\ pos' # 0 => sending.of = b.of
      /\ Len(line') # 0 /\ pos' # 0 /\ ~line'[1].err => line'[1].b.of = b.of
    BY ReadLine
<1>2. /\ msreport \in 0..2 /\ pos \in 0..2 /\ report \in Seq(Keys!Byte) /\ Len(report) = msreport /\ lies \in 0..9
    BY KeysFacts
<1>3. /\ b.is \in {"key", "buttons", "dx", "dy"}
      /\ pos' = IF b.is = "buttons" THEN 1 ELSE IF b.is = "dx" THEN 2 ELSE 0
      /\ b.look = "first" <=> b.is = "buttons"
    BY <1>1, BytesAfter DEF Looks
<1>4. ASSUME NEW sent, Keys!Passes(sent)
      PROVE  faulted' = faulted /\ lies' \in 0..9 /\ lies' <= lies + 1 /\ (sent => lies' = lies)
    BY <1>2, <1>4 DEF Keys!Passes
<1>5. CASE msreport = 0 /\ b.look # "first" /\ Keys!OmkbdInput(b)
    <2>1. /\ faulted' = faulted /\ lies' \in 0..9 /\ lies' <= lies + 1 /\ (b.is = "key" => lies' = lies)
          /\ msreport' = 0 /\ report' = report
        BY <1>4, <1>5 DEF Keys!OmkbdInput
    <2>2. Budget = IF pos = 0 THEN 0 ELSE 3 - pos
        BY <1>5 DEF Budget
    <2>3. Budget' = IF pos' = 0 THEN 0 ELSE 3 - pos'
        BY <2>1 DEF Budget
    <2>4. lies' + Budget' <= lies + Budget
        <3>1. b.is # "buttons"
            BY <1>3, <1>5
        <3>2. pos = 0 => b.is = "key" /\ pos' = 0
            BY <1>1, <1>3, <3>1 DEF Continues
        <3>3. pos = 1 => pos' = 2
            BY <1>1, <1>3 DEF Continues
        <3>4. pos = 2 => pos' = 0
            BY <1>1, <1>3 DEF Continues
        <3>5. CASE pos = 0
            BY <1>2, <2>1, <2>2, <2>3, <3>2, <3>5
        <3>6. CASE pos # 0
            BY <1>2, <2>1, <2>2, <2>3, <3>3, <3>4, <3>6
        <3> QED BY <3>5, <3>6
    <2> QED BY <1>2, <1>5, <2>1, <2>4
<1>6. CASE msreport = 0 /\ b.look = "first" /\ msreport' = 1 /\ report' = <<b>> /\ Keys!Quiet
    <2>1. pos = 0 /\ b.is = "buttons" /\ pos' = 1
        BY <1>1, <1>3, <1>6 DEF Continues
    <2>2. report' \in Seq(Keys!Byte) /\ Len(report') = 1 /\ report'[1] = b
        BY <1>1, <1>6
    <2>3. Counted'
        <3>1. msreport' = pos' /\ pos' # 0 /\ msreport' # 2
            BY <1>6, <2>1
        <3>2. report'[1].is = "buttons" /\ report'[1].of = b.of
            BY <2>1, <2>2
        <3>3. Len(line') = 0 => sending'.of = report'[1].of
            BY <1>1, <3>1, <3>2
        <3>4. Len(line') # 0 /\ ~line'[1].err => line'[1].b.of = report'[1].of
            BY <1>1, <3>1, <3>2, Zenon
        <3> QED BY <3>1, <3>2, <3>3, <3>4, Zenon DEF Counted
    <2>4. Budget' = 0 /\ Budget = 0
        BY <1>6, <2>1, <2>3 DEF Budget
    <2> QED BY <1>2, <1>6, <2>2, <2>4 DEF Keys!Quiet
<1>7. CASE msreport = 1 /\ msreport' = 2 /\ report' = Append(report, b) /\ Keys!Quiet
    <2>1. report' \in Seq(Keys!Byte) /\ Len(report') = 2 /\ report'[1] = report[1] /\ report'[2] = b
        <3>1. /\ report' \in Seq(Keys!Byte) /\ Len(report') = Len(report) + 1
              /\ \A i \in 1..Len(report) : report'[i] = report[i]
              /\ report'[Len(report) + 1] = b
            <4>1. PICK r : r = Append(report, b)
                OBVIOUS
            <4>2. /\ r \in Seq(Keys!Byte) /\ Len(r) = Len(report) + 1
                  /\ \A i \in 1..Len(report) : r[i] = report[i]
                  /\ r[Len(report) + 1] = b
                BY <1>1, <1>2, <4>1, LineAppended
            <4> QED BY <1>7, <4>1, <4>2
        <3>2. Len(report) = 1 /\ 1 \in 1..1 /\ 1 + 1 = 2
            BY <1>2, <1>7
        <3> QED BY <3>1, <3>2
    <2>2. CASE pos = 1
        <3>1. b.is = "dx" /\ pos' = 2
            BY <1>1, <1>3, <2>2 DEF Continues
        <3>2. ASSUME Counted PROVE Counted'
            <4>1. b.of = report[1].of /\ report[1].is = "buttons"
                BY <1>1, <1>7, <3>2 DEF Counted
            <4> QED BY <1>1, <1>7, <2>1, <3>1, <4>1 DEF Counted
        <3>3. Budget' <= Budget
            BY <1>7, <2>2, <3>1, <3>2 DEF Budget
        <3>4. Budget \in 0..3 /\ Budget' \in 0..3
            BY <1>7, <2>2, <3>1 DEF Budget
        <3> QED BY <1>2, <1>7, <2>1, <3>3, <3>4 DEF Keys!Quiet
    <2>3. CASE pos # 1
        <3>1. Budget = 3
            BY <1>7, <2>3 DEF Budget
        <3>2. Budget' \in 0..3
            BY <1>1, <1>7 DEF Budget
        <3> QED BY <1>2, <1>7, <2>1, <3>1, <3>2 DEF Keys!Quiet
    <2> QED BY <2>2, <2>3
<1>8. CASE msreport = 2 /\ msreport' = 0 /\ report' = <<>> /\ Keys!Passes(Keys!Whole(Append(report, b)))
    <2>1. /\ faulted' = faulted /\ lies' \in 0..9 /\ lies' <= lies + 1
          /\ Keys!Whole(Append(report, b)) => lies' = lies
        BY <1>4, <1>8
    <2>2. Budget' = IF pos' = 0 THEN 0 ELSE 3 - pos'
        BY <1>8 DEF Budget
    <2>3. CASE pos = 2
        <3>1. b.is = "dy" /\ pos' = 0
            BY <1>1, <1>3, <2>3 DEF Continues
        <3>2. CASE Counted
            <4>1. PICK r : r = Append(report, b)
                OBVIOUS
            <4>2. r[1] = report[1] /\ r[2] = report[2] /\ r[3] = b
                <5>1. /\ \A i \in 1..Len(report) : r[i] = report[i]
                      /\ r[Len(report) + 1] = b
                    BY <1>1, <1>2, <4>1, LineAppended
                <5>2. Len(report) = 2 /\ 1 \in 1..2 /\ 2 \in 1..2 /\ 2 + 1 = 3
                    BY <1>2, <1>8
                <5> QED BY <5>1, <5>2
            <4>3. /\ report[1].is = "buttons" /\ report[2].is = "dx"
                  /\ report[2].of = report[1].of /\ b.of = report[1].of
                BY <1>1, <1>8, <3>2 DEF Counted
            <4>4. Keys!Whole(r)
                BY <3>1, <4>2, <4>3 DEF Keys!Whole
            <4> QED BY <1>2, <1>8, <2>1, <2>2, <2>3, <3>1, <3>2, <4>1, <4>4 DEF Budget
        <3>3. CASE ~Counted
            <4>1. Budget = 1
                BY <1>8, <2>3, <3>3 DEF Budget
            <4> QED BY <1>2, <1>8, <2>1, <2>2, <3>1, <4>1
        <3> QED BY <3>2, <3>3
    <2>4. CASE pos = 1
        <3>1. b.is = "dx" /\ pos' = 2 /\ Budget = 2
            BY <1>1, <1>3, <1>8, <2>4 DEF Continues, Budget
        <3> QED BY <1>2, <1>8, <2>1, <2>2, <3>1
    <2>5. CASE pos = 0
        <3>1. pos' \in {0, 1} /\ Budget = 3
            BY <1>1, <1>3, <1>8, <2>5 DEF Continues, Budget
        <3> QED BY <1>2, <1>8, <2>1, <2>2, <3>1
    <2> QED BY <1>2, <2>3, <2>4, <2>5
<1> QED BY <1>5, <1>6, <1>7, <1>8 DEF Keys!Take

LEMMA KeysTyped ==
    ASSUME sending \in [part : 0..2, of : {0, 1}], reporting \in BOOLEAN, asked \in BOOLEAN, reset \in BOOLEAN,
           faulted \in BOOLEAN, line \in Seq(Received), Len(line) <= Fifo, msreport \in 0..2,
           report \in Seq(Keys!Byte), Len(report) = msreport, pos \in 0..2, lies \in 0..9
    PROVE  Keys!TypeOK
<1>1. {reporting, asked, reset, faulted} \subseteq BOOLEAN
    OBVIOUS
<1> QED BY <1>1 DEF Keys!TypeOK, Received

LEMMA KeysInit == Keys!Init => KeysInv
<1> SUFFICES ASSUME Keys!Init PROVE KeysInv
    OBVIOUS
<1>1. Keys!TypeOK
    <2>1. /\ sending = [part |-> 0, of |-> 0] /\ line = <<>> /\ report = <<>>
          /\ reporting = FALSE /\ asked = FALSE /\ reset = FALSE /\ faulted = FALSE
          /\ msreport = 0 /\ pos = 0 /\ lies = 0
        BY DEF Keys!Init
    <2>2. line \in Seq(Received) /\ Len(line) <= Fifo
        BY <2>1, KeysAssumption
    <2>3. report \in Seq(Keys!Byte) /\ Len(report) = msreport
        BY <2>1
    <2>4. sending \in [part : 0..2, of : {0, 1}]
        BY <2>1
    <2>5. reporting \in BOOLEAN /\ asked \in BOOLEAN /\ reset \in BOOLEAN /\ faulted \in BOOLEAN
        BY <2>1
    <2> QED BY <2>1, <2>2, <2>3, <2>4, <2>5, KeysTyped
<1>2. Len(line) = 0
    BY DEF Keys!Init
<1>3. LineInv
    BY <1>2 DEF Keys!Init, LineInv
<1>4. Budget = 0
    BY DEF Keys!Init, Budget
<1> QED BY <1>1, <1>3, <1>4 DEF Keys!Init, KeysInv

LEMMA UnitStep == ASSUME KeysInv, Keys!Key \/ Keys!Reports PROVE KeysInv'
<1>1. /\ sending \in [part : 0..2, of : {0, 1}] /\ pos \in 0..2 /\ msreport \in 0..2 /\ lies \in 0..9
      /\ UNCHANGED <<reporting, asked, reset, msreport, report, pos, faulted, lies>>
    BY KeysFacts DEF Keys!Key, Keys!Reports
<1>2. /\ sending' \in [part : 0..2, of : {0, 1}]
      /\ \E b \in Keys!Byte :
            /\ Keys!Sends(b) /\ Looks(b) /\ Continues(sending.part, b.is)
            /\ sending.part # 0 => b.of = sending.of
            /\ Keys!After(b) = sending'.part
            /\ sending'.part # 0 => b.of = sending'.of
    <2>1. CASE Keys!Key
        <3>1. sending' = sending /\ sending.part = 0
            BY <2>1 DEF Keys!Key
        <3>2. PICK l \in {"press", "release"} : Keys!Sends([look |-> l, is |-> "key", of |-> sending.of])
            BY <2>1 DEF Keys!Key
        <3>3. PICK b : b = [look |-> l, is |-> "key", of |-> sending.of]
            OBVIOUS
        <3>4. b \in Keys!Byte /\ Looks(b) /\ b.is = "key"
            BY <1>1, <3>3 DEF Keys!Byte, Keys!Look, Looks
        <3>5. Keys!After(b) = 0
            BY <3>4, BytesAfter
        <3> QED BY <1>1, <3>1, <3>2, <3>3, <3>4, <3>5 DEF Continues
    <2>2. CASE Keys!Reports
        <3>1. PICK p, is : p = sending.part /\ is = <<"buttons", "dx", "dy">>[p + 1]
            OBVIOUS
        <3>2. p \in 0..2 /\ is = (IF p = 0 THEN "buttons" ELSE IF p = 1 THEN "dx" ELSE "dy")
            BY <1>1, <3>1
        <3>3. PICK l \in {"press", "release", "first"} :
                 Keys!Sends([look |-> l, is |-> is, of |-> sending.of]) /\ (p = 0 <=> l = "first")
            BY <2>2, <3>1, KeysAssumption DEF Keys!Reports
        <3>4. PICK b : b = [look |-> l, is |-> is, of |-> sending.of]
            OBVIOUS
        <3>5. b \in Keys!Byte /\ Looks(b) /\ b.is = is /\ b.of = sending.of
            BY <1>1, <3>2, <3>3, <3>4 DEF Keys!Byte, Keys!Look, Looks
        <3>6. Keys!After(b) = IF p = 2 THEN 0 ELSE p + 1
            BY <3>2, <3>5, BytesAfter
        <3>7. sending' = IF p = 2 THEN [part |-> 0, of |-> 1 - sending.of] ELSE [sending EXCEPT !.part = p + 1]
            BY <2>2, <3>1 DEF Keys!Reports
        <3>8. /\ sending' \in [part : 0..2, of : {0, 1}] /\ sending'.part = (IF p = 2 THEN 0 ELSE p + 1)
              /\ p # 2 => sending'.of = sending.of
            <4>1. PICK o \in {0, 1} : sending = [part |-> p, of |-> o]
                BY <1>1, <3>1
            <4> QED BY <3>2, <3>7, <4>1
        <3>9. Continues(p, b.is)
            BY <3>2, <3>5 DEF Continues
        <3> QED BY <3>1, <3>3, <3>4, <3>5, <3>6, <3>8, <3>9
    <2> QED BY <2>1, <2>2
<1>3. line' \in Seq(Received) /\ Len(line') <= Fifo /\ LineInv' /\ (Counted => Counted')
    BY <1>1, <1>2, SentStep
<1>4. Budget' <= Budget
    BY <1>1, <1>3 DEF Budget
<1>5. Keys!TypeOK'
    BY <1>1, <1>2, <1>3, KeysFacts DEF Keys!TypeOK, Received
<1>6. Budget \in 0..3 /\ Budget' \in 0..3
    BY <1>1 DEF Budget
<1>7. lies' + Budget' <= 3 /\ (Budget = 0 => Budget' = 0)
    <2>1. lies + Budget <= 3
        BY DEF KeysInv
    <2> QED BY <1>1, <1>4, <1>6, <2>1 DEF Budget
<1>8. ~faulted' => lies' = 0 /\ Budget' = 0
    BY <1>1, <1>7, Zenon DEF KeysInv
<1> QED BY <1>3, <1>5, <1>7, <1>8, Zenon DEF KeysInv

LEMMA WsintrStep == ASSUME KeysInv, Keys!Wsintr PROVE KeysInv'
<1>1. PICK b : b = Head(line).b
    OBVIOUS
<1>2. /\ line # <<>> /\ line' = Tail(line) /\ pos' = Keys!After(b)
      /\ UNCHANGED <<sending, reporting, asked, reset>>
    BY <1>1 DEF Keys!Wsintr
<1>3. line' \in Seq(Received) /\ Len(line') <= Fifo /\ LineInv' /\ pos' \in 0..2
    BY <1>1, <1>2, ReadLine
<1>4. CASE Head(line).err
    <2>1. faulted' = TRUE /\ lies' = 0 /\ UNCHANGED <<msreport, report>>
        BY <1>4 DEF Keys!Wsintr, Keys!Fault
    <2>2. Budget' \in 0..3
        BY <1>3, <2>1, KeysFacts DEF Budget
    <2>3. Keys!TypeOK'
        BY <1>2, <1>3, <2>1, KeysFacts DEF Keys!TypeOK, Received
    <2>4. lies' + Budget' <= 3
        BY <2>1, <2>2 DEF Budget
    <2>5. ~faulted' => lies' = 0 /\ Budget' = 0
        BY <2>1, Zenon
    <2> QED BY <1>3, <2>3, <2>4, <2>5, Zenon DEF KeysInv
<1>5. CASE ~Head(line).err
    <2>1. /\ msreport' \in 0..2 /\ report' \in Seq(Keys!Byte) /\ Len(report') = msreport' /\ lies' \in 0..9
          /\ faulted' = faulted /\ lies' + Budget' <= lies + Budget
        BY <1>1, <1>2, <1>5, TakeStep DEF Keys!Wsintr
    <2>2. Keys!TypeOK'
        BY <1>2, <1>3, <2>1, KeysFacts DEF Keys!TypeOK, Received
    <2>3. Budget' \in 0..3 /\ Budget \in 0..3 /\ lies \in 0..9
        BY <1>3, <2>1, KeysFacts DEF Budget
    <2>4. lies' + Budget' <= 3
        <3>1. lies + Budget <= 3
            BY DEF KeysInv
        <3>2. PICK x, y, l, m : x = Budget /\ y = Budget' /\ l = lies /\ m = lies'
            OBVIOUS
        <3>3. x \in 0..3 /\ y \in 0..3 /\ l \in 0..9 /\ m \in 0..9
            BY <2>1, <2>3, <3>2
        <3>4. l + x <= 3 /\ m + y <= l + x
            BY <2>1, <3>1, <3>2
        <3>5. m + y <= 3
            BY <3>3, <3>4
        <3> QED BY <3>2, <3>5
    <2>5. ~faulted => lies = 0 /\ Budget = 0
        BY Zenon DEF KeysInv
    <2>6. lies = 0 /\ Budget = 0 => lies' = 0 /\ Budget' = 0
        BY <2>1, <2>3 DEF Budget
    <2>7. ~faulted' => lies' = 0 /\ Budget' = 0
        BY <2>1, <2>5, <2>6, Zenon
    <2> QED BY <1>3, <2>2, <2>4, <2>7, Zenon DEF KeysInv
<1> QED BY <1>4, <1>5

LEMMA WsCngetcStep == ASSUME KeysInv, Keys!WsCngetc PROVE KeysInv'
<1>1. PICK b : b = Head(line).b
    OBVIOUS
<1>2. /\ line # <<>> /\ line' = Tail(line) /\ pos' = Keys!After(b)
      /\ UNCHANGED <<sending, reporting, asked, reset, msreport, report>>
    BY <1>1 DEF Keys!WsCngetc
<1>3. /\ line' \in Seq(Received) /\ Len(line') <= Fifo /\ LineInv' /\ pos' \in 0..2 /\ b \in Keys!Byte
      /\ ~Head(line).err => Continues(pos, b.is)
    BY <1>1, <1>2, ReadLine
<1>4. CASE b.is = "key" /\ ~Head(line).err
    <2>1. UNCHANGED <<faulted, lies>>
        BY <1>1, <1>4 DEF Keys!WsCngetc, Keys!Quiet
    <2>2. pos = 0 /\ pos' = 0
        BY <1>2, <1>3, <1>4, BytesAfter DEF Continues
    <2>3. Budget' = Budget
        BY <1>2, <2>2 DEF Budget
    <2>4. Keys!TypeOK'
        BY <1>2, <1>3, <2>1, KeysFacts DEF Keys!TypeOK, Received
    <2> QED BY <1>3, <2>1, <2>3, <2>4 DEF KeysInv
<1>5. CASE ~(b.is = "key" /\ ~Head(line).err)
    <2>1. faulted' = TRUE /\ lies' = 0
        BY <1>1, <1>5 DEF Keys!WsCngetc, Keys!Fault
    <2>2. Budget' \in 0..3
        BY <1>2, <1>3, KeysFacts DEF Budget
    <2>3. Keys!TypeOK'
        BY <1>2, <1>3, <2>1, KeysFacts DEF Keys!TypeOK, Received
    <2>4. lies' + Budget' <= 3
        BY <2>1, <2>2 DEF Budget
    <2>5. ~faulted' => lies' = 0 /\ Budget' = 0
        BY <2>1, Zenon
    <2> QED BY <1>3, <2>3, <2>4, <2>5, Zenon DEF KeysInv
<1> QED BY <1>4, <1>5

LEMMA OmmsResetStep == ASSUME KeysInv, Keys!OmmsReset PROVE KeysInv'
<1>1. reset' = FALSE /\ msreport' = 0 /\ report' = <<>> /\ UNCHANGED <<sending, reporting, line, asked, pos>>
    BY DEF Keys!OmmsReset, Keys!linevars
<1>2. LineInv'
    BY <1>1 DEF KeysInv, LineInv, Looks, Keys!After, Continues
<1>3. Budget' = (IF pos = 0 THEN 0 ELSE 3 - pos) /\ pos \in 0..2
    BY <1>1, KeysFacts DEF Budget
<1>4. CASE msreport # 0 /\ pos # 0
    <2>1. faulted' = TRUE /\ lies' = 0
        BY <1>4 DEF Keys!OmmsReset, Keys!Fault
    <2>2. Keys!TypeOK'
        <3>1. {reporting', asked', reset', faulted'} \subseteq BOOLEAN
            BY <1>1, <2>1, KeysFacts
        <3> QED BY <1>1, <2>1, <3>1, KeysFacts DEF Keys!TypeOK, Received
    <2> QED BY <1>2, <1>3, <2>1, <2>2 DEF KeysInv
<1>5. CASE ~(msreport # 0 /\ pos # 0)
    <2>1. UNCHANGED <<faulted, lies>>
        BY <1>5 DEF Keys!OmmsReset, Keys!Quiet
    <2>2. Budget \in 0..3 /\ Budget' <= Budget
        BY <1>3, <1>5, KeysFacts DEF Budget
    <2>3. Keys!TypeOK'
        <3>1. {reporting', asked', reset', faulted'} \subseteq BOOLEAN
            BY <1>1, <2>1, KeysFacts
        <3> QED BY <1>1, <2>1, <3>1, KeysFacts DEF Keys!TypeOK, Received
    <2> QED BY <1>2, <1>3, <2>1, <2>2, <2>3, KeysFacts, SMTT(40) DEF KeysInv
<1> QED BY <1>4, <1>5

LEMMA KeysStep == KeysInv /\ [Keys!Next]_lunawsVars => KeysInv'
<1> SUFFICES ASSUME KeysInv, [Keys!Next]_lunawsVars PROVE KeysInv'
    OBVIOUS
<1>1. CASE Keys!Key \/ Keys!Reports
    BY <1>1, UnitStep
<1>2. CASE Keys!Wsintr
    BY <1>2, WsintrStep
<1>3. CASE Keys!WsCngetc
    BY <1>3, WsCngetcStep
<1>4. CASE Keys!OmmsReset
    BY <1>4, OmmsResetStep
<1>5. CASE Keys!Hears \/ (\E on \in BOOLEAN : Keys!OmmsCommand(on)) \/ UNCHANGED lunawsVars
    <2>1. /\ UNCHANGED <<sending, line, msreport, report, pos, faulted, lies>>
          /\ reporting' \in BOOLEAN /\ asked' \in BOOLEAN /\ reset' \in BOOLEAN
        BY <1>5, KeysFacts DEF Keys!Hears, Keys!OmmsCommand, Keys!linevars, lunawsVars
    <2>2. Keys!TypeOK'
        BY <2>1, KeysFacts DEF Keys!TypeOK, Received
    <2>3. LineInv' /\ Budget' = Budget
        BY <2>1 DEF KeysInv, LineInv, Looks, Keys!After, Continues, Budget, Counted
    <2> QED BY <2>1, <2>2, <2>3 DEF KeysInv
<1> QED BY <1>1, <1>2, <1>3, <1>4, <1>5 DEF Keys!Next

LEMMA ReportsFound == KeysInv => FindsReports
<1> SUFFICES ASSUME KeysInv PROVE FindsReports
    OBVIOUS
<1>1. Budget \in 0..3 /\ lies \in 0..9 /\ faulted \in BOOLEAN
    BY KeysFacts DEF Budget
<1>2. CASE faulted = TRUE
    BY <1>1, <1>2 DEF KeysInv, FindsReports, Keys!FindsReports
<1>3. CASE faulted = FALSE
    BY <1>1, <1>3 DEF KeysInv, FindsReports, Keys!FindsReports
<1> QED BY <1>1, <1>2, <1>3

-----------------------------------------------------------------------------
(* The time of day: TimeOfDay                                              *)

\* the months of the hundred years from Year0 on
First == IF machine = "88k" THEN 0 ELSE 240
Century == First..(First + 1199)

(***************************************************************************)
(* BCD: two digits are kept in a byte, and counting in it is counting.     *)
(***************************************************************************)
LEMMA Bcd ==
    \A x \in 0..99 :
       /\ Tod!ToBcd(x) \in 0..153 /\ Tod!ToBcd(x) % 256 = Tod!ToBcd(x)
       /\ Tod!FromBcd(Tod!ToBcd(x)) = x
       /\ x < 99 => Tod!Next99(Tod!ToBcd(x)) = Tod!ToBcd(x + 1)
<1> SUFFICES ASSUME NEW x \in 0..99
             PROVE  /\ Tod!ToBcd(x) \in 0..153 /\ Tod!ToBcd(x) % 256 = Tod!ToBcd(x)
                    /\ Tod!FromBcd(Tod!ToBcd(x)) = x
                    /\ x < 99 => Tod!Next99(Tod!ToBcd(x)) = Tod!ToBcd(x + 1)
    OBVIOUS
<1> DEFINE tens == x \div 10
           ones == x % 10
<1>1. tens \in 0..9 /\ ones \in 0..9 /\ x = 10 * tens + ones
    OBVIOUS
<1>2. Tod!ToBcd(x) = 16 * tens + ones
    BY <1>1 DEF Tod!ToBcd
<1>3. Tod!ToBcd(x) \in 0..153 /\ Tod!ToBcd(x) % 256 = Tod!ToBcd(x)
    BY <1>1, <1>2
<1>4. Tod!ToBcd(x) \div 16 = tens /\ Tod!ToBcd(x) % 16 = ones
    BY <1>1, <1>2
<1>5. Tod!FromBcd(Tod!ToBcd(x)) = x
    BY <1>1, <1>4 DEF Tod!FromBcd
<1>6. ASSUME x < 99 PROVE Tod!Next99(Tod!ToBcd(x)) = Tod!ToBcd(x + 1)
    <2>1. Tod!ToBcd(x) < 153
        BY <1>1, <1>2, <1>6
    <2>2. CASE ones = 9
        <3>1. (x + 1) \div 10 = tens + 1 /\ (x + 1) % 10 = 0
            BY <1>1, <2>2
        <3> QED BY <1>1, <1>2, <1>4, <2>1, <2>2, <3>1 DEF Tod!Next99, Tod!ToBcd
    <2>3. CASE ones # 9
        <3>1. (x + 1) \div 10 = tens /\ (x + 1) % 10 = ones + 1
            BY <1>1, <2>3
        <3> QED BY <1>1, <1>2, <1>4, <2>1, <2>3, <3>1 DEF Tod!Next99, Tod!ToBcd
    <2> QED BY <2>2, <2>3
<1> QED BY <1>3, <1>5, <1>6

(***************************************************************************)
(* The registers of a time: the two digits of its year and its month.      *)
(***************************************************************************)
LEMMA Calendar ==
    ASSUME NEW t \in Century, machine \in {"88k", "88k2"}
    PROVE  /\ Tod!Year(t) - Tod!Year0 \in 0..99 /\ Tod!Month(t) \in 1..12
           /\ Tod!Year(t) \in Int /\ Tod!Year(t) >= 1970 /\ Tod!Secs(Tod!Year(t), Tod!Month(t)) = t
<1>1. t \in Nat /\ t = 12 * (t \div 12) + (t % 12) /\ t % 12 \in 0..11 /\ t \div 12 \in Nat
    <2>1. t \in Nat
        BY DEF Century, First
    <2> QED BY <2>1
<1>2. CASE machine = "88k"
    BY <1>1, <1>2 DEF Century, First, Tod!Year, Tod!Year0, Tod!Month, Tod!Months, Tod!Secs
<1>3. CASE machine = "88k2"
    BY <1>1, <1>3 DEF Century, First, Tod!Year, Tod!Year0, Tod!Month, Tod!Months, Tod!Secs
<1> QED BY <1>2, <1>3

LEMMA Registers ==
    ASSUME NEW t \in Century, machine \in {"88k", "88k2"}
    PROVE  Tod!SetRegisters(t) = [year |-> Tod!ToBcd(Tod!Year(t) - Tod!Year0), month |-> Tod!ToBcd(Tod!Month(t))]
<1>1. Tod!Year(t) - Tod!Year0 \in 0..99
    BY Calendar
<1>2. (Tod!Year(t) - Tod!Year0) % 256 = Tod!Year(t) - Tod!Year0
    BY <1>1
<1> QED BY <1>1, <1>2, Bcd, SMTT(40) DEF Tod!SetRegisters

\* what was set is read back
LEMMA ReadsBack ==
    ASSUME NEW t \in Century, machine \in {"88k", "88k2"}
    PROVE  Tod!Sane(Tod!SetRegisters(t)) /\ Tod!ChipTime(Tod!SetRegisters(t)) = t
<1> DEFINE c == Tod!SetRegisters(t)
<1>1. /\ Tod!Year(t) - Tod!Year0 \in 0..99 /\ Tod!Month(t) \in 1..12
      /\ Tod!Year(t) \in Int /\ Tod!Year(t) >= 1970 /\ Tod!Secs(Tod!Year(t), Tod!Month(t)) = t
    BY Calendar
<1>2. c.year = Tod!ToBcd(Tod!Year(t) - Tod!Year0) /\ c.month = Tod!ToBcd(Tod!Month(t))
    BY Registers
<1>3. Tod!FromBcd(c.year) = Tod!Year(t) - Tod!Year0
    BY <1>1, <1>2, Bcd, SMTT(40)
<1>4. Tod!FromBcd(c.month) = Tod!Month(t)
    <2>1. Tod!Month(t) \in 0..99
        BY <1>1
    <2> QED BY <1>2, <2>1, Bcd
<1>5. Tod!Year0 \in Int
    BY DEF Tod!Year0
<1>6. Tod!GetYear(c) = Tod!Year(t)
    BY <1>1, <1>3, <1>5 DEF Tod!GetYear
<1>7. Tod!GetMonth(c) = Tod!Month(t)
    BY <1>4 DEF Tod!GetMonth
<1> HIDE DEF c
<1>8. Tod!Sane(c) /\ Tod!ChipTime(c) = t
    BY <1>1, <1>6, <1>7 DEF Tod!Sane, Tod!ChipTime
<1> QED BY <1>8 DEF c

\* the chip counts as the calendar does
LEMMA ChipCounts ==
    ASSUME NEW t \in Century, t + 1 \in Century, machine \in {"88k", "88k2"}
    PROVE  Tod!Ticked(Tod!SetRegisters(t)) = Tod!SetRegisters(t + 1)
<1> DEFINE y == Tod!Year(t) - Tod!Year0
           m == Tod!Month(t)
<1>1. y \in 0..99 /\ m \in 1..12 /\ Tod!Year(t) \in Int /\ Tod!Year0 \in Int
    BY Calendar DEF Tod!Year0
<1>2. Tod!SetRegisters(t) = [year |-> Tod!ToBcd(y), month |-> Tod!ToBcd(m)]
    BY Registers
<1>3. Tod!SetRegisters(t + 1) = [year |-> Tod!ToBcd(Tod!Year(t + 1) - Tod!Year0), month |-> Tod!ToBcd(Tod!Month(t + 1))]
    BY Registers
<1>4. t \in Nat
    BY DEF Century, First
<1>5. Tod!Months = 12 /\ 12 \in 0..99 /\ m \in 0..99
    BY <1>1 DEF Tod!Months
<1>6. Tod!FromBcd(Tod!ToBcd(m)) = m /\ Tod!FromBcd(Tod!ToBcd(12)) = 12
    BY <1>5, Bcd
<1>7. CASE m = 12
    <2>1. Tod!Year(t + 1) - Tod!Year0 = y + 1 /\ Tod!Month(t + 1) = 1
        BY <1>1, <1>4, <1>7 DEF Tod!Year, Tod!Month, Tod!Months
    <2>2. y < 99
        <3>1. Tod!Year(t + 1) - Tod!Year0 \in 0..99
            BY Calendar
        <3> QED BY <1>1, <2>1, <3>1
    <2>3. Tod!Next99(Tod!ToBcd(y)) = Tod!ToBcd(y + 1)
        BY <1>1, <2>2, Bcd
    <2>4. Tod!ToBcd(1) = 1
        BY DEF Tod!ToBcd
    <2> QED BY <1>2, <1>3, <1>5, <1>7, <2>1, <2>3, <2>4 DEF Tod!Ticked
<1>8. CASE m # 12
    <2>1. Tod!Year(t + 1) - Tod!Year0 = y /\ Tod!Month(t + 1) = m + 1
        BY <1>1, <1>4, <1>8 DEF Tod!Year, Tod!Month, Tod!Months
    <2>2. Tod!Next99(Tod!ToBcd(m)) = Tod!ToBcd(m + 1)
        BY <1>1, <1>5, Bcd, SMTT(40)
    <2>3. Tod!ToBcd(m) # Tod!ToBcd(12) /\ m < 12
        BY <1>1, <1>6, <1>8
    <2>4. Tod!GetMonth(Tod!SetRegisters(t)) = m
        BY <1>2, <1>6 DEF Tod!GetMonth
    <2>5. Tod!Ticked(Tod!SetRegisters(t)) = [Tod!SetRegisters(t) EXCEPT !.month = Tod!Next99(@)]
        BY <1>2, <1>5, <2>3, <2>4 DEF Tod!Ticked
    <2> QED BY <1>2, <1>3, <2>1, <2>2, <2>5
<1> QED BY <1>7, <1>8

(***************************************************************************)
(* Only a system that has called inittodr() knows the time, and sets the   *)
(* chip to it; until then nobody but the battery does.  The file system's  *)
(* time is one the chip can hold.                                          *)
(***************************************************************************)
ClockInv ==
    /\ machine \in {"88k", "88k2"}
    /\ right \in Century /\ base \in Century
    /\ up \in {"off", "cold", "early", "running"}
    /\ todrvalid => up = "running"
    /\ up = "running" => time = right
    /\ battery => todchip = Tod!SetRegisters(right)

LEMMA TimesInCentury ==
    ASSUME machine \in {"88k", "88k2"}
    PROVE  Times[machine] \subseteq Century /\ Base \in Century
<1>1. CASE machine = "88k"
    <2>1. Century = 0..1199
        BY <1>1 DEF Century, First
    <2> QED BY <1>1, <2>1, TodAssumption
<1>2. CASE machine = "88k2"
    <2>1. Century = 240..1439
        BY <1>2 DEF Century, First
    <2> QED BY <1>2, <2>1, TodAssumption
<1> QED BY <1>1, <1>2

LEMMA SpanKept ==
    ASSUME machine' = machine
    PROVE  Century' = Century /\ \A t : Tod!SetRegisters(t)' = Tod!SetRegisters(t)
BY DEF Century, First, Tod!SetRegisters, Tod!Year0

LEMMA TickStep == ASSUME ClockInv, Tod!Tick PROVE ClockInv'
<1>1. right + 1 \in Century /\ right \in Century /\ machine \in {"88k", "88k2"} /\ machine' = machine
    BY TimesInCentury DEF ClockInv, Tod!Tick
<1>2. battery => todchip' = Tod!SetRegisters(right + 1)
    BY <1>1, ChipCounts DEF ClockInv, Tod!Tick
<1> QED BY <1>1, <1>2, SpanKept DEF ClockInv, Tod!Tick, Tod!SetRegisters, Tod!Year0

LEMMA InittodrStep == ASSUME ClockInv, Tod!InittodrChip \/ Tod!InittodrBase PROVE ClockInv'
<1>1. /\ machine \in {"88k", "88k2"} /\ machine' = machine /\ right \in Century /\ base \in Century /\ Base \in Century
      /\ Times[machine] \subseteq Century
    BY TimesInCentury DEF ClockInv, Tod!InittodrChip, Tod!InittodrBase, Tod!Inittodr
<1>2. battery => Tod!Sane(todchip) /\ Tod!ChipTime(todchip) = right
    BY <1>1, ReadsBack DEF ClockInv
<1>3. Century' = Century
    BY <1>1, SpanKept
<1>4. CASE Tod!InittodrChip
    BY <1>1, <1>2, <1>3, <1>4 DEF Tod!InittodrChip, Tod!Inittodr, ClockInv, Tod!SetRegisters, Tod!Year0
<1>5. CASE Tod!InittodrBase
    <2>1. ~battery
        BY <1>2, <1>5 DEF Tod!InittodrBase
    <2> QED BY <1>1, <1>3, <1>5, <2>1 DEF Tod!InittodrBase, Tod!Inittodr, ClockInv, Tod!SetRegisters, Tod!Year0
<1> QED BY <1>4, <1>5

LEMMA TodBootStep == ASSUME ClockInv, Tod!Boot PROVE ClockInv'
<1>1. machine' = machine /\ base' = base /\ right' = right
    BY DEF Tod!Boot
<1>2. todrvalid => time = right
    BY DEF ClockInv
<1>3. battery' => todchip' = Tod!SetRegisters(right)
    <2>1. CASE UNCHANGED <<todchip, battery>>
        BY <2>1 DEF ClockInv
    <2>2. CASE todrvalid /\ todchip' = Tod!SetRegisters(time)
        BY <1>2, <2>2
    <2> QED BY <2>1, <2>2 DEF Tod!Boot, Tod!Resettodr
<1>4. Century' = Century
    BY <1>1, SpanKept
<1> QED BY <1>1, <1>3, <1>4 DEF Tod!Boot, ClockInv, Tod!SetRegisters, Tod!Year0

LEMMA ClockInit == Tod!Init => ClockInv
<1> SUFFICES ASSUME Tod!Init PROVE ClockInv
    OBVIOUS
<1>1. machine \in {"88k", "88k2"} /\ right \in Century
    BY TimesInCentury DEF Tod!Init
<1> QED BY <1>1 DEF Tod!Init, ClockInv

LEMMA ClockStep == ClockInv /\ [Tod!Next]_clockVars => ClockInv'
<1> SUFFICES ASSUME ClockInv, [Tod!Next]_clockVars PROVE ClockInv'
    OBVIOUS
<1> USE DEF ClockInv, Tod!SetRegisters, Tod!Year0
<1>1. CASE Tod!Tick
    BY <1>1, TickStep
<1>2. CASE Tod!InittodrChip \/ Tod!InittodrBase
    BY <1>2, InittodrStep
<1>3. CASE Tod!Boot
    BY <1>3, TodBootStep
<1>4. CASE Tod!PowerOn \/ Tod!CpuInitclocks \/ Tod!BatteryFails \/ Tod!Sync \/ UNCHANGED clockVars
    BY <1>4, SpanKept DEF Tod!PowerOn, Tod!CpuInitclocks, Tod!BatteryFails, Tod!Sync, clockVars
<1>5. CASE Tod!Settime
    <2>1. machine' = machine /\ Times[machine] \subseteq Century
        BY <1>5, TimesInCentury DEF Tod!Settime
    <2> QED BY <1>5, <2>1, SpanKept DEF Tod!Settime
<1> QED BY <1>1, <1>2, <1>3, <1>4, <1>5 DEF Tod!Next

LEMMA TimeAgrees == ClockInv => TimeIsKept
BY ReadsBack DEF ClockInv, TimeIsKept, Tod!TimeIsKept

ChipType == [year : 0..255, month : 0..255]

LEMMA RegistersTyped ==
    ASSUME NEW t \in Century, machine \in {"88k", "88k2"}
    PROVE  Tod!SetRegisters(t) \in ChipType
<1>1. Tod!Year(t) - Tod!Year0 \in 0..99 /\ Tod!Month(t) \in 0..99
    BY Calendar
<1>2. \A x \in 0..99 : Tod!ToBcd(x) \in 0..153
    BY Bcd, Zenon
<1>3. PICK y, m : y = Tod!ToBcd(Tod!Year(t) - Tod!Year0) /\ m = Tod!ToBcd(Tod!Month(t))
    OBVIOUS
<1>4. y \in 0..255 /\ m \in 0..255
    <2>1. y \in 0..153 /\ m \in 0..153
        BY <1>1, <1>2, <1>3, Zenon
    <2> QED BY <2>1
<1>5. Tod!SetRegisters(t) = [year |-> y, month |-> m]
    BY <1>3, Registers
<1> QED BY <1>4, <1>5 DEF ChipType

LEMMA TickedTyped ==
    ASSUME NEW c \in ChipType
    PROVE  Tod!Ticked(c) \in ChipType
<1>1. \A y \in 0..255 : Tod!Next99(y) \in 0..255
    BY DEF Tod!Next99
<1>2. PICK y \in 0..255, m \in 0..255 : c = [year |-> y, month |-> m]
    BY ZenonT(60) DEF ChipType
<1>3. Tod!Next99(y) \in 0..255 /\ Tod!Next99(m) \in 0..255
    BY <1>1, <1>2
<1>4. \/ Tod!Ticked(c) = [year |-> Tod!Next99(y), month |-> 1]
      \/ Tod!Ticked(c) = [year |-> y, month |-> Tod!Next99(m)]
      \/ Tod!Ticked(c) = c
    BY <1>2 DEF Tod!Ticked
<1> QED BY <1>2, <1>3, <1>4, SMTT(40) DEF ChipType

LEMMA TodInit == Tod!Init => Tod!TypeOK
<1> SUFFICES ASSUME Tod!Init PROVE Tod!TypeOK
    OBVIOUS
<1>1. todchip \in ChipType
    BY TimesInCentury, RegistersTyped DEF Tod!Init
<1>2. todrvalid \in BOOLEAN /\ battery \in BOOLEAN
    BY DEF Tod!Init
<1> QED BY <1>1, <1>2 DEF Tod!Init, Tod!TypeOK, ChipType

LEMMA TodTyped == ClockInv /\ Tod!TypeOK /\ [Tod!Next]_clockVars => Tod!TypeOK'
<1> SUFFICES ASSUME ClockInv, Tod!TypeOK, [Tod!Next]_clockVars PROVE Tod!TypeOK'
    OBVIOUS
<1>0. /\ machine \in {"88k", "88k2"} /\ todchip \in ChipType
      /\ Times[machine] \subseteq Century /\ Base \in Times[machine] /\ base \in Times[machine]
      /\ right \in Times[machine] /\ time \in Times[machine] \cup {0}
      /\ todrvalid \in BOOLEAN /\ battery \in BOOLEAN
      /\ up \in {"off", "cold", "early", "running"} /\ (up # "running" => ~todrvalid)
    BY TimesInCentury, TodAssumption DEF Tod!TypeOK, ChipType
<1>1. CASE Tod!Tick
    <2>1. todchip' \in ChipType
        BY <1>0, <1>1, TickedTyped DEF Tod!Tick
    <2>2. time' \in Times[machine] \cup {0}
        BY <1>0, <1>1 DEF Tod!Tick, ClockInv
    <2> QED BY <1>0, <1>1, <2>1, <2>2 DEF Tod!Tick, Tod!TypeOK, ChipType
<1>2. CASE Tod!InittodrChip
    BY <1>0, <1>2 DEF Tod!InittodrChip, Tod!Inittodr, Tod!TypeOK, ChipType
<1>3. CASE Tod!InittodrBase
    <2>1. Tod!SetRegisters(base) \in ChipType
        BY <1>0, RegistersTyped
    <2>2. todchip' \in ChipType /\ battery' \in BOOLEAN
        BY <1>0, <1>3, <2>1 DEF Tod!InittodrBase
    <2> QED BY <1>0, <1>3, <2>2 DEF Tod!InittodrBase, Tod!Inittodr, Tod!TypeOK, ChipType
<1>4. CASE Tod!Boot
    <2>1. up = "running" => Tod!SetRegisters(time) \in ChipType
        BY <1>0, RegistersTyped DEF ClockInv
    <2>2. todchip' \in ChipType /\ battery' \in BOOLEAN
        BY <1>0, <1>4, <2>1 DEF Tod!Boot, Tod!Resettodr
    <2> QED BY <1>0, <1>4, <2>2 DEF Tod!Boot, Tod!TypeOK, ChipType
<1>5. CASE Tod!Settime
    <2>1. todchip' \in ChipType
        BY <1>0, <1>5, RegistersTyped DEF Tod!Settime
    <2> QED BY <1>0, <1>5, <2>1 DEF Tod!Settime, Tod!TypeOK, ChipType
<1>6. CASE Tod!Sync
    <2>1. time \in Times[machine]
        BY <1>0, <1>6 DEF Tod!Sync, ClockInv
    <2> QED BY <1>0, <1>6, <2>1 DEF Tod!Sync, Tod!TypeOK, ChipType
<1>7. CASE Tod!PowerOn \/ Tod!CpuInitclocks \/ Tod!BatteryFails \/ UNCHANGED clockVars
    <2>1. todchip' \in ChipType
        BY <1>0, <1>7 DEF Tod!PowerOn, Tod!CpuInitclocks, Tod!BatteryFails, clockVars, ChipType
    <2>2. \/ todrvalid' = FALSE
          \/ todrvalid' = todrvalid /\ up' = up
          \/ todrvalid' = todrvalid /\ up = "cold"
        BY <1>7 DEF Tod!PowerOn, Tod!CpuInitclocks, Tod!BatteryFails, clockVars
    <2>4. todrvalid' \in BOOLEAN /\ (up' # "running" => ~todrvalid')
        <3>1. up = "cold" => up # "running"
            OBVIOUS
        <3>2. todrvalid' \in BOOLEAN
            BY <1>0, <2>2, Zenon
        <3>3. up' # "running" => ~todrvalid'
            BY <1>0, <2>2, <3>1, Zenon
        <3> QED BY <3>2, <3>3
    <2>5. battery' \in BOOLEAN
        BY <1>0, <1>7 DEF Tod!PowerOn, Tod!CpuInitclocks, Tod!BatteryFails, clockVars
    <2>3. /\ UNCHANGED <<machine, base, right>> /\ time' \in Times[machine] \cup {0}
          /\ up' \in {"off", "cold", "early", "running"}
        BY <1>0, <1>7 DEF Tod!PowerOn, Tod!CpuInitclocks, Tod!BatteryFails, clockVars
    <2> QED BY <1>0, <2>1, <2>3, <2>4, <2>5 DEF Tod!TypeOK, ChipType
<1> QED BY <1>1, <1>2, <1>3, <1>4, <1>5, <1>6, <1>7 DEF Tod!Next

-----------------------------------------------------------------------------
(* The LCD: Lcd                                                            *)

Controls == {"init", "entry", "on", "off", "cls", "home", "line0", "line1", "c_left", "d_left", "d_right",
             "cursor", "window", "last"}
LcdByte  == ({"put"} \X Chars) \cup ({"ctrl"} \X Controls)
LcdLines == [0..1 -> [0..LineLen - 1 -> Chars \cup {" "}]]

LEMMA LcdBytes ==
    /\ \A ch \in Chars : Panel!Put(ch) \in LcdByte
    /\ \A c \in Controls : Panel!Ctrl(c) \in LcdByte
    /\ \A s \in Seq(Chars) : Panel!Lcdshow(s) \in Seq(LcdByte) /\ Len(Panel!Lcdshow(s)) = Len(s)
                             /\ \A i \in 1..Len(s) : Panel!Lcdshow(s)[i] = Panel!Put(s[i])
<1>1. \A ch \in Chars : Panel!Put(ch) \in LcdByte
    BY DEF Panel!Put, LcdByte
<1>2. \A c \in Controls : Panel!Ctrl(c) \in LcdByte
    BY DEF Panel!Ctrl, LcdByte
<1>3. ASSUME NEW s \in Seq(Chars)
      PROVE  /\ Panel!Lcdshow(s) \in Seq(LcdByte) /\ Len(Panel!Lcdshow(s)) = Len(s)
             /\ \A i \in 1..Len(s) : Panel!Lcdshow(s)[i] = Panel!Put(s[i])
    <2>1. \A i \in 1..Len(s) : s[i] \in Chars /\ Panel!Put(s[i]) \in LcdByte
        BY <1>1
    <2> QED BY <2>1 DEF Panel!Lcdshow
<1> QED BY <1>1, <1>2, <1>3

LEMMA Joined ==
    \A a, b \in Seq(LcdByte) :
       /\ a \o b \in Seq(LcdByte) /\ Len(a \o b) = Len(a) + Len(b)
       /\ \A i \in 1..Len(a) : (a \o b)[i] = a[i]
       /\ \A i \in 1..Len(b) : (a \o b)[Len(a) + i] = b[i]
OBVIOUS

\* the byte of greeting() that comes in the place i
Length   == 2 * LcdWidth + 7
Spelt(i) ==
    CASE i = 1 -> Panel!Ctrl("init") [] i = 2 -> Panel!Ctrl("entry") [] i = 3 -> Panel!Ctrl("on")
      [] i = 4 -> Panel!Ctrl("cls") [] i = 5 -> Panel!Ctrl("home") [] i = 6 -> Panel!Ctrl("line0")
      [] i > 6 /\ i <= 6 + LcdWidth -> Panel!Put(Message1[i - 6])
      [] i = 7 + LcdWidth -> Panel!Ctrl("line1")
      [] OTHER -> Panel!Put(Message2[i - 7 - LcdWidth])

LEMMA GreetingSpelt ==
    /\ Panel!Greeting \in Seq(LcdByte) /\ Len(Panel!Greeting) = Length
    /\ \A i \in 1..Length : Panel!Greeting[i] = Spelt(i)
<1> DEFINE a == <<Panel!Ctrl("init"), Panel!Ctrl("entry"), Panel!Ctrl("on"), Panel!Ctrl("cls"), Panel!Ctrl("home"),
                 Panel!Ctrl("line0")>>
           b == Panel!Lcdshow(Message1)
           c == <<Panel!Ctrl("line1")>>
           d == Panel!Lcdshow(Message2)
<1>1. /\ a \in Seq(LcdByte) /\ Len(a) = 6 /\ \A i \in 1..6 : a[i] = Spelt(i)
      /\ c \in Seq(LcdByte) /\ Len(c) = 1 /\ c[1] = Panel!Ctrl("line1")
    <2>1. \A x \in {"init", "entry", "on", "cls", "home", "line0", "line1"} : Panel!Ctrl(x) \in LcdByte
        BY LcdBytes DEF Controls
    <2>2. a \in Seq(LcdByte) /\ c \in Seq(LcdByte)
        BY <2>1
    <2>3. Len(a) = 6 /\ Len(c) = 1 /\ c[1] = Panel!Ctrl("line1")
        OBVIOUS
    <2>4. ASSUME NEW i \in 1..6 PROVE a[i] = Spelt(i)
        <3>1. i = 1 \/ i = 2 \/ i = 3 \/ i = 4 \/ i = 5 \/ i = 6
            OBVIOUS
        <3>3. LcdWidth \in Nat
            BY PanelAssumption
        <3>2. /\ a[1] = Panel!Ctrl("init") /\ a[2] = Panel!Ctrl("entry") /\ a[3] = Panel!Ctrl("on")
              /\ a[4] = Panel!Ctrl("cls") /\ a[5] = Panel!Ctrl("home") /\ a[6] = Panel!Ctrl("line0")
            OBVIOUS
        <3> HIDE DEF a
        <3> QED BY <3>1, <3>2, <3>3 DEF Spelt
    <2> QED BY <2>2, <2>3, <2>4
<1>2. /\ b \in Seq(LcdByte) /\ Len(b) = LcdWidth /\ \A i \in 1..LcdWidth : b[i] = Panel!Put(Message1[i])
      /\ d \in Seq(LcdByte) /\ Len(d) = LcdWidth /\ \A i \in 1..LcdWidth : d[i] = Panel!Put(Message2[i])
    BY LcdBytes, PanelAssumption
<1>3. LcdWidth \in Nat
    BY PanelAssumption
<1>4. Panel!Greeting = ((a \o b) \o c) \o d
    BY DEF Panel!Greeting
<1> HIDE DEF a, b, c, d
<1>5. /\ a \o b \in Seq(LcdByte) /\ Len(a \o b) = 6 + LcdWidth
      /\ \A i \in 1..6 : (a \o b)[i] = Spelt(i)
      /\ \A i \in 1..LcdWidth : (a \o b)[6 + i] = Panel!Put(Message1[i])
    <2>1. /\ a \o b \in Seq(LcdByte) /\ Len(a \o b) = Len(a) + Len(b)
          /\ \A i \in 1..Len(a) : (a \o b)[i] = a[i]
          /\ \A i \in 1..Len(b) : (a \o b)[Len(a) + i] = b[i]
        BY <1>1, <1>2, Joined
    <2> QED BY <1>1, <1>2, <2>1
<1> DEFINE e == a \o b
           f == e \o c
<1> HIDE DEF e
<1>6. /\ f \in Seq(LcdByte) /\ Len(f) = 7 + LcdWidth
      /\ \A i \in 1..6 : f[i] = Spelt(i)
      /\ \A i \in 1..LcdWidth : f[6 + i] = Panel!Put(Message1[i])
      /\ f[7 + LcdWidth] = Panel!Ctrl("line1")
    <2>1. e \in Seq(LcdByte) /\ Len(e) = 6 + LcdWidth
        BY <1>5 DEF e
    <2>2. /\ f \in Seq(LcdByte) /\ Len(f) = 7 + LcdWidth /\ f[(6 + LcdWidth) + 1] = c[1]
          /\ \A i \in 1..6 + LcdWidth : f[i] = e[i]
        <3>1. /\ e \o c \in Seq(LcdByte) /\ Len(e \o c) = Len(e) + Len(c)
              /\ \A i \in 1..Len(e) : (e \o c)[i] = e[i]
              /\ \A i \in 1..Len(c) : (e \o c)[Len(e) + i] = c[i]
            BY <1>1, <2>1, Joined
        <3>2. Len(e) = 6 + LcdWidth /\ Len(c) = 1 /\ 1 \in 1..1
            BY <1>1, <2>1
        <3> QED BY <1>3, <3>1, <3>2
    <2> QED BY <1>1, <1>3, <1>5, <2>2 DEF e
<1> HIDE DEF f
<1>7. /\ f \o d \in Seq(LcdByte) /\ Len(f \o d) = Length
      /\ \A i \in 1..7 + LcdWidth : (f \o d)[i] = f[i]
      /\ \A i \in 1..LcdWidth : (f \o d)[7 + LcdWidth + i] = Panel!Put(Message2[i])
    <2>1. /\ f \o d \in Seq(LcdByte) /\ Len(f \o d) = Len(f) + Len(d)
          /\ \A i \in 1..Len(f) : (f \o d)[i] = f[i]
          /\ \A i \in 1..Len(d) : (f \o d)[Len(f) + i] = d[i]
        BY <1>2, <1>6, Joined
    <2>2. Len(f) = 7 + LcdWidth /\ Len(d) = LcdWidth /\ Length = 7 + LcdWidth + LcdWidth
        BY <1>2, <1>3, <1>6 DEF Length
    <2>3. ASSUME NEW i \in 1..LcdWidth PROVE (f \o d)[7 + LcdWidth + i] = Panel!Put(Message2[i])
        <3>1. (f \o d)[Len(f) + i] = d[i] /\ d[i] = Panel!Put(Message2[i])
            BY <1>2, <2>1, <2>2
        <3> QED BY <2>2, <3>1
    <2> QED BY <2>1, <2>2, <2>3
<1>8. ASSUME NEW i \in 1..Length PROVE (f \o d)[i] = Spelt(i)
    <2>1. CASE i \in 1..6
        BY <1>3, <1>6, <1>7, <2>1
    <2>2. CASE i > 6 /\ i <= 6 + LcdWidth
        <3>1. i - 6 \in 1..LcdWidth /\ i = 6 + (i - 6) /\ i \in 1..7 + LcdWidth
            BY <1>3, <2>2
        <3>2. f[i] = Panel!Put(Message1[i - 6])
            BY <1>6, <3>1
        <3> QED BY <1>3, <1>7, <2>2, <3>1, <3>2 DEF Spelt
    <2>3. CASE i = 7 + LcdWidth
        BY <1>3, <1>6, <1>7, <2>3, PanelAssumption DEF Spelt
    <2>4. CASE i > 7 + LcdWidth
        <3>1. i - 7 - LcdWidth \in 1..LcdWidth /\ i = 7 + LcdWidth + (i - 7 - LcdWidth)
            BY <1>3, <2>4 DEF Length
        <3>2. (f \o d)[i] = Panel!Put(Message2[i - 7 - LcdWidth])
            BY <1>7, <3>1
        <3> QED BY <1>3, <2>4, <3>2, PanelAssumption, SMTT(40) DEF Spelt
    <2>5. i \in 1..6 \/ (i > 6 /\ i <= 6 + LcdWidth) \/ i = 7 + LcdWidth \/ i > 7 + LcdWidth
        BY <1>3 DEF Length
    <2> QED BY <2>1, <2>2, <2>3, <2>4, <2>5
<1> QED BY <1>4, <1>7, <1>8 DEF e, f

(***************************************************************************)
(* How far a greeting has come decides what it has set, and only the rest  *)
(* of it is still to be put: the mode and the display first, then the      *)
(* window, and then one line after the other, with the address after the   *)
(* last character written, which at the end of a line is in the other one. *)
(***************************************************************************)
Taken == Length - Len(bytes)

AddressAt(y, x) == IF x = LineLen THEN [y |-> 1 - y, x |-> 0] ELSE [y |-> y, x |-> x]

GreetingDone(n, in, on, at, from, ram) ==
    /\ n >= 2 => in = [step |-> 1, window |-> 0]
    /\ n >= 3 => on
    /\ n >= 4 => from = 0
    /\ n >= 6 /\ n < 7 + LcdWidth => at = AddressAt(0, n - 6)
    /\ n >= 7 + LcdWidth => at = AddressAt(1, n - 7 - LcdWidth)
    /\ \A x \in 0..LcdWidth - 1 : x < n - 6 => ram[0][x] = Message1[x + 1]
    /\ \A x \in 0..LcdWidth - 1 : x < n - 7 - LcdWidth => ram[1][x] = Message2[x + 1]

LcdTyped ==
    /\ done \in 0..MaxOps /\ opened \in BOOLEAN /\ shown \in BOOLEAN /\ busy \in BOOLEAN
    /\ doing \in {"attach", "write", "ioctl", "restore"}
    /\ bytes \in Seq(LcdByte) /\ ddram \in LcdLines
    /\ addr \in [y : 0..1, x : 0..LineLen - 1] /\ shift \in 0..LineLen - 1
    /\ entry \in [step : {-1, 1}, window : {-1, 0, 1}]

GreetingInv ==
    doing \in {"attach", "restore"} =>
        /\ Len(bytes) <= Length
        /\ \A i \in 1..Len(bytes) : bytes[i] = Spelt(Taken + i)
        /\ GreetingDone(Taken, entry, shown, addr, shift, ddram)

LcdInv == LcdTyped /\ GreetingInv

LEMMA LcdNumbers ==
    /\ LineLen \in Nat \ {0} /\ LcdWidth \in 1..LineLen /\ LcdWidth \in Nat /\ Length \in Nat /\ Length > 6
    /\ MaxOps \in Nat /\ MaxBufLen \in Nat
BY PanelAssumption DEF Length

\* the controller keeps its address and window in the lines
LEMMA AddressMoves ==
    ASSUME NEW a \in [y : 0..1, x : 0..LineLen - 1], NEW d \in {-1, 1}
    PROVE  Panel!Moved(a, d) \in [y : 0..1, x : 0..LineLen - 1]
<1>1. PICK y \in 0..1, x \in 0..LineLen - 1 : a = [y |-> y, x |-> x]
    OBVIOUS
<1>2. 1 - y \in 0..1 /\ x + d \in Int
    OBVIOUS
<1> QED BY <1>1, <1>2, LcdNumbers DEF Panel!Moved

LEMMA WindowMoves ==
    ASSUME NEW s \in 0..LineLen - 1, NEW d \in {-1, 0, 1}
    PROVE  (s + d) % LineLen \in 0..LineLen - 1
<1>1. s + d \in Int
    OBVIOUS
<1> QED BY <1>1, LcdNumbers

LEMMA FirstByte ==
    ASSUME bytes \in Seq(LcdByte), bytes # <<>>
    PROVE  /\ Len(bytes) \in Nat \ {0} /\ Head(bytes) = bytes[1] /\ Head(bytes) \in LcdByte
           /\ Tail(bytes) \in Seq(LcdByte) /\ Len(Tail(bytes)) = Len(bytes) - 1
           /\ \A i \in 1..Len(bytes) - 1 : Tail(bytes)[i] = bytes[i + 1]
OBVIOUS

LEMMA BlankTyped == Panel!Blank \in LcdLines
BY DEF Panel!Blank, LcdLines

\* what a byte does leaves the controller typed
LEMMA CharTyped ==
    ASSUME LcdTyped, NEW ch \in Chars, Panel!TakesChar(ch)
    PROVE  /\ ddram' \in LcdLines /\ addr' \in [y : 0..1, x : 0..LineLen - 1] /\ shift' \in 0..LineLen - 1
           /\ entry' \in [step : {-1, 1}, window : {-1, 0, 1}] /\ shown' \in BOOLEAN
<1>1. ddram' \in LcdLines
    <2>1. addr.y \in 0..1 /\ addr.x \in 0..LineLen - 1
        BY DEF LcdTyped
    <2> QED BY <2>1 DEF LcdTyped, LcdLines, Panel!TakesChar
<1>2. addr' \in [y : 0..1, x : 0..LineLen - 1]
    BY AddressMoves DEF LcdTyped, Panel!TakesChar
<1>3. shift' \in 0..LineLen - 1
    BY WindowMoves DEF LcdTyped, Panel!TakesChar, Panel!Shifted
<1> QED BY <1>1, <1>2, <1>3 DEF LcdTyped, Panel!TakesChar

LEMMA ControlTyped ==
    ASSUME LcdTyped, NEW c, Panel!Takes(c)
    PROVE  /\ ddram' \in LcdLines /\ addr' \in [y : 0..1, x : 0..LineLen - 1] /\ shift' \in 0..LineLen - 1
           /\ entry' \in [step : {-1, 1}, window : {-1, 0, 1}] /\ shown' \in BOOLEAN
<1>1. ddram' \in LcdLines
    BY BlankTyped DEF LcdTyped, Panel!Takes
<1>2. addr' \in [y : 0..1, x : 0..LineLen - 1]
    <2>1. Panel!Moved(addr, -1) \in [y : 0..1, x : 0..LineLen - 1]
        BY AddressMoves DEF LcdTyped
    <2>2. addr' \in {Panel!Origin, addr, Panel!Moved(addr, -1), [y |-> 1, x |-> 0], [y |-> 1, x |-> LineLen - 1]}
        BY DEF Panel!Takes, Panel!Sets
    <2> QED BY <2>1, <2>2, LcdNumbers DEF LcdTyped, Panel!Origin
<1>3. shift' \in 0..LineLen - 1
    <2>1. Panel!Shifted(1) \in 0..LineLen - 1
        BY WindowMoves DEF LcdTyped, Panel!Shifted
    <2>2. shift' \in {0, shift, Panel!Shifted(1)}
        BY DEF Panel!Takes, Panel!Sets
    <2> QED BY <2>1, <2>2, LcdNumbers DEF LcdTyped
<1>4. entry' \in [step : {-1, 1}, window : {-1, 0, 1}]
    <2>1. entry' \in {Panel!Incremented, entry, [step |-> 1, window |-> 0], [step |-> -1, window |-> 0],
                      [step |-> -1, window |-> -1], [step |-> 1, window |-> 1]}
        BY DEF Panel!Takes, Panel!Sets
    <2> QED BY <2>1 DEF LcdTyped, Panel!Incremented
<1>5. shown' \in BOOLEAN
    <2>1. shown' = shown \/ shown' = TRUE \/ shown' = FALSE
        BY DEF Panel!Takes, Panel!Sets
    <2> QED BY <2>1 DEF LcdTyped
<1> QED BY <1>1, <1>2, <1>3, <1>4, <1>5

LEMMA GreetingGoesOn ==
    ASSUME LcdTyped, NEW n \in 0..Length - 1, GreetingDone(n, entry, shown, addr, shift, ddram),
           IF Spelt(n + 1)[1] = "put" THEN Panel!TakesChar(Spelt(n + 1)[2]) ELSE Panel!Takes(Spelt(n + 1)[2])
    PROVE  GreetingDone(n + 1, entry', shown', addr', shift', ddram')
<1>0. n \in Nat /\ LineLen \in Nat \ {0} /\ LcdWidth \in Nat /\ 1 <= LcdWidth /\ LcdWidth <= LineLen
    BY LcdNumbers
<1>1. CASE n = 0
    BY <1>0, <1>1 DEF GreetingDone
<1>2. CASE n = 1
    <2>1. Spelt(n + 1) = Panel!Ctrl("entry")
        BY <1>0, <1>2 DEF Spelt
    <2>2. entry' = [step |-> 1, window |-> 0]
        BY <2>1 DEF Panel!Ctrl, Panel!Takes, Panel!Sets
    <2> QED BY <1>0, <1>2, <2>2 DEF GreetingDone
<1>3. CASE n = 2
    <2>1. Spelt(n + 1) = Panel!Ctrl("on")
        BY <1>0, <1>3 DEF Spelt
    <2>2. entry' = entry /\ shown' = TRUE
        BY <2>1 DEF Panel!Ctrl, Panel!Takes, Panel!Sets
    <2> QED BY <1>0, <1>3, <2>2 DEF GreetingDone
<1>4. CASE n = 3
    <2>1. Spelt(n + 1) = Panel!Ctrl("cls")
        BY <1>0, <1>4 DEF Spelt
    <2>2. entry = [step |-> 1, window |-> 0] /\ shown
        BY <1>4 DEF GreetingDone
    <2>3. entry' = [step |-> 1, window |-> 0] /\ shown' = shown /\ shift' = 0
        <3>1. Panel!Incremented = [step |-> 1, window |-> 0]
            BY <2>2 DEF Panel!Incremented
        <3> QED BY <2>1, <3>1 DEF Panel!Ctrl, Panel!Takes, Panel!Sets
    <2> QED BY <1>0, <1>4, <2>2, <2>3 DEF GreetingDone
<1>5. CASE n = 4
    <2>1. Spelt(n + 1) = Panel!Ctrl("home")
        BY <1>0, <1>5 DEF Spelt
    <2>2. UNCHANGED <<entry, shown>> /\ shift' = 0
        BY <2>1 DEF Panel!Ctrl, Panel!Takes, Panel!Sets
    <2> QED BY <1>0, <1>5, <2>2 DEF GreetingDone
<1>6. CASE n = 5
    <2>1. Spelt(n + 1) = Panel!Ctrl("line0")
        BY <1>0, <1>6 DEF Spelt
    <2>2. UNCHANGED <<entry, shown, shift>> /\ addr' = AddressAt(0, 0)
        BY <2>1, <1>0 DEF Panel!Ctrl, Panel!Takes, Panel!Sets, Panel!Origin, AddressAt
    <2> QED BY <1>0, <1>6, <2>2 DEF GreetingDone
<1>7. CASE n >= 6 /\ n < 6 + LcdWidth
    <2>1. PICK x : x = n - 6
        OBVIOUS
    <2>2. x \in 0..LineLen - 1 /\ x \in 0..LcdWidth - 1 /\ x # LineLen /\ n + 1 > 6 /\ n + 1 <= 6 + LcdWidth
        BY <1>0, <1>7, <2>1
    <2>3. Spelt(n + 1) = Panel!Put(Message1[x + 1])
        BY <1>0, <2>1, <2>2 DEF Spelt
    <2>4. addr = [y |-> 0, x |-> x] /\ entry = [step |-> 1, window |-> 0] /\ shown /\ shift = 0
        BY <1>0, <1>7, <2>1, <2>2 DEF GreetingDone, AddressAt
    <2>5. Panel!TakesChar(Message1[x + 1])
        BY <2>3 DEF Panel!Put
    <2>6. entry' = entry /\ shown' = shown /\ shift' = 0
        BY <1>0, <2>4, <2>5 DEF Panel!TakesChar, Panel!Shifted
    <2>7. addr' = AddressAt(0, x + 1)
        BY <1>0, <2>2, <2>4, <2>5 DEF Panel!TakesChar, Panel!Moved, AddressAt
    <2>8. ddram'[0][x] = Message1[x + 1] /\ \A z \in 0..LcdWidth - 1 : z # x => ddram'[0][z] = ddram[0][z]
        <3>1. PICK c : c = Message1[x + 1]
            OBVIOUS
        <3>2. ddram' = [ddram EXCEPT ![0][x] = c]
            BY <2>4, <2>5, <3>1 DEF Panel!TakesChar
        <3>3. ddram \in LcdLines /\ \A z \in 0..LcdWidth - 1 : z \in 0..LineLen - 1
            BY <1>0 DEF LcdTyped
        <3>4. PICK r : r = ddram[0]
            OBVIOUS
        <3>5. PICK F : F = [0..LineLen - 1 -> Chars \cup {" "}]
            OBVIOUS
        <3>6. ddram \in [0..1 -> F]
            BY <3>3, <3>5 DEF LcdLines
        <3>7. r \in F /\ DOMAIN ddram = 0..1
            BY <3>4, <3>6
        <3>8. ddram' = [ddram EXCEPT ![0] = [r EXCEPT ![x] = c]]
            BY <3>2, <3>4
        <3>9. ddram'[0] = [r EXCEPT ![x] = c] /\ ddram'[1] = ddram[1]
            <4>1. PICK g : g = [r EXCEPT ![x] = c]
                OBVIOUS
            <4> QED BY <3>7, <3>8, <4>1
        <3> QED BY <2>2, <3>1, <3>3, <3>4, <3>7, <3>9, <3>5
    <2>9. \A z \in 0..LcdWidth - 1 : z < n + 1 - 6 => ddram'[0][z] = Message1[z + 1]
        BY <1>0, <2>1, <2>8 DEF GreetingDone
    <2>10. n + 1 < 7 + LcdWidth /\ n + 1 - 6 = x + 1
        BY <1>0, <1>7, <2>1
    <2> QED BY <1>0, <2>4, <2>6, <2>7, <2>9, <2>10 DEF GreetingDone
<1>8. CASE n = 6 + LcdWidth
    <2>1. Spelt(n + 1) = Panel!Ctrl("line1")
        BY <1>0, <1>8 DEF Spelt
    <2>2. UNCHANGED <<entry, shown, shift, ddram>> /\ addr' = AddressAt(1, 0)
        BY <2>1, <1>0 DEF Panel!Ctrl, Panel!Takes, Panel!Sets, AddressAt
    <2> QED BY <1>0, <1>8, <2>2 DEF GreetingDone
<1>9. CASE n >= 7 + LcdWidth
    <2>1. PICK x : x = n - 7 - LcdWidth
        OBVIOUS
    <2>2. x \in 0..LineLen - 1 /\ x \in 0..LcdWidth - 1 /\ x # LineLen
        BY <1>0, <1>9, <2>1 DEF Length
    <2>3. Spelt(n + 1) = Panel!Put(Message2[x + 1])
        BY <1>0, <1>9, <2>1, <2>2 DEF Spelt
    <2>4. addr = [y |-> 1, x |-> x] /\ entry = [step |-> 1, window |-> 0] /\ shown /\ shift = 0
        BY <1>0, <1>9, <2>1, <2>2 DEF GreetingDone, AddressAt
    <2>5. Panel!TakesChar(Message2[x + 1])
        BY <2>3 DEF Panel!Put
    <2>6. entry' = entry /\ shown' = shown /\ shift' = 0
        BY <1>0, <2>4, <2>5 DEF Panel!TakesChar, Panel!Shifted
    <2>7. addr' = AddressAt(1, x + 1)
        BY <1>0, <2>2, <2>4, <2>5 DEF Panel!TakesChar, Panel!Moved, AddressAt
    <2>8. /\ ddram'[1][x] = Message2[x + 1] /\ (\A z \in 0..LcdWidth - 1 : z # x => ddram'[1][z] = ddram[1][z])
          /\ ddram'[0] = ddram[0]
        <3>1. PICK c : c = Message2[x + 1]
            OBVIOUS
        <3>2. ddram' = [ddram EXCEPT ![1][x] = c]
            BY <2>4, <2>5, <3>1 DEF Panel!TakesChar
        <3>3. ddram \in LcdLines /\ \A z \in 0..LcdWidth - 1 : z \in 0..LineLen - 1
            BY <1>0 DEF LcdTyped
        <3>4. PICK r : r = ddram[1]
            OBVIOUS
        <3>5. PICK F : F = [0..LineLen - 1 -> Chars \cup {" "}]
            OBVIOUS
        <3>6. ddram \in [0..1 -> F]
            BY <3>3, <3>5 DEF LcdLines
        <3>7. r \in F /\ DOMAIN ddram = 0..1
            BY <3>4, <3>6
        <3>8. ddram' = [ddram EXCEPT ![1] = [r EXCEPT ![x] = c]]
            BY <3>2, <3>4
        <3>9. ddram'[1] = [r EXCEPT ![x] = c] /\ ddram'[0] = ddram[0]
            <4>1. PICK g : g = [r EXCEPT ![x] = c]
                OBVIOUS
            <4> QED BY <3>7, <3>8, <4>1
        <3> QED BY <2>2, <3>1, <3>3, <3>4, <3>7, <3>9, <3>5
    <2>9. \A z \in 0..LcdWidth - 1 : z < n + 1 - 7 - LcdWidth => ddram'[1][z] = Message2[z + 1]
        BY <1>0, <2>1, <2>8 DEF GreetingDone
    <2>10. \A z \in 0..LcdWidth - 1 : ddram'[0][z] = Message1[z + 1]
        BY <1>0, <1>9, <2>8 DEF GreetingDone
    <2>11. n + 1 >= 7 + LcdWidth /\ n + 1 - 7 - LcdWidth = x + 1
        BY <1>0, <1>9, <2>1
    <2> QED BY <1>0, <2>4, <2>6, <2>7, <2>9, <2>10, <2>11 DEF GreetingDone
<1> QED BY <1>0, <1>1, <1>2, <1>3, <1>4, <1>5, <1>6, <1>7, <1>8, <1>9

LEMMA PutByteStep == ASSUME LcdInv, Panel!PutByte PROVE LcdInv'
<1>1. /\ bytes # <<>> /\ bytes' = Tail(bytes) /\ busy' = TRUE /\ UNCHANGED <<done, opened, doing>>
      /\ IF Head(bytes)[1] = "put" THEN Panel!TakesChar(Head(bytes)[2]) ELSE Panel!Takes(Head(bytes)[2])
    BY DEF Panel!PutByte, Panel!Lcdbusywait
<1>2. LcdTyped /\ bytes \in Seq(LcdByte)
    BY DEF LcdInv, LcdTyped
<1>3. /\ Len(bytes) \in Nat \ {0} /\ Head(bytes) = bytes[1] /\ Head(bytes) \in LcdByte
      /\ bytes' \in Seq(LcdByte) /\ Len(bytes') = Len(bytes) - 1
      /\ \A i \in 1..Len(bytes) - 1 : bytes'[i] = bytes[i + 1]
    BY <1>1, <1>2, FirstByte
<1>4. LcdTyped'
    <2>1. CASE Head(bytes)[1] = "put"
        <3>1. Head(bytes)[2] \in Chars /\ Panel!TakesChar(Head(bytes)[2])
            BY <1>1, <1>3, <2>1 DEF LcdByte
        <3> QED BY <1>1, <1>2, <1>3, <3>1, CharTyped DEF LcdTyped
    <2>2. CASE Head(bytes)[1] # "put"
        BY <1>1, <1>2, <1>3, <2>2, ControlTyped DEF LcdTyped
    <2> QED BY <2>1, <2>2
<1>5. GreetingInv'
    <2> SUFFICES ASSUME doing \in {"attach", "restore"}
                 PROVE  /\ Len(bytes') <= Length
                        /\ \A i \in 1..Len(bytes') : bytes'[i] = Spelt(Taken' + i)
                        /\ GreetingDone(Taken', entry', shown', addr', shift', ddram')
        BY <1>1 DEF GreetingInv, GreetingDone, AddressAt, Spelt, Panel!Ctrl, Panel!Put
    <2>1. PICK n : n = Taken
        OBVIOUS
    <2>2. /\ Len(bytes) <= Length /\ GreetingDone(n, entry, shown, addr, shift, ddram)
          /\ \A i \in 1..Len(bytes) : bytes[i] = Spelt(n + i)
        BY <2>1 DEF LcdInv, GreetingInv
    <2>3. n \in 0..Length - 1 /\ Taken' = n + 1 /\ Head(bytes) = Spelt(n + 1)
        BY <1>3, <2>1, <2>2, LcdNumbers DEF Taken
    <2>4. GreetingDone(n + 1, entry', shown', addr', shift', ddram')
        BY <1>1, <1>2, <2>2, <2>3, GreetingGoesOn
    <2>5. ASSUME NEW i \in 1..Len(bytes') PROVE bytes'[i] = Spelt(n + 1 + i)
        <3>1. i + 1 \in 1..Len(bytes) /\ bytes'[i] = bytes[i + 1] /\ n + (i + 1) = n + 1 + i
            BY <1>3, <2>3
        <3> QED BY <2>2, <3>1
    <2> QED BY <1>3, <2>2, <2>3, <2>4, <2>5, LcdNumbers
<1> QED BY <1>4, <1>5 DEF LcdInv

LEMMA LcdInit == Panel!Init => LcdInv
<1> SUFFICES ASSUME Panel!Init PROVE LcdInv
    OBVIOUS
<1>1. LcdTyped
    <2>1. opened \in BOOLEAN /\ shown \in BOOLEAN /\ busy \in BOOLEAN
        BY DEF Panel!Init
    <2>2. addr \in [y : 0..1, x : 0..LineLen - 1]
        BY LcdNumbers DEF Panel!Init
    <2> QED BY <2>1, <2>2, GreetingSpelt, BlankTyped, LcdNumbers DEF Panel!Init, LcdTyped
<1>2. Len(bytes) = Length /\ Taken = 0 /\ \A i \in 1..Length : bytes[i] = Spelt(i)
    BY GreetingSpelt, LcdNumbers DEF Panel!Init, Taken
<1>3. GreetingDone(0, entry, shown, addr, shift, ddram)
    BY LcdNumbers DEF GreetingDone
<1>4. GreetingInv
    BY <1>2, <1>3, LcdNumbers DEF GreetingInv
<1> QED BY <1>1, <1>4 DEF LcdInv

LEMMA BeginsStep ==
    ASSUME LcdInv, NEW what \in {"write", "ioctl", "restore"}, NEW seq \in Seq(LcdByte), Panel!Begins(what, seq),
           what = "restore" => seq = Panel!Greeting
    PROVE  LcdInv'
<1>1. LcdTyped'
    <2>1. done' \in 0..MaxOps
        BY LcdNumbers DEF Panel!Begins, LcdInv, LcdTyped
    <2>2. doing' \in {"attach", "write", "ioctl", "restore"} /\ bytes' \in Seq(LcdByte)
        BY DEF Panel!Begins
    <2>3. UNCHANGED <<opened, ddram, addr, shift, entry, shown, busy>>
        BY DEF Panel!Begins
    <2> QED BY <2>1, <2>2, <2>3 DEF LcdInv, LcdTyped
<1>2. CASE what = "restore"
    <2>1. doing' = "restore" /\ bytes' = Panel!Greeting
        BY <1>2 DEF Panel!Begins
    <2>2. Len(bytes') = Length /\ Taken' = 0 /\ \A i \in 1..Length : bytes'[i] = Spelt(i)
        BY <2>1, GreetingSpelt, LcdNumbers DEF Taken
    <2>3. GreetingDone(0, entry, shown, addr, shift, ddram)'
        BY LcdNumbers DEF GreetingDone
    <2>4. GreetingInv'
        <3>1. ASSUME NEW i \in 1..Len(bytes') PROVE bytes'[i] = Spelt(Taken' + i)
            <4>1. Taken' + i = i /\ i \in 1..Length
                BY <2>2, LcdNumbers
            <4> QED BY <2>2, <4>1
        <3>2. \A i \in 1..Len(bytes') : Spelt(Taken + i)' = Spelt(Taken' + i)
            BY DEF Spelt, Panel!Ctrl, Panel!Put
        <3>3. GreetingDone(Taken, entry, shown, addr, shift, ddram)'
            BY <2>2, <2>3 DEF GreetingDone
        <3>4. Len(bytes') <= Length
            BY <2>2, LcdNumbers
        <3> QED BY <3>1, <3>2, <3>3, <3>4 DEF GreetingInv
    <2> QED BY <1>1, <2>4 DEF LcdInv
<1>3. CASE what # "restore"
    BY <1>1, <1>3 DEF Panel!Begins, LcdInv, GreetingInv
<1> QED BY <1>2, <1>3

LEMMA LcdStep == LcdInv /\ [Panel!Next]_lcdVars => LcdInv'
<1> SUFFICES ASSUME LcdInv, [Panel!Next]_lcdVars PROVE LcdInv'
    OBVIOUS
<1>1. CASE Panel!PutByte
    BY <1>1, PutByteStep
<1>2. CASE Panel!Lcdwrite
    <2>1. PICK n \in 1..MaxBufLen + 1, ch \in Chars :
             n <= MaxBufLen /\ Panel!Begins("write", Panel!Lcdshow([i \in 1..n |-> ch]))
        BY <1>2 DEF Panel!Lcdwrite
    <2>2. [i \in 1..n |-> ch] \in Seq(Chars)
        BY LcdNumbers
    <2>3. Panel!Lcdshow([i \in 1..n |-> ch]) \in Seq(LcdByte)
        BY <2>2, LcdBytes
    <2> QED BY <2>1, <2>3, BeginsStep
<1>3. CASE Panel!Lcdioctl
    <2>1. PICK c \in Controls : Panel!Begins("ioctl", <<Panel!Ctrl(c)>>)
        BY <1>3 DEF Panel!Lcdioctl, Controls
    <2>2. <<Panel!Ctrl(c)>> \in Seq(LcdByte)
        BY LcdBytes
    <2> QED BY <2>1, <2>2, BeginsStep
<1>4. CASE Panel!Lcdrestore
    BY <1>4, BeginsStep, GreetingSpelt DEF Panel!Lcdrestore
<1>5. CASE Panel!Settles \/ Panel!Lcdopen \/ Panel!Lcdclose \/ UNCHANGED lcdVars
    <2>1. UNCHANGED <<done, doing, bytes, ddram, addr, shift, entry, shown>>
        BY <1>5 DEF Panel!Settles, Panel!Lcdopen, Panel!Lcdclose, lcdVars
    <2>2. opened' \in BOOLEAN /\ busy' \in BOOLEAN
        BY <1>5 DEF Panel!Settles, Panel!Lcdopen, Panel!Lcdclose, lcdVars, LcdInv, LcdTyped
    <2> QED BY <2>1, <2>2 DEF LcdInv, LcdTyped, GreetingInv, Taken, GreetingDone, AddressAt, Spelt, Panel!Ctrl, Panel!Put
<1> QED BY <1>1, <1>2, <1>3, <1>4, <1>5 DEF Panel!Next

LEMMA MessagesAgree == LcdInv => RestoreShowsMessages
<1> SUFFICES ASSUME LcdInv, bytes = <<>>, doing \in {"attach", "restore"}
             PROVE  shown /\ Panel!Window(0) = Message1 /\ Panel!Window(1) = Message2
    BY DEF RestoreShowsMessages, Panel!RestoreShowsMessages, Panel!Idle
<1>1. Taken = Length /\ GreetingDone(Length, entry, shown, addr, shift, ddram)
    BY LcdNumbers DEF LcdInv, GreetingInv, Taken
<1>2. Length = 7 + LcdWidth + LcdWidth /\ Length >= 7 + LcdWidth /\ LcdWidth \in Nat /\ LineLen \in Nat \ {0}
    BY LcdNumbers DEF Length
<1>3. shown /\ shift = 0
    <2>1. Length >= 3 /\ Length >= 4
        BY <1>2
    <2>2. (Length >= 3 => shown) /\ (Length >= 4 => shift = 0)
        BY <1>1, Zenon DEF GreetingDone
    <2> QED BY <2>1, <2>2
<1>4. ASSUME NEW x \in 0..LcdWidth - 1 PROVE ddram[0][x] = Message1[x + 1] /\ ddram[1][x] = Message2[x + 1]
    <2>1. x < Length - 6 /\ x < Length - 7 - LcdWidth
        BY <1>2
    <2>2. /\ x < Length - 6 => ddram[0][x] = Message1[x + 1]
          /\ x < Length - 7 - LcdWidth => ddram[1][x] = Message2[x + 1]
        BY <1>1, Zenon DEF GreetingDone
    <2> QED BY <2>1, <2>2
<1>5. ASSUME NEW i \in 1..LcdWidth
      PROVE  /\ ddram[0][(shift + i - 1) % LineLen] = Message1[i]
             /\ ddram[1][(shift + i - 1) % LineLen] = Message2[i]
    <2>1. PICK x : x = i - 1
        OBVIOUS
    <2>2. x \in 0..LcdWidth - 1 /\ x \in 0..LineLen - 1 /\ shift + i - 1 = x /\ x + 1 = i
        BY <1>2, <1>3, <2>1, LcdNumbers
    <2>3. x % LineLen = x
        BY <1>2, <2>2
    <2> QED BY <1>4, <2>2, <2>3
<1>6. /\ Panel!Window(0) = [i \in 1..LcdWidth |-> Message1[i]]
      /\ Panel!Window(1) = [i \in 1..LcdWidth |-> Message2[i]]
    BY <1>5 DEF Panel!Window
<1>7. /\ Message1 = [i \in 1..LcdWidth |-> Message1[i]]
      /\ Message2 = [i \in 1..LcdWidth |-> Message2[i]]
    BY PanelAssumption
<1> QED BY <1>3, <1>6, <1>7

LEMMA PanelTyped == LcdInv => Panel!TypeOK
<1> SUFFICES ASSUME LcdInv PROVE Panel!TypeOK
    OBVIOUS
<1>1. \A i \in 1..Len(bytes) : bytes[i][1] \in {"put", "ctrl"}
    <2>1. \A i \in 1..Len(bytes) : bytes[i] \in LcdByte
        BY DEF LcdInv, LcdTyped
    <2> QED BY <2>1 DEF LcdByte
<1>2. \A y \in 0..1, x \in 0..LineLen - 1 : ddram[y][x] \in Chars \cup {" "}
    BY DEF LcdInv, LcdTyped, LcdLines
<1>3. {opened, shown, busy} \subseteq BOOLEAN
    BY DEF LcdInv, LcdTyped
<1> QED BY <1>1, <1>2, <1>3 DEF LcdInv, LcdTyped, Panel!TypeOK

-----------------------------------------------------------------------------
(* All of them                                                             *)

(***************************************************************************)
(* What every reachable state satisfies: the invariants of the parts, and  *)
(* the types that these do not contain.                                    *)
(***************************************************************************)
DevicesInv ==
    /\ HatchInv
    /\ LabelInv
    /\ TextInv
    /\ MapInv /\ Display!TypeOK
    /\ KeysInv
    /\ ClockInv /\ Tod!TypeOK
    /\ LcdInv

LEMMA DevicesStart == DevicesInit => DevicesInv
    BY HatchStart, LabelInit, TextStart, MapInit, DisplayInit, KeysInit, ClockInit, TodInit, LcdInit
       DEF DevicesInit, DevicesInv

LEMMA DevicesStep == DevicesInv /\ [DevicesNext]_devicesVars => DevicesInv'
<1> SUFFICES ASSUME DevicesInv, [DevicesNext]_devicesVars PROVE DevicesInv'
    OBVIOUS
<1>1. /\ [Next]_vars /\ [Labels!Next]_labelVars /\ [Text!Next]_rasterVars /\ [Display!Next]_fbVars
      /\ [Keys!Next]_lunawsVars /\ [Tod!Next]_clockVars /\ [Panel!Next]_lcdVars
    BY StepsOfParts
<1>2. LabelInv'
    BY <1>1, LabelStep DEF DevicesInv
<1>3. (MapInv /\ Display!TypeOK)'
    BY <1>1, MapStep, DisplayTyped DEF DevicesInv
<1>4. KeysInv'
    BY <1>1, KeysStep DEF DevicesInv
<1>5. (ClockInv /\ Tod!TypeOK)'
    BY <1>1, ClockStep, TodTyped DEF DevicesInv
<1>6. LcdInv'
    BY <1>1, LcdStep DEF DevicesInv
<1>7. HatchInv'
    BY <1>1, HatchStep DEF DevicesInv
<1>8. TextInv'
    BY <1>1, TextStep DEF DevicesInv
<1> QED BY <1>2, <1>3, <1>4, <1>5, <1>6, <1>7, <1>8 DEF DevicesInv

LEMMA DevicesSafe == DevicesSpec => []DevicesInv
    BY DevicesStart, DevicesStep, PTL DEF DevicesSpec

\* Every variable of every part has its type.  Among these are the counters of the
\* processors' start, the numbers of a label, the receiver's FIFO and the cursor of the
\* panel, which no sequence of calls takes out of their range.
THEOREM DevicesTyped == DevicesSpec => []DevicesTypeOK
<1>1. DevicesInv => DevicesTypeOK
    BY HatchTyped, TextShown, PanelTyped DEF DevicesInv, DevicesTypeOK, LabelInv, KeysInv
<1> QED BY <1>1, DevicesSafe, PTL

\* A label the kernel has written is the one it reads again, of every partition whose
\* numbers the sector has room for (readdisklabel(), writedisklabel()).
THEOREM DevicesLabelSurvives == DevicesSpec => []LabelSurvives
<1>1. DevicesInv => LabelSurvives
    BY LabelsAgree DEF DevicesInv
<1> QED BY <1>1, DevicesSafe, PTL

\* The boot loader's copy of the reader finds the partitions the kernel finds in the
\* same sector (disksubr.c, ufs_disksubr.c).
THEOREM DevicesReadersAgree == DevicesSpec => []ReadersAgree
<1>1. DevicesInv => ReadersAgree
    BY LabelsAgree DEF DevicesInv
<1> QED BY <1>1, DevicesSafe, PTL

\* Whatever is drawn, erased, copied and scrolled, every plane of a screen of four shows the
\* characters that the console was told to show, and the cursor: blocks are moved a part
\* of a word at a time and yet as if at once, where they overlap as well (omrasops1.c,
\* omrasops.c).  A screen of one plane does so until a move clears or copies whole words,
\* where the code loses its pointer.
THEOREM DevicesShowsText == DevicesSpec => []DisplayShowsText
<1>1. DevicesInv => DisplayShowsText
    BY TextShown DEF DevicesInv, DisplayShowsText
<1> QED BY <1>1, DevicesSafe, PTL

\* The copy of the colour map that GETCMAP reads is what the RAMDAC shows, for maps of any
\* size, also after a PUTCMAP that failed half way and changes of the depth (lunafb.c).
THEOREM DevicesCopyIsShown == DevicesSpec => []CopyIsShown
<1>1. DevicesInv => CopyIsShown
    BY MapAgrees DEF DevicesInv
<1> QED BY <1>1, DevicesSafe, PTL

\* wsintr() makes up no event before a byte is lost, taken or cut off, and at most three
\* after that, whatever the size of the receiver's FIFO.
THEOREM DevicesFindsReports == DevicesSpec => []FindsReports
<1>1. DevicesInv => FindsReports
    BY ReportsFound DEF DevicesInv
<1> QED BY <1>1, DevicesSafe, PTL

\* The time that was last set is the system's and the chip's, through reboots and panics,
\* at every month that two digits of the year tell apart (clock.c, timekeeper.c).
THEOREM DevicesTimeIsKept == DevicesSpec => []TimeIsKept
<1>1. DevicesInv => TimeIsKept
    BY TimeAgrees DEF DevicesInv
<1> QED BY <1>1, DevicesSafe, PTL

\* greeting() leaves the two messages on the panel, whatever was written, moved, shifted or
\* switched off before, for lines of any length (lcd.c).
THEOREM DevicesRestoreShowsMessages == DevicesSpec => []RestoreShowsMessages
<1>1. DevicesInv => RestoreShowsMessages
    BY MessagesAgree DEF DevicesInv
<1> QED BY <1>1, DevicesSafe, PTL
=============================================================================
