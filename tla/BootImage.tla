----------------------------- MODULE BootImage -----------------------------
(***************************************************************************)
(* Kernel files of the Android machine: core/vm/bootimg.c reads boot       *)
(* images of the versions 0 to 4; what has no magic is a raw kernel.  A    *)
(* file is a sequence of cells <<part, index>>, sizes and offsets are in   *)
(* cells, and a header fits into a page.                                   *)
(***************************************************************************)
EXTENDS Integers, Sequences

CONSTANT V3Page   \* the page of versions 3 and 4, which do not name one

ASSUME ImageConstants == V3Page \in Nat \ {0}

\* What a file is: with the magic the header's fields, else the kernel's size.
BootImages ==
    [magic : BOOLEAN, version : 0..4, page : Nat \ {0}, header : Nat, kernel : Nat,
     ramdisk : Nat, second : Nat, dtbo : Nat, dtb : Nat, cmdline : STRING]

\* align_up.
AlignUp(val, page) == ((val + page - 1) \div page) * page

PageOf(image) == IF image.version >= 3 THEN V3Page ELSE image.page

\* The file as the format lays it out: each part starts on a page.
Section(part, size, page) ==
    [k \in 1..AlignUp(size, page) |-> IF k <= size THEN <<part, k - 1>> ELSE <<"pad">>]
Contents(image) ==
    LET page == PageOf(image)
    IN  IF image.magic
        THEN Section("header", image.header, page) \o Section("kernel", image.kernel, page)
             \o Section("ramdisk", image.ramdisk, page) \o Section("second", image.second, page)
             \o Section("dtbo", image.dtbo, page) \o Section("dtb", image.dtb, page)
        ELSE Section("kernel", image.kernel, 1)

\* sv_bootimg_parse: where the parts are taken to be.  Version 0 aligns its
\* header, the others use the size the header states.  Behind a recovery
\* DTBO the second stage is skipped once more, not the DTBO.
KernelAt(image) ==
    IF image.version = 0 THEN AlignUp(image.header, image.page) ELSE image.header
RamdiskAt(image) == KernelAt(image) + AlignUp(image.kernel, PageOf(image))
SecondAt(image) == RamdiskAt(image) + AlignUp(image.ramdisk, PageOf(image))
DtbAt(image) ==
    LET second == AlignUp(image.second, PageOf(image))
    IN  CASE image.version = 4 -> SecondAt(image)
          [] image.version = 2 -> SecondAt(image) + (IF image.dtbo > 0 THEN 2 * second ELSE second)
HasDtb(image) == image.version \in {2, 4} /\ image.dtb > 0

\* size cells of the file from an offset on.
Cut(image, from, size) ==
    LET file == Contents(image)
    IN  [k \in 0..(size - 1) |->
            IF from + k < Len(file) THEN file[from + k + 1] ELSE <<"beyond">>]
=============================================================================
