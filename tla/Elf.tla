-------------------------------- MODULE Elf ---------------------------------
(***************************************************************************)
(* The bounded reader of the initial package's images: elf.rs              *)
(* parse_user_image, one program header at a time over every table of a    *)
(* small format.  Addresses wrap at Wrap; checked_add refuses instead.     *)
(***************************************************************************)
EXTENDS Naturals, Sequences, FiniteSets

CONSTANTS
    PAGE_SIZE, USER_MIN_ADDR, USER_MAX_ADDR, Wrap,
    MAX_SEGMENTS, MAX_IMAGE_PAGES,
    ImageLength,   \* bytes of the image
    MaxHeaders,    \* program headers of a table
    Offsets, Addresses, FileSizes, MemorySizes, Entries

Flags == SUBSET {"R", "W", "X"}
Headers == [load : BOOLEAN, flags : Flags, offset : Offsets, vaddr : Addresses,
            filesz : FileSizes, memsz : MemorySizes]

VARIABLES verdict, segments, pages, entry, left

vars == <<verdict, segments, pages, entry, left>>

(* The header: magic, type and the bounds of the table hold, or the image is *)
(* refused before a segment is read.                                         *)
Init ==
    /\ verdict \in {"reading", "BadHeader"}
    /\ segments = <<>> /\ pages = 0
    /\ entry \in Entries
    /\ left \in 1..MaxHeaders

PagesOf(s) == (s.memsz + PAGE_SIZE - 1) \div PAGE_SIZE

EndOf(s) == s.vaddr + PagesOf(s) * PAGE_SIZE

\* Mutant: the headers are taken to be in ascending order.
OverlapAscending(s, t) == t.vaddr <= s.vaddr /\ s.vaddr < EndOf(t)
Overlap(s, t) == s.vaddr < EndOf(t) /\ t.vaddr < EndOf(s)

(* The first reason to refuse a loadable header, in the order they are tried. *)
Reject(h) ==
    LET tests == <<
          <<h.filesz > h.memsz, "SegmentFileLargerThanMemory">>,
          <<h.offset + h.filesz >= Wrap \/ h.offset + h.filesz > ImageLength,
            "SegmentOutsideImage">>,
          <<h.vaddr % PAGE_SIZE # 0, "SegmentUnaligned">>,
          <<h.vaddr + h.memsz >= Wrap \/ h.vaddr < USER_MIN_ADDR
              \/ h.vaddr + h.memsz > USER_MAX_ADDR, "SegmentOutsideUserRange">>,
          <<{"W", "X"} \subseteq h.flags, "SegmentWriteAndExecute">>,
          <<"R" \notin h.flags, "SegmentWriteOrExecuteWithoutRead">>,
          <<\E i \in 1..Len(segments) : Overlap(h, segments[i]), "SegmentOverlap">>,
          <<pages + PagesOf(h) > MAX_IMAGE_PAGES, "ImageTooManyPages">> >>
        failed == {i \in 1..Len(tests) : tests[i][1]}
    IN  IF failed = {} THEN "none"
        ELSE tests[CHOOSE i \in failed : \A j \in failed : i <= j][2]

Segment(h) == [vaddr |-> h.vaddr, memsz |-> h.memsz, flags |-> h.flags]

Read(h) ==
    /\ verdict = "reading" /\ left > 0
    /\ left' = left - 1
    /\ IF ~h.load
       THEN UNCHANGED <<verdict, segments, pages>>
       ELSE IF Len(segments) = MAX_SEGMENTS
       THEN verdict' = "SegmentCount" /\ UNCHANGED <<segments, pages>>
       ELSE IF h.memsz = 0
       THEN UNCHANGED <<verdict, segments, pages>>
       ELSE IF Reject(h) # "none"
       THEN verdict' = Reject(h) /\ UNCHANGED <<segments, pages>>
       ELSE /\ segments' = Append(segments, Segment(h))
            /\ pages' = pages + PagesOf(h)
            /\ UNCHANGED verdict
    /\ UNCHANGED entry

EntryInside ==
    \E i \in 1..Len(segments) :
        /\ "X" \in segments[i].flags
        /\ entry >= segments[i].vaddr /\ entry < segments[i].vaddr + segments[i].memsz

Conclude ==
    /\ verdict = "reading" /\ left = 0
    /\ verdict' = IF segments = <<>> THEN "SegmentCount"
                  ELSE IF EntryInside THEN "Ok" ELSE "EntryNotExecutable"
    /\ UNCHANGED <<segments, pages, entry, left>>

Next == (\E h \in Headers : Read(h)) \/ Conclude

Spec == Init /\ [][Next]_vars

-----------------------------------------------------------------------------

(* An accepted image can be mapped as it stands: each page it names is in    *)
(* the user range and belongs to exactly one segment, no page is writable    *)
(* and executable, the page count is the number of distinct pages, and the   *)
(* entry point lies on an executable page (elf.rs, parse_user_image).        *)
PageSet(s) == {s.vaddr \div PAGE_SIZE + k : k \in 0..PagesOf(s) - 1}
Mapped == UNION {PageSet(segments[i]) : i \in 1..Len(segments)}
AcceptedMaps ==
    verdict = "Ok" =>
        /\ \A p \in Mapped :
              /\ p * PAGE_SIZE >= USER_MIN_ADDR /\ (p + 1) * PAGE_SIZE <= USER_MAX_ADDR
              /\ Cardinality({i \in 1..Len(segments) : p \in PageSet(segments[i])}) = 1
        /\ Cardinality(Mapped) = pages /\ pages <= MAX_IMAGE_PAGES
        /\ \E i \in 1..Len(segments) :
              "X" \in segments[i].flags /\ entry \div PAGE_SIZE \in PageSet(segments[i])
=============================================================================
