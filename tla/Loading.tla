-------------------------------- MODULE Loading --------------------------------
(***************************************************************************)
(* How an image becomes the initial memory of a machine: the program       *)
(* headers of an ELF file, or raw code, and the additional mappings of the *)
(* setup (engine/src/load.rs, load/segment.rs, load/setup.rs, core's       *)
(* address.rs and memory.rs).  A file is discovered header by header; a    *)
(* byte is its place in the file, and zero elsewhere.                      *)
(***************************************************************************)
EXTENDS Integers, Sequences, FiniteSets, SequencesExt

CONSTANTS
    Top,               (* 2^64: addresses are 0 .. Top - 1              *)
    Page,              (* page_size, 4096                               *)
    MaxMapped,         (* MAX_MAPPED_BYTES                              *)
    MaxRegions,        (* MAX_REGIONS                                   *)
    MaxHeaders,        (* 256 program headers                           *)
    FileLimit,         (* MAX_OBJECT_BYTES, the length of the file      *)
    Alignment,         (* instruction_alignment of the target           *)
    Headers,           (* program headers a file may have               *)
    Entries,           (* entry addresses a file may name               *)
    Raws,              (* raw code: its base and length                 *)
    Additions          (* additional mappings                           *)

Addresses == 0 .. Top - 1

ASSUME LoadingAssumption ==
    /\ Page \in Nat \ {0} /\ Top \in Nat \ {0} /\ Top % Page = 0
    /\ MaxMapped \in Nat /\ MaxRegions \in Nat /\ MaxHeaders \in Nat
    /\ Alignment \in Nat \ {0} /\ Entries \subseteq Addresses

(* What the types of a program header, of raw code and of an additional    *)
(* mapping admit: no range is empty.                                       *)
ASSUME InputsAssumption ==
    /\ \A h \in Headers : {h.start, h.offset, h.size, h.filesize} \subseteq Nat
    /\ \A raw \in Raws : raw.base \in Addresses /\ raw.length \in Nat
    /\ Additions \subseteq [range : [start : Nat, length : Nat \ {0}],
                            permissions : SUBSET {"r", "w", "x"}, initial : Seq(Nat)]

VARIABLES
    stage,             (* where LoadPlan::new has come to               *)
    headers,           (* program headers read so far                   *)
    previous,          (* previous_address                              *)
    segments,          (* non-empty PT_LOAD headers                     *)
    mapped,            (* segments already merged into mappings         *)
    mappings,
    regions,
    entry,
    added              (* additional mappings so far                    *)

reading == <<headers, previous, segments>>
loadingVars == <<stage, reading, mapped, mappings, regions, entry, added>>

NoEntry == -1

-----------------------------------------------------------------------------
(* Ranges: their end may be Top.                                           *)

AddressRange(start, length) == [start |-> start, length |-> length]
IsRange(range, limit) == range.length \in 1 .. limit /\ range.start + range.length <= Top
End(range) == range.start + range.length

Overlaps(a, b) == a.start < End(b) /\ b.start < End(a)
ContainsRange(a, b) == b.start >= a.start /\ End(b) <= End(a)

Greatest(set) == IF set = {} THEN 0 ELSE CHOOSE n \in set : \A k \in set : k <= n

NextMultiple(n) == ((n + Page - 1) \div Page) * Page
PageStart(a) == a - (a % Page)
PagesOf(range) == AddressRange(PageStart(range.start), NextMultiple(End(range)) - PageStart(range.start))

PowersOfTwo == {2 ^ n : n \in 0 .. 6}

(* MemoryRegion::new *)
IsRegion(region) ==
    /\ region.range.start % Page = 0 /\ region.range.length % Page = 0
    /\ region.range.length <= MaxMapped /\ Len(region.initial) <= region.range.length

TotalLength(list) ==
    LET sum[n \in 0 .. Len(list)] == IF n = 0 THEN 0 ELSE sum[n - 1] + list[n].range.length
    IN  sum[Len(list)]

(* MemoryLayout::new, on regions sorted by their start. *)
IsLayout(list) ==
    /\ Len(list) \in 1 .. MaxRegions
    /\ \A i \in 1 .. Len(list) - 1 : ~Overlaps(list[i].range, list[i + 1].range)
    /\ TotalLength(list) <= MaxMapped

SortedByStart(list) ==
    LET places == CHOOSE p \in [DOMAIN list -> DOMAIN list] :
            /\ \A i, j \in DOMAIN list : i # j => p[i] # p[j]
            /\ \A i, j \in DOMAIN list : i < j =>
                \/ list[p[i]].range.start < list[p[j]].range.start
                \/ list[p[i]].range.start = list[p[j]].range.start /\ p[i] < p[j]
    IN  [i \in DOMAIN list |-> list[places[i]]]

-----------------------------------------------------------------------------
(* Program headers.                                                        *)

Ignored(h) ==
    \/ h.type = "note"
    \/ h.type = "stack" /\ "x" \notin h.flags /\ h.size = 0

IsCongruent(h) ==
    LET align == IF h.align = 0 THEN 1 ELSE h.align IN
    /\ h.filesize <= h.size
    /\ align \in PowersOfTwo
    /\ h.start % align = h.offset % align /\ h.start % Page = h.offset % Page

(* load, for a header that occupies memory. *)
IsLoadable(h) ==
    /\ IsRange(AddressRange(h.start, h.size), MaxMapped)
    /\ IsRange(PagesOf(AddressRange(h.start, h.size)), MaxMapped)
    /\ h.filesize > 0 => h.offset + h.filesize <= FileLimit

Segment(h) ==
    [range |-> AddressRange(h.start, h.size), pages |-> PagesOf(AddressRange(h.start, h.size)),
     permissions |-> h.flags, data |-> [i \in 1 .. h.filesize |-> h.offset + i]]

Refuse == stage' = "refused" /\ UNCHANGED <<mapped, mappings, regions, entry, added>>

(* The setup's registers and the number of its mappings, and the file's own*)
(* header, are checked before the program headers.                         *)
ReadFileHeader ==
    /\ stage = "setup"
    /\ stage' \in {"headers", "unsuitable"}
    /\ UNCHANGED <<reading, mapped, mappings, regions, entry, added>>

ReadLoad(h) ==
    /\ previous' = h.start
    /\ IF previous > h.start \/ ~IsCongruent(h) \/ ~(h.flags \subseteq {"r", "w", "x"})
       THEN Refuse /\ UNCHANGED segments
       ELSE IF h.size = 0 THEN UNCHANGED <<segments, stage, mapped, mappings, regions, entry, added>>
       ELSE IF \/ ~IsLoadable(h)
               \/ segments # <<>> /\ Overlaps(Last(segments).range, AddressRange(h.start, h.size))
       THEN Refuse /\ UNCHANGED segments
       ELSE /\ segments' = Append(segments, Segment(h))
            /\ UNCHANGED <<stage, mapped, mappings, regions, entry, added>>

ReadHeader ==
    /\ stage = "headers" /\ Len(headers) < MaxHeaders
    /\ \E h \in Headers :
        /\ headers' = Append(headers, h)
        /\ IF h.type = "load" THEN ReadLoad(h)
           ELSE /\ UNCHANGED <<previous, segments>>
                /\ IF Ignored(h) THEN UNCHANGED <<stage, mapped, mappings, regions, entry, added>>
                   ELSE Refuse

-----------------------------------------------------------------------------
(* The entry, and segments merged into mappings.                           *)

IsEntry(e, ranges) ==
    /\ e % Alignment = 0 /\ e + Alignment <= Top
    /\ \E r \in ranges : ContainsRange(r, AddressRange(e, Alignment))

ValidateEntry ==
    /\ stage = "headers"
    /\ entry' \in Entries
    /\ LET executable == {i \in DOMAIN segments : "x" \in segments[i].permissions} IN
        stage' = IF IsEntry(entry', {segments[i].range : i \in executable})
                 THEN "mappings" ELSE "refused"
    /\ UNCHANGED <<reading, mapped, mappings, regions, added>>

(* Mutant of Merge: a page keeps the permissions it was first mapped with. *)
MergeFirst(list, s) ==
    IF list # <<>> /\ s.pages.start <= End(Last(list).range)
    THEN [list EXCEPT ![Len(list)].range.length =
            Greatest({End(Last(list).range), End(s.pages)}) - Last(list).range.start]
    ELSE Append(list, [range |-> s.pages, permissions |-> s.permissions])

(* A mapping that the segment's pages touch grows when its permissions are *)
(* the same.                                                               *)
Merge(list, s) ==
    IF list # <<>> /\ s.pages.start <= End(Last(list).range) /\ Last(list).permissions = s.permissions
    THEN [list EXCEPT ![Len(list)].range.length =
            Greatest({End(Last(list).range), End(s.pages)}) - Last(list).range.start]
    ELSE Append(list, [range |-> s.pages, permissions |-> s.permissions])

(* Mutant of Conflicts: adjoining pages are taken for one page. *)
ConflictsAdjacent(list, s) ==
    /\ list # <<>> /\ Last(list).permissions # s.permissions
    /\ s.pages.start <= End(Last(list).range)

Conflicts(list, s) ==
    /\ list # <<>> /\ Last(list).permissions # s.permissions
    /\ s.pages.start < End(Last(list).range)

MapSegment ==
    /\ stage = "mappings" /\ mapped < Len(segments)
    /\ LET s == segments[mapped + 1] merged == Merge(mappings, s) IN
        IF Conflicts(mappings, s) \/ ~IsRange(Last(merged).range, MaxMapped)
        THEN stage' = "refused" /\ UNCHANGED <<mapped, mappings>>
        ELSE mapped' = mapped + 1 /\ mappings' = merged /\ UNCHANGED stage
    /\ UNCHANGED <<reading, regions, entry, added>>

(* Mapping::initialize: file bytes at their addresses, up to the last one. *)
Included(m) ==
    {i \in DOMAIN segments : ContainsRange(m.range, segments[i].range) /\ segments[i].data # <<>>}

Initial(m) ==
    LET offset(i) == segments[i].range.start - m.range.start
        length == Greatest({offset(i) + Len(segments[i].data) : i \in Included(m)})
        within(b) == {i \in Included(m) : b \in offset(i) + 1 .. offset(i) + Len(segments[i].data)}
    IN  [b \in 1 .. length |->
            IF within(b) = {} THEN 0
            ELSE LET i == Greatest(within(b)) IN segments[i].data[b - offset(i)]]

Region(m) == [range |-> m.range, permissions |-> m.permissions, initial |-> Initial(m)]

Initialize ==
    /\ stage = "mappings" /\ mapped = Len(segments)
    /\ LET list == [i \in DOMAIN mappings |-> Region(mappings[i])] IN
        IF IsLayout(list) /\ \A i \in DOMAIN list : IsRegion(list[i])
        THEN regions' = list /\ stage' = "additions"
        ELSE stage' = "refused" /\ UNCHANGED regions
    /\ UNCHANGED <<reading, mapped, mappings, entry, added>>

(* from_raw: one mapping, readable and executable. *)
LoadRaw ==
    /\ stage = "setup"
    /\ \E raw \in Raws :
        LET contents == AddressRange(raw.base, raw.length)
            region == [range |-> PagesOf(contents), permissions |-> {"r", "x"},
                       initial |-> [b \in 1 .. (raw.base % Page) + raw.length |->
                                        IF b <= raw.base % Page THEN 0 ELSE b - (raw.base % Page)]]
        IN  /\ headers' = <<[type |-> "raw", start |-> raw.base, offset |-> 0, size |-> raw.length,
                             filesize |-> raw.length, align |-> 1, flags |-> {"r", "x"}]>>
            /\ entry' \in Entries
            /\ IF /\ IsRange(contents, FileLimit) /\ IsEntry(entry', {contents})
                  /\ IsRange(region.range, MaxMapped) /\ IsRegion(region) /\ IsLayout(<<region>>)
               THEN regions' = <<region>> /\ stage' = "additions"
               ELSE stage' = "refused" /\ UNCHANGED regions
    /\ UNCHANGED <<previous, segments, mapped, mappings, added>>

-----------------------------------------------------------------------------
(* The additional mappings.                                                *)

AddMapping ==
    /\ stage = "additions" /\ Len(added) < MaxRegions - 1
    /\ \E m \in Additions :
        /\ added' = Append(added, m)
        /\ IF IsRegion(m) THEN regions' = Append(regions, m) /\ UNCHANGED stage
           ELSE stage' = "refused" /\ UNCHANGED regions
    /\ UNCHANGED <<reading, mapped, mappings, entry>>

Plan ==
    /\ stage = "additions"
    /\ regions' = SortedByStart(regions)
    /\ stage' = IF IsLayout(regions') THEN "planned" ELSE "refused"
    /\ UNCHANGED <<reading, mapped, mappings, entry, added>>

(* MemoryLayout::require: the mapping that holds a whole range and allows  *)
(* the access, if there is one.                                            *)
Require(list, range, access) ==
    {i \in DOMAIN list : ContainsRange(list[i].range, range) /\ access \subseteq list[i].permissions}

LoadingInit ==
    /\ stage = "setup"
    /\ headers = <<>> /\ previous = 0 /\ segments = <<>>
    /\ mapped = 0 /\ mappings = <<>> /\ regions = <<>> /\ entry = NoEntry /\ added = <<>>

LoadingNext ==
    \/ ReadFileHeader \/ ReadHeader \/ ValidateEntry \/ MapSegment \/ Initialize
    \/ LoadRaw \/ AddMapping \/ Plan

LoadingSpec == LoadingInit /\ [][LoadingNext]_loadingVars
=============================================================================
