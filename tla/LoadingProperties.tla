--------------------------- MODULE LoadingProperties ---------------------------
(* What an accepted image means, and which images are accepted, byte by    *)
(* byte and without the algorithm.                                         *)
EXTENDS Loading

Occupying == {i \in DOMAIN headers : headers[i].type \in {"load", "raw"} /\ headers[i].size > 0}
Bytes(h) == h.start .. h.start + h.size - 1
Pages(h) == {a \div Page : a \in Bytes(h)}
Added(m) == {a \div Page : a \in m.range.start .. End(m.range) - 1}

MappedPages == UNION {Pages(headers[i]) : i \in Occupying}
Permissions(page) == {headers[i].flags : i \in {j \in Occupying : page \in Pages(headers[j])}}

(* Pages that begin a mapping: what is before them is not mapped alike. *)
FirstPages ==
    {page \in MappedPages : page - 1 \notin MappedPages \/ Permissions(page - 1) # Permissions(page)}

LegalHeader(h) ==
    IF h.type = "raw" THEN h.size \in 1 .. FileLimit /\ Bytes(h) \subseteq Addresses
    ELSE IF h.type # "load" THEN Ignored(h)
    ELSE /\ IsCongruent(h) /\ h.flags \subseteq {"r", "w", "x"}
         /\ h.size > 0 =>
                /\ Bytes(h) \subseteq Addresses
                /\ h.filesize > 0 => h.offset + h.filesize <= FileLimit

LegalFile ==
    /\ \A i \in DOMAIN headers : LegalHeader(headers[i])
    /\ \A i, j \in DOMAIN headers :
        i < j /\ headers[i].type = "load" /\ headers[j].type = "load" =>
            headers[i].start <= headers[j].start
    /\ \A i, j \in Occupying : i # j => Bytes(headers[i]) \cap Bytes(headers[j]) = {}
    /\ \A page \in MappedPages : Cardinality(Permissions(page)) = 1

LegalEntry ==
    /\ entry % Alignment = 0
    /\ \E i \in Occupying : "x" \in headers[i].flags /\ entry .. entry + Alignment - 1 \subseteq Bytes(headers[i])

LegalAdditions ==
    /\ \A i \in DOMAIN added : IsRegion(added[i]) /\ Added(added[i]) \cap MappedPages = {}
    /\ \A i, j \in DOMAIN added : i # j => Added(added[i]) \cap Added(added[j]) = {}

LegalSize ==
    /\ Cardinality(FirstPages) + Len(added) <= MaxRegions
    /\ Page * Cardinality(MappedPages) + TotalLength(added) <= MaxMapped

Legal == LegalFile /\ (entry # NoEntry => LegalEntry) /\ LegalAdditions /\ LegalSize

(* Exactly the legal images are accepted: the checks against the segment or*)
(* the mapping before are enough to see every overlap and every conflict on*)
(* a page, and the limits count merged pages once. (LoadPlan::new)         *)
LegalAccepted ==
    /\ stage = "planned" => Legal
    /\ stage = "refused" => ~Legal

(* The byte at an address, as the headers and the additions give it. *)
Contents(a) ==
    LET inFile == {i \in Occupying : a \in headers[i].start .. headers[i].start + headers[i].filesize - 1}
        inAdded == {i \in DOMAIN added : a \in added[i].range.start .. added[i].range.start + Len(added[i].initial) - 1}
    IN  IF inFile # {} THEN LET h == headers[CHOOSE i \in inFile : TRUE] IN h.offset + a - h.start + 1
        ELSE IF inAdded # {} THEN LET m == added[CHOOSE i \in inAdded : TRUE] IN m.initial[a - m.range.start + 1]
        ELSE 0

Holding(a) == {i \in DOMAIN regions : a \in regions[i].range.start .. End(regions[i].range) - 1}
At(i, a) ==
    LET b == a - regions[i].range.start + 1 IN
    IF b \in DOMAIN regions[i].initial THEN regions[i].initial[b] ELSE 0

(* A planned memory is the image and no more: each address in one mapping  *)
(* at most, with its own permissions, file bytes at their addresses and    *)
(* zeros elsewhere; and the entry can be fetched from it in one access.    *)
(* (Mapping::initialize, mappings, MemoryLayout::new, from_raw)            *)
PlanIsImage ==
    stage = "planned" =>
        /\ \A a \in Addresses :
            LET page == a \div Page
                given == IF page \in MappedPages THEN Permissions(page)
                         ELSE {added[i].permissions : i \in {j \in DOMAIN added : page \in Added(added[j])}}
            IN  /\ {regions[i].permissions : i \in Holding(a)} = given
                /\ Cardinality(Holding(a)) <= 1
                /\ \A i \in Holding(a) : At(i, a) = Contents(a)
        /\ Require(regions, AddressRange(entry, Alignment), {"x"}) # {}
=============================================================================
