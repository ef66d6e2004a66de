----------------------------- MODULE MergeDedup -----------------------------
(***************************************************************************)
(* aliyun.py sls(): fold an exported listing, one record per (SKU, region) *)
(* pair, into one record per external_sku with the regions merged, emitted *)
(* in ascending SKU order.                                                 *)
(*                                                                         *)
(* A record keeps its external_sku, its regions list and, standing for    *)
(* every other field (description, category, cpu, ram), a value attrs     *)
(* that tells records of one SKU apart.  SKUs and regions are strings      *)
(* compared by sorted(); they are modelled by numbers in the same order.   *)
(*                                                                         *)
(* The script is one action: Init picks the listing read from ali.json,    *)
(* Sls computes the array written to alii.json, and the run ends.          *)
(***************************************************************************)
EXTENDS Naturals, SequencesExt

CONSTANTS
    SkuIds,         \* external_sku values, ordered like the strings
    Regions,        \* region codes, ordered like the strings
    Attrs,          \* the other fields of a record
    MaxRecords,     \* longest listing checked
    MaxRegions      \* longest regions list of one record

\* A listing as the export produces it: every record has a region.
Listings ==
    LET Recs == [external_sku : SkuIds,
                 regions : UNION {[1..n -> Regions] : n \in 1..MaxRegions},
                 attrs : Attrs]
    IN  UNION {[1..n -> Recs] : n \in 0..MaxRecords}

VARIABLES data, out, done

(***************************************************************************)
(* The loop body: the first record of a SKU is kept whole in t; a later    *)
(* one contributes d['regions'][0] only.                                   *)
(***************************************************************************)
AbsorbLastWins(t, d) ==
    IF d.external_sku \in DOMAIN t
    THEN [t EXCEPT ![d.external_sku] =
            [d EXCEPT !.regions = t[d.external_sku].regions \o d.regions]]
    ELSE t @@ (d.external_sku :> d)

Absorb(t, d) ==
    IF d.external_sku \in DOMAIN t
    THEN [t EXCEPT ![d.external_sku].regions = Append(@, Head(d.regions))]
    ELSE t @@ (d.external_sku :> d)

\* d['regions'] = sorted(set(d['regions'])) for every kept record.
Normalized(t) ==
    [k \in DOMAIN t |->
        [t[k] EXCEPT !.regions = SetToSortSeq(ToSet(@), <)]]

\* for sku in sorted(t.keys()): a.append(t[sku])
Emitted(t) ==
    LET keys == SetToSortSeq(DOMAIN t, <)
    IN  [i \in DOMAIN keys |-> t[keys[i]]]

DedupListing(listing) ==
    Emitted(Normalized(FoldLeft(Absorb, <<>>, listing)))

DedupInit ==
    /\ data \in Listings
    /\ out = <<>>
    /\ done = FALSE

Sls ==
    /\ ~done
    /\ out' = DedupListing(data)
    /\ done' = TRUE
    /\ UNCHANGED data

dedupVars == <<data, out, done>>

DedupSpec == DedupInit /\ [][Sls]_dedupVars

-----------------------------------------------------------------------------
(***************************************************************************)
(* The Merge/Dedup contract of spec 4.3, written from the spec: the first  *)
(* occurrence of a SKU establishes the record, every occurrence           *)
(* contributes its regions, unioned and sorted, records in ascending SKU   *)
(* order.                                                                  *)
(***************************************************************************)
SpecDedup(listing) ==
    LET skus  == {listing[i].external_sku : i \in DOMAIN listing}
        keys  == SetToSortSeq(skus, <)
        first(k) == listing[Min({i \in DOMAIN listing : listing[i].external_sku = k})]
        regs(k)  == UNION {ToSet(listing[i].regions) :
                              i \in {j \in DOMAIN listing : listing[j].external_sku = k}}
    IN  [i \in DOMAIN keys |->
            [first(keys[i]) EXCEPT !.regions = SetToSortSeq(regs(keys[i]), <)]]

(***************************************************************************)
(* sls() writes exactly what the Merge/Dedup contract prescribes for the   *)
(* listing it read: one record per SKU, the first occurrence's fields,     *)
(* every region of the SKU once, sorted, SKUs ascending.                   *)
(***************************************************************************)
DedupMatchesSpec ==
    done => out = SpecDedup(data)

=============================================================================
