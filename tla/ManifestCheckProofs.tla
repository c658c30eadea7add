------------------------- MODULE ManifestCheckProofs -------------------------
(***************************************************************************)
(* The loop of fota_verify_manifest, for every set of tarballs.            *)
(***************************************************************************)
EXTENDS ManifestCheck, FotaPackageProofs

\* What is true at the head of the loop: the lines before i have matched, and
\* each was counted once.
LoopInv ==
    /\ i = 0 => matched_count = 0
    /\ i > 0 =>
        /\ FilesAt(entries, ManifestPath) # {}
        /\ ManifestOf(entries).parses
        /\ i <= Len(Files) + 1
        /\ matched_count = i - 1
        /\ \A l \in 1..(i - 1) : ListingMatches(entries, Files[l])
    /\ result = "OK" =>
        /\ i > 0
        /\ i = Len(Files) + 1
        /\ matched_count = Cardinality(FirmwareFiles(entries))
    /\ result = "MANIFEST_MISSING" => FilesAt(entries, ManifestPath) = {}
    /\ result = "MANIFEST_PARSE" =>
        /\ FilesAt(entries, ManifestPath) # {}
        /\ ~ManifestOf(entries).parses
    /\ result = "MANIFEST_MISMATCH" =>
        /\ i > 0
        /\ \/ \E l \in DOMAIN Files : ~ListingMatches(entries, Files[l])
           \/ Len(Files) # Cardinality(FirmwareFiles(entries))

IInv == TypeOK /\ LoopInv

LEMMA InitIInv == Init => IInv
BY TarballAssumption DEF Init, IInv, TypeOK, LoopInv, Result

LEMMA StepIInv == IInv /\ [Next]_vars => IInv'
<1>. SUFFICES ASSUME IInv, [Next]_vars
              PROVE  IInv'
    OBVIOUS
<1>. USE DEF IInv
<1>1. CASE ParseManifest
    <2>1. TypeOK'
        BY <1>1 DEF ParseManifest, TypeOK, Return, Result
    <2>2. LoopInv'
        <3>1. CASE FilesAt(entries, ManifestPath) = {} /\ Return("MANIFEST_MISSING")
            BY <1>1, <3>1 DEF ParseManifest, LoopInv, TypeOK, Return, Files
        <3>2. CASE /\ FilesAt(entries, ManifestPath) # {}
                   /\ ~ManifestOf(entries).parses
                   /\ Return("MANIFEST_PARSE")
            BY <1>1, <3>2 DEF ParseManifest, LoopInv, TypeOK, Return, Files
        <3>3. CASE /\ FilesAt(entries, ManifestPath) # {}
                   /\ ManifestOf(entries).parses
                   /\ i' = 1
                   /\ UNCHANGED <<entries, matched, matched_count, result>>
            <4>1. Files \in Seq(Listing)
                BY <3>3, ListingsAreSequence DEF TypeOK, Files
            <4>. QED  BY <1>1, <3>3, <4>1 DEF ParseManifest, LoopInv, TypeOK, Files
        <3>. QED  BY <1>1, <3>1, <3>2, <3>3 DEF ParseManifest
    <2>. QED  BY <2>1, <2>2
<1>2. CASE MatchListing
    <2>1. /\ FilesAt(entries, ManifestPath) # {}
          /\ Files \in Seq(Listing)
        BY <1>2, ListingsAreSequence DEF MatchListing, LoopInv, TypeOK, Files
    <2>2. find_entry(entries, Files[i].path) \in DOMAIN entries
        BY <1>2, FindEntry DEF MatchListing, ListingMatches, TypeOK, FilesAt
    <2>3. TypeOK'
        BY <1>2, <2>2 DEF MatchListing, TypeOK
    <2>4. LoopInv'
        <3>1. \A l \in 1..(i' - 1) : ListingMatches(entries, Files[l])
            BY <1>2, <2>1 DEF MatchListing, LoopInv, TypeOK
        <3>. QED  BY <1>2, <2>1, <3>1 DEF MatchListing, LoopInv, TypeOK, Files
    <2>. QED  BY <2>3, <2>4
<1>3. CASE RejectListing
    <2>1. TypeOK'
        BY <1>3 DEF RejectListing, TypeOK, Return, Result
    <2>2. LoopInv'
        BY <1>3 DEF RejectListing, LoopInv, TypeOK, Return, Files
    <2>. QED  BY <2>1, <2>2
<1>4. CASE CompareCounts
    <2>1. Len(Files) \in Nat /\ matched_count = Len(Files)
        BY <1>4, ListingsAreSequence DEF CompareCounts, LoopInv, TypeOK, Files
    <2>2. TypeOK'
        BY <1>4 DEF CompareCounts, TypeOK, Return, Result
    <2>3. LoopInv'
        BY <1>4, <2>1 DEF CompareCounts, LoopInv, TypeOK, Return, Files
    <2>. QED  BY <2>2, <2>3
<1>5. CASE FailIO
    <2>1. TypeOK'
        BY <1>5 DEF FailIO, TypeOK, Return, Result
    <2>2. LoopInv'
        BY <1>5 DEF FailIO, LoopInv, TypeOK, Return, Files
    <2>. QED  BY <2>1, <2>2
<1>6. CASE UNCHANGED vars
    <2>1. TypeOK'
        BY <1>6 DEF vars, TypeOK
    <2>2. LoopInv'
        BY <1>6 DEF vars, LoopInv, Files
    <2>. QED  BY <2>1, <2>2
<1>. QED  BY <1>1, <1>2, <1>3, <1>4, <1>5, <1>6 DEF Next

\* Type invariant of the loop.
THEOREM TypeCorrect == Spec => []TypeOK
<1>1. IInv => TypeOK
    BY DEF IInv
<1>. QED  BY <1>1, InitIInv, StepIInv, PTL DEF Spec

\* A tarball that fota_verify_manifest accepts holds exactly the files that
\* its manifest lists, whatever the tarball and the manifest, as long as the
\* manifest lists no path twice and not itself.
THEOREM AcceptedIsExactSet == Spec => []AcceptedMeansExactSet
<1>1. IInv => AcceptedMeansExactSet
    <2>. SUFFICES ASSUME IInv, result = "OK", DistinctListings(entries)
                  PROVE  ExactSet(entries)
        BY DEF AcceptedMeansExactSet
    <2>1. Files \in Seq(Listing)
        BY ListingsAreSequence DEF IInv, TypeOK, LoopInv, Files
    <2>2. \A l \in DOMAIN Files : ListingMatches(entries, Files[l])
        BY <2>1 DEF IInv, TypeOK, LoopInv
    <2>3. Len(Files) = Cardinality(FirmwareFiles(entries))
        BY <2>1 DEF IInv, TypeOK, LoopInv
    <2>. QED  BY <2>2, <2>3, AcceptedIsExact DEF IInv, TypeOK, LoopInv, Files
<1>. QED  BY <1>1, InitIInv, StepIInv, PTL DEF Spec

\* The loop returns exactly the verdict that the operator used by the other
\* modules defines, so what is shown of either holds of both.
THEOREM LoopIsVerdict == Spec => []LoopComputesVerdict
<1>1. IInv => LoopComputesVerdict
    <2>. SUFFICES ASSUME IInv, result \notin {"RUNNING", "IO"}
                  PROVE  result = fota_verify_manifest(entries)
        BY DEF LoopComputesVerdict
    <2>. DEFINE AllMatch == \A l \in DOMAIN Files : ListingMatches(entries, Files[l])
                Counted == MatchedCount(entries) = Cardinality(FirmwareFiles(entries))
    <2>1. CASE result = "MANIFEST_MISSING"
        BY <2>1 DEF IInv, LoopInv, fota_verify_manifest
    <2>2. CASE result = "MANIFEST_PARSE"
        BY <2>2 DEF IInv, LoopInv, fota_verify_manifest
    <2>3. CASE result = "OK"
        <3>1. /\ FilesAt(entries, ManifestPath) # {}
              /\ ManifestOf(entries).parses
              /\ Files \in Seq(Listing)
            BY <2>3, ListingsAreSequence DEF IInv, TypeOK, LoopInv, Files
        <3>2. AllMatch
            BY <2>3, <3>1 DEF IInv, TypeOK, LoopInv
        <3>3. Counted
            BY <2>3, <3>1 DEF IInv, TypeOK, LoopInv, Files, MatchedCount
        <3>. QED  BY <2>3, <3>1, <3>2, <3>3 DEF fota_verify_manifest, Files
    <2>4. CASE result = "MANIFEST_MISMATCH"
        <3>1. /\ FilesAt(entries, ManifestPath) # {}
              /\ ManifestOf(entries).parses
            BY <2>4 DEF IInv, LoopInv
        <3>2. ~(AllMatch /\ Counted)
            BY <2>4 DEF IInv, LoopInv, Files, MatchedCount
        <3>. QED  BY <2>4, <3>1, <3>2 DEF fota_verify_manifest, Files
    <2>. QED  BY <2>1, <2>2, <2>3, <2>4 DEF IInv, TypeOK, Result
<1>. QED  BY <1>1, InitIInv, StepIInv, PTL DEF Spec

\* A tarball of any size that holds exactly the listed files is never turned
\* away, as long as no path is listed twice and the manifest is not listed.
THEOREM PackagedAccepted == Spec => []PackagedIsAccepted
<1>1. IInv => PackagedIsAccepted
    <2>. SUFFICES ASSUME IInv,
                         FilesAt(entries, ManifestPath) # {},
                         ManifestOf(entries).parses,
                         DistinctListings(entries),
                         ExactSet(entries)
                  PROVE  result \in {"RUNNING", "OK", "IO"}
        BY DEF PackagedIsAccepted
    <2>1. /\ \A l \in DOMAIN Files : ListingMatches(entries, Files[l])
          /\ Len(Files) = Cardinality(FirmwareFiles(entries))
        BY ExactIsAccepted DEF IInv, TypeOK, Files
    <2>. QED  BY <2>1 DEF IInv, TypeOK, LoopInv, Result
<1>. QED  BY <1>1, InitIInv, StepIInv, PTL DEF Spec

=============================================================================
