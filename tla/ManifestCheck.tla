---------------------------- MODULE ManifestCheck ----------------------------
(***************************************************************************)
(* The loop of fota_verify_manifest in consumer/src/installer.c, one step  *)
(* per line of the manifest, on any of the tarballs in Tarball.            *)
(*                                                                         *)
(* matched is the set of entry indices that the code's array marks: the    *)
(* code fills it and then decides by matched_count alone.                  *)
(***************************************************************************)
EXTENDS FotaInstaller

CONSTANT Tarball   \* the tarballs to be verified, each a sequence of entries

ASSUME TarballAssumption == Tarball \subseteq Seq(Entry)

VARIABLES
    entries,        \* the parsed tarball
    i,              \* next line of the manifest, 0 before it is parsed
    matched,        \* entries that some line has matched
    matched_count,  \* how many lines have matched
    result          \* what is returned, RUNNING before that

vars == <<entries, i, matched, matched_count, result>>

Result == {"RUNNING", "OK", "MANIFEST_MISSING", "MANIFEST_PARSE",
           "MANIFEST_MISMATCH", "IO"}

Files == ManifestOf(entries).files

Init ==
    /\ entries \in Tarball
    /\ i = 0
    /\ matched = {}
    /\ matched_count = 0
    /\ result = "RUNNING"

Return(r) ==
    /\ result' = r
    /\ UNCHANGED <<entries, i, matched, matched_count>>

ParseManifest ==
    /\ result = "RUNNING" /\ i = 0
    /\ \/ FilesAt(entries, ManifestPath) = {} /\ Return("MANIFEST_MISSING")
       \/ /\ FilesAt(entries, ManifestPath) # {}
          /\ ~ManifestOf(entries).parses
          /\ Return("MANIFEST_PARSE")
       \/ /\ FilesAt(entries, ManifestPath) # {}
          /\ ManifestOf(entries).parses
          /\ i' = 1
          /\ UNCHANGED <<entries, matched, matched_count, result>>

\* Mutant: an index one too small is marked.
MatchListing_ZeroBased ==
    /\ result = "RUNNING" /\ i > 0 /\ i \in DOMAIN Files
    /\ ListingMatches(entries, Files[i])
    /\ matched' = matched \cup {find_entry(entries, Files[i].path) - 1}
    /\ matched_count' = matched_count + 1
    /\ i' = i + 1
    /\ UNCHANGED <<entries, result>>

\* The listed file is there with the listed digest.
MatchListing ==
    /\ result = "RUNNING" /\ i > 0 /\ i \in DOMAIN Files
    /\ ListingMatches(entries, Files[i])
    /\ matched' = matched \cup {find_entry(entries, Files[i].path)}
    /\ matched_count' = matched_count + 1
    /\ i' = i + 1
    /\ UNCHANGED <<entries, result>>

\* Mutant: a line that does not match is passed over.
RejectListing_Ignored ==
    /\ result = "RUNNING" /\ i > 0 /\ i \in DOMAIN Files
    /\ ~ListingMatches(entries, Files[i])
    /\ i' = i + 1
    /\ UNCHANGED <<entries, matched, matched_count, result>>

\* Listed but absent, or with another digest.
RejectListing ==
    /\ result = "RUNNING" /\ i > 0 /\ i \in DOMAIN Files
    /\ ~ListingMatches(entries, Files[i])
    /\ Return("MANIFEST_MISMATCH")

\* Mutant: entries that are not listed are not looked for.
CompareCounts_NoExtraCheck ==
    /\ result = "RUNNING" /\ i > 0 /\ i = Len(Files) + 1
    /\ Return("OK")

\* Mutant: manifest.json itself is counted as a file to be listed.
CompareCounts_CountsManifest ==
    /\ result = "RUNNING" /\ i > 0 /\ i = Len(Files) + 1
    /\ Return(IF matched_count = 1 + Cardinality(FirmwareFiles(entries))
              THEN "OK" ELSE "MANIFEST_MISMATCH")

\* After the last line: is there an entry that no line has matched?
CompareCounts ==
    /\ result = "RUNNING" /\ i > 0 /\ i = Len(Files) + 1
    /\ Return(IF matched_count = Cardinality(FirmwareFiles(entries))
              THEN "OK" ELSE "MANIFEST_MISMATCH")

\* realloc or calloc fails before the loop, or EVP_Digest in it.
FailIO ==
    /\ result = "RUNNING"
    /\ FilesAt(entries, ManifestPath) # {}
    /\ \/ i = 0
       \/ i \in DOMAIN Files /\ FilesAt(entries, Files[i].path) # {}
    /\ Return("IO")

Next ==
    ParseManifest \/ MatchListing \/ RejectListing \/ CompareCounts \/ FailIO

Spec == Init /\ [][Next]_vars

-----------------------------------------------------------------------------

\* Type invariant.
TypeOK ==
    /\ entries \in Seq(Entry)
    /\ i \in Nat
    /\ matched \subseteq DOMAIN entries
    /\ matched_count \in Nat
    /\ result \in Result

\* The loop returns what the operator the other modules use says, unless a
\* library call fails.
LoopComputesVerdict ==
    result \notin {"RUNNING", "IO"} => result = fota_verify_manifest(entries)

\* If the manifest lists no path twice, and not itself, an accepted tarball
\* holds exactly the listed files, each once and each with a listed digest.
\* The code compares two counts; this is what they are counted for.
AcceptedMeansExactSet ==
    result = "OK" /\ DistinctListings(entries) => ExactSet(entries)

\* A tarball as packager/ builds it, every file listed once under its digest
\* and nothing else listed, is never turned away.
PackagedIsAccepted ==
    /\ FilesAt(entries, ManifestPath) # {}
    /\ ManifestOf(entries).parses
    /\ DistinctListings(entries)
    /\ ExactSet(entries)
    => result \in {"RUNNING", "OK", "IO"}

\* "no file entry may exist that isn't listed in the manifest" (installer.h),
\* for any manifest that parses.
NothingUnlisted ==
    result = "OK" => PresentPaths(entries) \subseteq ListedPaths(entries)

=============================================================================
