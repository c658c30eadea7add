---------------------------- MODULE FotaInstaller ----------------------------
(***************************************************************************)
(* What the installer decides in memory before it writes anything:         *)
(* fota_verify_manifest of consumer/src/installer.c.                       *)
(*                                                                         *)
(* A tar entry is a path, a type and its data.  File data is abstract; the *)
(* function Manifest says what parse_manifest_files makes of data when it  *)
(* is read as manifest.json.  A path is the sequence of its names, so that *)
(* its parent directories are its proper prefixes.                         *)
(***************************************************************************)
EXTENDS Integers, Sequences, FiniteSets, FotaDigest

CONSTANTS
    Name,       \* names of files and directories
    Content,    \* what a file can contain
    Manifest    \* Manifest[c]: the result of parse_manifest_files on c

Path == Seq(Name) \ {<<>>}

ManifestPath == <<"manifest.json">>

Entry == [path : Path, type : {"FILE", "DIRECTORY"}, data : Content]

Listing == [path : Path, sha256 : {EVP_sha256(c) : c \in Content}]

ASSUME NameAssumption == "manifest.json" \in Name

ASSUME ManifestAssumption ==
    Manifest \in [Content -> [parses : BOOLEAN, files : Seq(Listing)]]

-----------------------------------------------------------------------------

\* The entries strcmp finds under path; directories are never considered.
FilesAt(entries, path) ==
    {i \in DOMAIN entries :
        entries[i].type = "FILE" /\ entries[i].path = path}

\* The first of them: later entries with the same path are never looked at.
find_entry(entries, path) ==
    CHOOSE i \in FilesAt(entries, path) :
        \A j \in FilesAt(entries, path) : i <= j

\* The entries that will be written to the install directory.
FirmwareFiles(entries) ==
    {i \in DOMAIN entries :
        entries[i].type = "FILE" /\ entries[i].path # ManifestPath}

\* What the package's manifest.json lists, once it is known to have one.
ManifestOf(entries) == Manifest[entries[find_entry(entries, ManifestPath)].data]

\* A listed file that is in the tarball with the listed digest.
ListingMatches(entries, listing) ==
    /\ FilesAt(entries, listing.path) # {}
    /\ EVP_sha256(entries[find_entry(entries, listing.path)].data)
         = listing.sha256

\* The loop counts one match per listing, so when no listing fails,
\* matched_count is the number of listings.
MatchedCount(entries) == Len(ManifestOf(entries).files)

fota_verify_manifest(entries) ==
    CASE FilesAt(entries, ManifestPath) = {} -> "MANIFEST_MISSING"
      [] OTHER ->
         LET files == ManifestOf(entries).files
         IN  IF ~ManifestOf(entries).parses THEN "MANIFEST_PARSE"
             ELSE IF /\ \A i \in DOMAIN files : ListingMatches(entries, files[i])
                     /\ MatchedCount(entries) = Cardinality(FirmwareFiles(entries))
                  THEN "OK"
                  ELSE "MANIFEST_MISMATCH"

-----------------------------------------------------------------------------
(* What installer.h promises of an accepted package: the listed files and  *)
(* the files present are the same set.                                     *)

ListedPaths(entries) == {f.path : f \in
    {ManifestOf(entries).files[i] : i \in DOMAIN ManifestOf(entries).files}}

PresentPaths(entries) == {entries[i].path : i \in FirmwareFiles(entries)}

\* No two firmware files of the tarball have the same path.
DistinctFiles(entries) ==
    \A i, j \in FirmwareFiles(entries) :
        entries[i].path = entries[j].path => i = j

\* Every firmware file has the digest of a line with its path.
AllVouched(entries) ==
    LET files == ManifestOf(entries).files
    IN  \A e \in FirmwareFiles(entries) : \E l \in DOMAIN files :
            /\ files[l].path = entries[e].path
            /\ files[l].sha256 = EVP_sha256(entries[e].data)

\* The tarball holds exactly the listed files, each once.
ExactSet(entries) ==
    /\ ListedPaths(entries) = PresentPaths(entries)
    /\ DistinctFiles(entries)
    /\ AllVouched(entries)

\* No two lines of the manifest list the same path, none lists the manifest.
DistinctListings(entries) ==
    LET files == ManifestOf(entries).files
    IN  /\ \A i, j \in DOMAIN files : files[i].path = files[j].path => i = j
        /\ ManifestPath \notin ListedPaths(entries)

=============================================================================
