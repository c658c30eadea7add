------------------------- MODULE FotaPackageProofs --------------------------
(***************************************************************************)
(* What a package's version and its manifest decide: comparing versions    *)
(* and the downgrade decision, for every bound on the components of a      *)
(* version, and what fota_verify_manifest's verdict says about a tarball,  *)
(* for every tarball and every manifest.                                   *)
(***************************************************************************)
EXTENDS FotaPackage, SequenceLemmas, FiniteSetTheorems

-----------------------------------------------------------------------------
(* Versions.                                                               *)

LEMMA ZeroIsVersion == ZeroVersion \in Version
BY MaxPartAssumption DEF ZeroVersion, Version

\* The order on versions is total: exactly one of <, = and > holds.
LEMMA LessTrichotomy ==
    ASSUME NEW a \in Version, NEW b \in Version
    PROVE  /\ a = b \/ Less(a, b) \/ Less(b, a)
           /\ ~(Less(a, b) /\ Less(b, a))
           /\ ~Less(a, a)
<1>1. a \in [1..4 -> Int] /\ b \in [1..4 -> Int]
    BY MaxPartAssumption DEF Version, Part
<1>2. Part = {1, 2, 3, 4}
    BY DEF Part
<1>3. ASSUME NEW x \in [1..4 -> Int], NEW y \in [1..4 -> Int]
      PROVE  Less(x, y) <=>
                \/ x[1] < y[1]
                \/ x[1] = y[1] /\ x[2] < y[2]
                \/ x[1] = y[1] /\ x[2] = y[2] /\ x[3] < y[3]
                \/ x[1] = y[1] /\ x[2] = y[2] /\ x[3] = y[3] /\ x[4] < y[4]
    BY <1>2 DEF Less
<1>4. a = b <=> a[1] = b[1] /\ a[2] = b[2] /\ a[3] = b[3] /\ a[4] = b[4]
    BY <1>1
<1>. QED  BY <1>1, <1>3, <1>4

LEMMA LessTransitive ==
    ASSUME NEW a \in Version, NEW b \in Version, NEW c \in Version,
           Less(a, b), Less(b, c)
    PROVE  Less(a, c)
<1>1. /\ a \in [1..4 -> Int] /\ b \in [1..4 -> Int] /\ c \in [1..4 -> Int]
    BY MaxPartAssumption DEF Version, Part
<1>2. PICK i \in Part : a[i] < b[i] /\ \A j \in 1..(i - 1) : a[j] = b[j]
    BY DEF Less
<1>3. PICK k \in Part : b[k] < c[k] /\ \A j \in 1..(k - 1) : b[j] = c[j]
    BY DEF Less
<1>4. CASE i <= k
    BY <1>1, <1>2, <1>3, <1>4 DEF Less, Part
<1>5. CASE k < i
    BY <1>1, <1>2, <1>3, <1>5 DEF Less, Part
<1>. QED  BY <1>2, <1>3, <1>4, <1>5 DEF Part

\* No version is below 0.0.0.0.
LEMMA ZeroIsLeast ==
    ASSUME NEW v \in Version
    PROVE  ~Less(v, ZeroVersion)
<1>1. v \in [Part -> 0..MaxPart] /\ \A i \in Part : ~(v[i] < 0)
    BY MaxPartAssumption DEF Version
<1>. QED  BY <1>1 DEF Less, ZeroVersion

\* What is not above a version is below all that is above it.
LEMMA NotAboveIsBelow ==
    ASSUME NEW u \in Version, NEW v \in Version, NEW w \in Version,
           ~Less(v, u), Less(v, w)
    PROVE  Less(u, w)
BY LessTrichotomy, LessTransitive

\* fota_version_compare is a comparison: the sign says which is newer.
LEMMA CompareIsOrder ==
    ASSUME NEW a \in Version, NEW b \in Version
    PROVE  /\ fota_version_compare(a, b) \in {-1, 0, 1}
           /\ fota_version_compare(a, b) = 0 <=> a = b
           /\ fota_version_compare(a, b) > 0 <=> Less(b, a)
           /\ fota_version_compare(a, b) < 0 <=> Less(a, b)
BY LessTrichotomy DEF fota_version_compare

\* What the downgrade decision lets through: a newer version, or an older one
\* for whoever types the device's secret.  The installed version itself is
\* never let through, whatever the secret.
THEOREM DowngradeDecision ==
    ASSUME NEW new \in Version, NEW installed \in Version,
           NEW secret, NEW hash
    PROVE  /\ fota_downgrade_check(new, installed, secret, hash)
                \in {"ALLOW", "UP_TO_DATE", "BLOCKED"}
           /\ fota_downgrade_check(new, installed, secret, hash) = "ALLOW" <=>
                \/ Less(installed, new)
                \/ Less(new, installed) /\ SecretMatches(secret, hash)
           /\ fota_downgrade_check(new, installed, secret, hash) = "UP_TO_DATE"
                <=> new = installed
<1>1. CASE fota_version_compare(new, installed) > 0
    BY <1>1, CompareIsOrder, LessTrichotomy DEF fota_downgrade_check
<1>2. CASE fota_version_compare(new, installed) = 0
    BY <1>2, CompareIsOrder, LessTrichotomy DEF fota_downgrade_check
<1>3. CASE fota_version_compare(new, installed) < 0
    BY <1>3, CompareIsOrder, LessTrichotomy DEF fota_downgrade_check
<1>. QED  BY <1>1, <1>2, <1>3, CompareIsOrder

\* What a write of the version file can leave behind is a version file.
LEMMA VersionFilesTyped ==
    ASSUME NEW v \in Version
    PROVE  /\ {NoVersionFile, BlankFile, MalformedFile, FileOf(v)}
                 \subseteq VersionFile
           /\ ShortWrites(v) \subseteq VersionFile
<1>1. {NoVersionFile, BlankFile, MalformedFile} \subseteq VersionFile
    BY ZeroIsVersion DEF VersionFile, NoVersionFile, BlankFile, MalformedFile,
                         VersionText
<1>2. \A w \in Version : FileOf(w) \in VersionFile
    BY DEF VersionFile, FileOf, VersionText
<1>3. CutLast(v) \subseteq Version
    <2>1. v[4] \in Nat /\ v[4] <= MaxPart
        BY MaxPartAssumption DEF Version, Part
    <2>2. \A t \in Tens : v[4] \div t \in 0..MaxPart
        BY <2>1, MaxPartAssumption DEF Tens
    <2>. QED  BY <2>2 DEF CutLast, Version
<1>. QED  BY <1>1, <1>2, <1>3 DEF ShortWrites

\* What is read from a version file is a version.
LEMMA ReadIsVersion ==
    ASSUME NEW f \in VersionFile
    PROVE  fota_version_read_installed(f) \in Version
BY ZeroIsVersion DEF VersionFile, fota_version_read_installed

-----------------------------------------------------------------------------
(* The manifest.                                                           *)

\* find_entry returns an entry with that path, and its index is unique.
LEMMA FindEntry ==
    ASSUME NEW entries \in Seq(Entry), NEW path, FilesAt(entries, path) # {}
    PROVE  find_entry(entries, path) \in FilesAt(entries, path)
<1>1. FilesAt(entries, path) \in SUBSET Nat
    BY DEF FilesAt
<1>2. \E x \in FilesAt(entries, path) :
            \A y \in FilesAt(entries, path) : x <= y
    BY <1>1, LeastNatural
<1>. QED  BY <1>2 DEF find_entry

LEMMA FirmwareFilesFinite ==
    ASSUME NEW entries \in Seq(Entry)
    PROVE  /\ IsFiniteSet(FirmwareFiles(entries))
           /\ Cardinality(FirmwareFiles(entries)) \in Nat
<1>1. IsFiniteSet(1..Len(entries))
    BY FS_Interval
<1>2. FirmwareFiles(entries) \in SUBSET (1..Len(entries))
    BY DEF FirmwareFiles
<1>. QED  BY <1>1, <1>2, FS_Subset, FS_CardinalityType

LEMMA ListingsAreSequence ==
    ASSUME NEW entries \in Seq(Entry), FilesAt(entries, ManifestPath) # {}
    PROVE  /\ ManifestOf(entries).files \in Seq(Listing)
           /\ ManifestOf(entries).parses \in BOOLEAN
<1>1. entries[find_entry(entries, ManifestPath)] \in Entry
    BY FindEntry DEF FilesAt
<1>2. ManifestOf(entries) \in [parses : BOOLEAN, files : Seq(Listing)]
    BY <1>1, ManifestAssumption DEF ManifestOf, Entry
<1>. QED  BY <1>2

\* The counting argument of fota_verify_manifest: when no two lines list the
\* same path and none lists the manifest, as many matching lines as firmware
\* files means that every firmware file is the one some line matched.
LEMMA CountsMeanExactSet ==
    ASSUME NEW entries \in Seq(Entry),
           FilesAt(entries, ManifestPath) # {},
           DistinctListings(entries),
           \A l \in DOMAIN ManifestOf(entries).files :
               ListingMatches(entries, ManifestOf(entries).files[l]),
           Len(ManifestOf(entries).files) = Cardinality(FirmwareFiles(entries))
    PROVE  \A e \in FirmwareFiles(entries) :
               \E l \in DOMAIN ManifestOf(entries).files :
                   find_entry(entries, ManifestOf(entries).files[l].path) = e
<1>. DEFINE files == ManifestOf(entries).files
            line == 1..Len(files)
            found == [l \in line |-> find_entry(entries, files[l].path)]
<1>1. files \in Seq(Listing) /\ DOMAIN files = line /\ Len(files) \in Nat
    BY ListingsAreSequence
<1>2. \A l \in line : found[l] \in FilesAt(entries, files[l].path)
    BY <1>1, FindEntry DEF ListingMatches
<1>3. \A l \in line : files[l].path # ManifestPath
    BY <1>1 DEF DistinctListings, ListedPaths
<1>4. \A l \in line : found[l] \in FirmwareFiles(entries)
    BY <1>2, <1>3 DEF FilesAt, FirmwareFiles
<1>5. ASSUME NEW l \in line, NEW m \in line, found[l] = found[m]
      PROVE  l = m
    <2>1. files[l].path = files[m].path
        BY <1>2, <1>5 DEF FilesAt
    <2>. QED  BY <2>1, <1>1 DEF DistinctListings
<1>6. found \in Injection(line, FirmwareFiles(entries))
    BY <1>4, <1>5 DEF Injection, IsInjective
<1>7. Cardinality(line) = Len(files)
    BY <1>1, FS_Interval
<1>8. found \in Surjection(line, FirmwareFiles(entries))
    BY <1>6, <1>7, FirmwareFilesFinite, FS_Injection
<1>. QED  BY <1>1, <1>8 DEF Surjection

\* What counting is for: the package holds exactly the listed files.
LEMMA AcceptedIsExact ==
    ASSUME NEW entries \in Seq(Entry),
           FilesAt(entries, ManifestPath) # {},
           DistinctListings(entries),
           \A l \in DOMAIN ManifestOf(entries).files :
               ListingMatches(entries, ManifestOf(entries).files[l]),
           Len(ManifestOf(entries).files) = Cardinality(FirmwareFiles(entries))
    PROVE  ExactSet(entries)
<1>. DEFINE files == ManifestOf(entries).files
            Found(l) == find_entry(entries, files[l].path)
<1>1. \A e \in FirmwareFiles(entries) : \E l \in DOMAIN files : Found(l) = e
    BY CountsMeanExactSet
<1>2. \A l \in DOMAIN files :
            /\ Found(l) \in DOMAIN entries
            /\ entries[Found(l)].type = "FILE"
            /\ entries[Found(l)].path = files[l].path
            /\ EVP_sha256(entries[Found(l)].data) = files[l].sha256
    BY FindEntry DEF ListingMatches, FilesAt
<1>3. \A l \in DOMAIN files : files[l].path # ManifestPath
    BY DEF DistinctListings, ListedPaths
<1>4. \A l \in DOMAIN files : Found(l) \in FirmwareFiles(entries)
    BY <1>2, <1>3 DEF FirmwareFiles
<1>. HIDE DEF Found
<1>5. AllVouched(entries)
    BY <1>1, <1>2 DEF AllVouched
<1>6. ListedPaths(entries) = PresentPaths(entries)
    <2>1. ListedPaths(entries) \subseteq PresentPaths(entries)
        BY <1>2, <1>4 DEF ListedPaths, PresentPaths
    <2>2. PresentPaths(entries) \subseteq ListedPaths(entries)
        BY <1>1, <1>2 DEF ListedPaths, PresentPaths
    <2>. QED  BY <2>1, <2>2
<1>7. DistinctFiles(entries)
    <2>1. SUFFICES ASSUME NEW d \in FirmwareFiles(entries),
                          NEW e \in FirmwareFiles(entries),
                          entries[d].path = entries[e].path
                   PROVE  d = e
        BY DEF DistinctFiles
    <2>2. PICK l \in DOMAIN files : Found(l) = d
        BY <1>1
    <2>3. PICK m \in DOMAIN files : Found(m) = e
        BY <1>1
    <2>4. l = m
        BY <1>2, <2>1, <2>2, <2>3 DEF DistinctListings
    <2>. QED  BY <2>2, <2>3, <2>4
<1>. QED  BY <1>5, <1>6, <1>7 DEF ExactSet

\* The converse: of a tarball that holds exactly the listed files, each once,
\* every line matches, and the two counts agree.
LEMMA ExactIsAccepted ==
    ASSUME NEW entries \in Seq(Entry),
           FilesAt(entries, ManifestPath) # {},
           DistinctListings(entries),
           ExactSet(entries)
    PROVE  /\ \A l \in DOMAIN ManifestOf(entries).files :
                  ListingMatches(entries, ManifestOf(entries).files[l])
           /\ Len(ManifestOf(entries).files) = Cardinality(FirmwareFiles(entries))
<1>. DEFINE files == ManifestOf(entries).files
            line == 1..Len(files)
            found == [l \in line |-> find_entry(entries, files[l].path)]
<1>1. files \in Seq(Listing) /\ DOMAIN files = line /\ Len(files) \in Nat
    BY ListingsAreSequence
<1>2. \A l \in line : files[l].path # ManifestPath
    BY <1>1 DEF DistinctListings, ListedPaths
<1>3. ASSUME NEW l \in line
      PROVE  /\ FilesAt(entries, files[l].path) # {}
             /\ found[l] \in FirmwareFiles(entries)
             /\ entries[found[l]].path = files[l].path
    <2>1. files[l].path \in PresentPaths(entries)
        <3>1. files[l].path \in ListedPaths(entries)
            BY <1>1 DEF ListedPaths
        <3>. QED  BY <3>1 DEF ExactSet
    <2>2. FilesAt(entries, files[l].path) # {}
        BY <2>1 DEF PresentPaths, FirmwareFiles, FilesAt
    <2>3. found[l] \in FilesAt(entries, files[l].path)
        BY <2>2, FindEntry
    <2>. QED  BY <1>2, <2>2, <2>3 DEF FilesAt, FirmwareFiles
<1>4. ASSUME NEW e \in FirmwareFiles(entries)
      PROVE  \E l \in line : /\ found[l] = e
                             /\ files[l].sha256 = EVP_sha256(entries[e].data)
    <2>1. PICK l \in line : /\ files[l].path = entries[e].path
                            /\ files[l].sha256 = EVP_sha256(entries[e].data)
        BY <1>1 DEF ExactSet, AllVouched
    <2>2. found[l] \in FirmwareFiles(entries) /\ entries[found[l]].path = entries[e].path
        BY <1>3, <2>1
    <2>3. DistinctFiles(entries)
        BY DEF ExactSet
    <2>. HIDE DEF found
    <2>4. found[l] = e
        BY <2>2, <2>3 DEF DistinctFiles
    <2>. QED  BY <2>1, <2>4
<1>5. ASSUME NEW l \in line, NEW m \in line, found[l] = found[m]
      PROVE  l = m
    <2>1. files[l].path = files[m].path
        BY <1>3, <1>5
    <2>. QED  BY <2>1, <1>1 DEF DistinctListings
<1>6. ASSUME NEW l \in line
      PROVE  ListingMatches(entries, files[l])
    <2>1. PICK m \in line : /\ found[m] = found[l]
                            /\ files[m].sha256 = EVP_sha256(entries[found[l]].data)
        BY <1>3, <1>4
    <2>2. m = l
        BY <1>5, <2>1
    <2>. QED  BY <1>3, <2>1, <2>2 DEF ListingMatches
<1>7. /\ found \in Injection(line, FirmwareFiles(entries))
      /\ found \in Surjection(line, FirmwareFiles(entries))
    BY <1>3, <1>4, <1>5 DEF Injection, IsInjective, Surjection
<1>8. Cardinality(line) = Len(files)
    <2>1. Len(files) \in Int /\ Len(files) >= 0
        BY <1>1
    <2>2. \A n \in Int : n >= 0 => Cardinality(1..n) = n
        BY FS_Interval
    <2>. QED  BY <2>1, <2>2
<1>9. Cardinality(line) = Cardinality(FirmwareFiles(entries))
    BY <1>7, FirmwareFilesFinite, FS_Injection
<1>. QED  BY <1>1, <1>6, <1>8, <1>9

=============================================================================
