----------------------------- MODULE MCConsumer -----------------------------
(***************************************************************************)
(* Values for the constants of Consumer: three releases that the packager  *)
(* could have built, and one package for every way to be turned away.      *)
(***************************************************************************)
EXTENDS DeviceContract

MCName == {"boot", "lib", "x", "manifest.json"}

MCContent == {"boot1", "boot2", "x1", "x2", "lib3", "m1", "m2", "m3", "m4", "junk"}

Lists(path, c) == [path |-> path, sha256 |-> EVP_sha256(c)]

Boot == <<"boot">>
Lib == <<"lib">>
LibX == <<"lib", "x">>

MCManifest == [c \in MCContent |->
    CASE c = "m1" -> [parses |-> TRUE,
                      files |-> <<Lists(Boot, "boot1"), Lists(LibX, "x1")>>]
      [] c = "m2" -> [parses |-> TRUE,
                      files |-> <<Lists(Boot, "boot2"), Lists(LibX, "x2")>>]
      [] c = "m3" -> [parses |-> TRUE,
                      files |-> <<Lists(Boot, "boot2"), Lists(Lib, "lib3")>>]
      [] c = "m4" -> [parses |-> TRUE, files |-> <<Lists(Boot, "junk")>>]
      [] OTHER -> [parses |-> FALSE, files |-> <<>>]]

File(path, c) == [path |-> path, type |-> "FILE", data |-> c]
Dir(path, c) == [path |-> path, type |-> "DIRECTORY", data |-> c]
TheManifest(c) == File(ManifestPath, c)

Release(v, entries) ==
    [header |-> TRUE, platform |-> "GENERIC", version |-> v,
     versioned |-> TRUE, whole |-> TRUE, len |-> 2, signed |-> TRUE,
     unwraps |-> TRUE, decrypts |-> TRUE, unpack |-> "OK",
     entries |-> entries]

V1 == Release(<<1, 0, 0, 0>>,
        <<File(Boot, "boot1"), File(LibX, "x1"), TheManifest("m1")>>)
V2 == Release(<<2, 0, 0, 12>>,
        <<TheManifest("m2"), Dir(Lib, "junk"), File(LibX, "x2"),
          File(Boot, "boot2")>>)
\* lib has become a file: it cannot be installed over V1 or V2.
V3 == Release(<<2, 0, 0, 13>>,
        <<File(Boot, "boot2"), File(Lib, "lib3"), TheManifest("m3")>>)
\* A newer version, not by the owner of the signing key.
Forged == [Release(<<3, 0, 0, 0>>,
        <<File(Boot, "junk"), TheManifest("m4")>>) EXCEPT !.signed = FALSE]

Refused ==
    {[V2 EXCEPT !.header = FALSE],
     [V2 EXCEPT !.platform = "OTHER"],
     [V2 EXCEPT !.versioned = FALSE, !.version = ZeroVersion],
     [V2 EXCEPT !.whole = FALSE],
     [V2 EXCEPT !.unwraps = FALSE],
     [V2 EXCEPT !.decrypts = FALSE],
     [V2 EXCEPT !.len = 0],
     [V2 EXCEPT !.len = 4],
     [V2 EXCEPT !.unpack = "MALFORMED_TAR", !.entries = <<>>],
     [V2 EXCEPT !.unpack = "UNSAFE_PATH", !.entries = <<>>],
     [V2 EXCEPT !.entries = <<File(Boot, "boot2")>>],
     [V2 EXCEPT !.entries = <<File(Boot, "junk"), File(LibX, "x2"),
                              TheManifest("m2")>>],
     [V2 EXCEPT !.entries = <<TheManifest("junk")>>],
     Forged}

\* Before V1, with the same files.
Old == [V1 EXCEPT !.version = <<0, 9, 0, 0>>]

TwoReleases == {V1, V2}
ThreeReleases == {Old, V1, V2}
Releases == {V1, V2, V3}
AllPackages == Releases \cup Refused
SinglePackages == AllPackages \cup {Old}
PairPackages == {V1, V2, Forged}

ASSUME CleanReleases == CleanPackages
ASSUME NumberedReleases == OneBuildPerVersion

MCSpace == {3}

MCHash == {EVP_sha256("key")}
NoHash == {}

EveryPoint == Point \ {"idle"}

\* Every package with every fault; then less and less that may go wrong.
MCSetting == {"anything", "calls work on the version file",
              "version file safe", "undisturbed"}
MCOffers == [s \in MCSetting |->
    CASE s = "anything" -> AllPackages
      [] s = "undisturbed" -> ThreeReleases
      [] OTHER -> Releases]
MCKillAt == [s \in MCSetting |->
    CASE s = "undisturbed" -> {}
      [] s = "version file safe" -> EveryPoint \ {"stamp"}
      [] OTHER -> EveryPoint]
MCFailAt == [s \in MCSetting |->
    CASE s = "anything" -> Point
      [] s = "undisturbed" -> {}
      [] OTHER -> Point \ {"version", "stamp"}]

\* One setting, for the runs about one question.
Only == {"only"}
PairOffers == [s \in Only |-> PairPackages]
RaceOffers == [s \in Only |-> TwoReleases]
TornOffers == [s \in Only |-> ThreeReleases]
Never == [s \in Only |-> {}]
AtStamp == [s \in Only |-> {"stamp"}]

=============================================================================
