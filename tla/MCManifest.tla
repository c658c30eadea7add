----------------------------- MODULE MCManifest -----------------------------
(***************************************************************************)
(* Values for ManifestCheck: every tarball with up to three entries next   *)
(* to the manifest, over two paths, two contents and a directory, and      *)
(* every manifest with up to three lines over the same.                    *)
(***************************************************************************)
EXTENDS ManifestCheck

MCName == {"a", "b", "manifest.json"}

A == <<"a">>
B == <<"b">>

Bytes(x) == [kind |-> "bytes", of |-> x, files |-> <<>>]
Listings(s) == [kind |-> "manifest", of |-> "", files |-> s]

Data == {Bytes("x"), Bytes("y")}

Line == {[path |-> p, sha256 |-> EVP_sha256(c)] : p \in {A, B}, c \in Data}
OwnLine == [path |-> ManifestPath, sha256 |-> EVP_sha256(Bytes("x"))]

UpTo3(S) == {<<>>} \cup {<<x>> : x \in S} \cup {<<x, y>> : x, y \in S}
                   \cup {<<x, y, z>> : x, y, z \in S}

MCContent == Data \cup {Listings(s) : s \in UpTo3(Line) \cup {<<OwnLine>>}}

MCManifestOf ==
    [c \in MCContent |-> [parses |-> c.kind = "manifest", files |-> c.files]]

Other ==
    {[path |-> p, type |-> "FILE", data |-> c] : p \in {A, B}, c \in Data}
    \cup {[path |-> B, type |-> "DIRECTORY", data |-> Bytes("x")]}

WithManifest(s, c) == Append(s, [path |-> ManifestPath, type |-> "FILE", data |-> c])

MCTarball ==
    UpTo3(Other)
    \cup {WithManifest(s, c) : s \in UpTo3(Other), c \in MCContent}
    \cup {WithManifest(<<>>, c) \o s : s \in UpTo3(Other), c \in {Bytes("x"), Listings(<<OwnLine>>)}}

=============================================================================
