----------------------------- MODULE MCTarParse -----------------------------
(***************************************************************************)
(* Values for TarParse: any buffer of up to three blocks, over one block   *)
(* for each thing a header can say, then an end marker, data, part of a    *)
(* block or nothing; and the tarballs of up to two files and a manifest    *)
(* whose contents fill up to two blocks with anything, end markers and     *)
(* headers included.                                                       *)
(***************************************************************************)
EXTENDS PackedTar

Plain == [zero |-> FALSE, sums |-> TRUE, prefix |-> FALSE, path |-> <<"a">>,
          typeflag |-> "0", size |-> 0]

Data == [Plain EXCEPT !.sums = FALSE]

MCBlock ==
    {ZeroBlock, Plain, Data}
    \cup {[Plain EXCEPT !.size = n] : n \in {NoValue, 1, 512, 513, 1600}}
    \cup {[Plain EXCEPT !.path = p] : p \in {<<"">>, <<"", "a">>,
             <<"..", "a">>, <<"b", "..", "..", "a">>, <<"b", ".", "a", "">>}}
    \cup {[Plain EXCEPT !.typeflag = "5", !.size = 600],
          [Plain EXCEPT !.typeflag = "2"],
          [Plain EXCEPT !.prefix = TRUE]}

UpTo3(S) == UNION {[1..n -> S] : n \in 0..3}

MCArchive ==
    {[blocks |-> s \o end, partial |-> n] :
        s \in UpTo3(MCBlock), end \in {<<>>, <<ZeroBlock>>, <<Data>>}, n \in {0, 100}}

MCSizeLimit == 4096
MCSizeMax == 16383

-----------------------------------------------------------------------------

Contents == {ZeroBlock, Data, [Plain EXCEPT !.path = <<"..", "a">>],
             [Plain EXCEPT !.size = 512]}

FilesOf(p) ==
    {[path |-> p, kind |-> "regular", size |-> 0, blocks |-> <<>>]}
    \cup {[path |-> p, kind |-> "regular", size |-> n, blocks |-> <<x>>] :
             n \in {1, 512}, x \in Contents}
    \cup {[path |-> p, kind |-> "regular", size |-> 513, blocks |-> <<x, y>>] :
             x, y \in Contents}

LinksAt(p) == {[path |-> p, kind |-> k, size |-> 1, blocks |-> <<Data>>] :
                  k \in {"symlink", "hardlink"}}

TheManifest == [path |-> <<"manifest.json">>, kind |-> "regular",
                size |-> 700, blocks |-> <<Data, Data>>]

Two(S, T) == {<<>>} \cup {<<f>> : f \in S} \cup {<<f, g>> : f \in S, g \in T}

Regular == Two(FilesOf(<<"a">>), FilesOf(<<"d", "b">>))

\* Input directories with a link to a file in them.
Linked == Two(FilesOf(<<"a">>), LinksAt(<<"d", "b">>))

MCInputFile ==
    FilesOf(<<"a">>) \cup FilesOf(<<"d", "b">>) \cup {TheManifest}

MCBundle == {[files |-> f, manifest |-> TheManifest] : f \in Regular}

AnyOrPacked == MCArchive \cup PackedTarball

LinkedTarballs ==
    {[blocks |-> stage_and_compress(f, TheManifest), partial |-> 0] : f \in Linked}

PackedBlock == Contents \cup {ZeroBlock} \cup
    UNION {{HeaderOf(f) : f \in FilesOf(p)} : p \in {<<"a">>, <<"d", "b">>}}
    \cup {HeaderOf(f) : f \in LinksAt(<<"d", "b">>)} \cup {HeaderOf(TheManifest)}

AnyBlock == MCBlock \cup PackedBlock

-----------------------------------------------------------------------------

\* "This project's own tarballs never contain symlinks" (installer.h): no
\* header that is parsed is that of a symbolic link.
OwnTarballsHaveNoSymlinks ==
    InHeader /\ Header.sums => Header.typeflag # "2"

=============================================================================
