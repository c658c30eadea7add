------------------------------ MODULE Tarball ------------------------------
(***************************************************************************)
(* stage_and_compress of packager/fota_secure/tarball.py: the blocks that  *)
(* Python's tarfile writes for the files of the input directory and for    *)
(* the manifest, in the terms of TarParse.  Paths are taken to fit the     *)
(* name field of a header; what fills up the last record is left out.      *)
(*                                                                         *)
(* A file found by rglob is a record: its path below the input directory,  *)
(* what kind of file lstat says it is, its size, and the blocks its        *)
(* contents fill.  Contents are any bytes: a block of them may look like a *)
(* header, or be all NUL.                                                  *)
(***************************************************************************)
EXTENDS Integers, Sequences, SequencesExt

ZeroBlock == [zero |-> TRUE, sums |-> FALSE, prefix |-> FALSE,
              path |-> <<"">>, typeflag |-> "", size |-> -1]

\* tar.add does not dereference: is_file() is true of a symbolic link to a
\* file, and of a second name of a file that is already in the archive.
Typeflag(file) == CASE file.kind = "regular"  -> "0"
                    [] file.kind = "hardlink" -> "1"
                    [] file.kind = "symlink"  -> "2"

HeaderOf(file) ==
    [zero |-> FALSE, sums |-> TRUE, prefix |-> FALSE, path |-> file.path,
     typeflag |-> Typeflag(file),
     size |-> IF file.kind = "regular" THEN file.size ELSE 0]

Member(file) ==
    <<HeaderOf(file)>> \o (IF file.kind = "regular" THEN file.blocks ELSE <<>>)

\* Every file, then the manifest, then the end-of-archive marker.
stage_and_compress(files, manifest) ==
    LET added == Append(files, manifest)
    IN  FlattenSeq([i \in DOMAIN added |-> Member(added[i])])
            \o <<ZeroBlock, ZeroBlock>>

=============================================================================
