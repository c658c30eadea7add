----------------------------- MODULE PackedTar -----------------------------
(***************************************************************************)
(* fota_tar_parse on what the packager has written: TarParse and Tarball   *)
(* together.                                                               *)
(***************************************************************************)
EXTENDS TarParse, Tarball

CONSTANTS
    InputFile,   \* files of an input directory, and manifests
    Bundle       \* the arguments of stage_and_compress

\* A file that is neither a link nor a second name of one before it, at a path
\* below the input directory.
IsPlainFile(file) ==
    /\ file.kind = "regular"
    /\ file.path \in Seq(STRING) /\ file.path # <<>>
    /\ fota_tar_path_is_safe(file.path)
    /\ file.size \in 0..(SizeLimit - 1)
    /\ file.blocks \in Seq(Block)
    /\ Len(file.blocks) = (file.size + BLOCK_SIZE - 1) \div BLOCK_SIZE

ASSUME InputFileAssumption == \A file \in InputFile : IsPlainFile(file)

ASSUME BundleAssumption ==
    Bundle \subseteq [files : Seq(InputFile), manifest : InputFile]

Packed == [b \in Bundle |-> stage_and_compress(b.files, b.manifest)]

PackedTarball == {[blocks |-> Packed[b], partial |-> 0] : b \in Bundle}

\* The entries are the files: their paths, sizes and contents, in order.
IsTableOf(files) ==
    /\ Len(out) = Len(files)
    /\ \A i \in DOMAIN files :
        /\ out[i].path = files[i].path
        /\ out[i].type = "FILE"
        /\ out[i].size = files[i].size
        /\ LET first == out[i].data \div BLOCK_SIZE + 1
           IN  SubSeq(tar_data.blocks, first, first + Len(files[i].blocks) - 1)
                 = files[i].blocks

\* What the packager makes of a directory of plain files is parsed into just
\* those files and the manifest, whatever bytes they hold, unless memory runs
\* out.
PackedIsParsed ==
    result # "RUNNING" /\ tar_data \in PackedTarball =>
    \A b \in Bundle : tar_data.blocks = Packed[b] =>
        \/ result = "IO"
        \/ result = "OK" /\ IsTableOf(Append(b.files, b.manifest))

=============================================================================
