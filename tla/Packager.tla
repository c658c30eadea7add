------------------------------ MODULE Packager ------------------------------
(***************************************************************************)
(* packager/fota_secure: pack() of cli.py with the two walks over the      *)
(* input directory, build_manifest of manifest.py and stage_and_compress   *)
(* of tarball.py, and the output file.  The directory belongs to somebody  *)
(* who may change it meanwhile.  One run at a time.                        *)
(*                                                                         *)
(* A file is a record: what lstat says it is, and its data (for a link,    *)
(* the data it leads to).  {} stands for no file.  Sizes are taken to be   *)
(* within what a tar header and the installer's cap allow.                 *)
(***************************************************************************)
EXTENDS FotaPackage

CONSTANTS
    PathOrder,    \* every path the input directory may have, sorted
    LongPath,     \* those of them that need the prefix field of a header
    UnfitPath,    \* those tarfile cannot split into prefix and name
    EscapedPath,  \* those json.dumps writes with a \uXXXX escape
    Setting,      \* names of the settings the packager may work in
    InputDir,     \* in a setting: the input directories
    Replacement,  \* in a setting: the files somebody may put at a path
    Release,      \* in a setting: what --platform and --fw-version may say
    PackRuns      \* in a setting: a bound on runs of the packager

TB == INSTANCE Tarball

ASSUME PathOrderAssumption ==
    /\ PathOrder \in Seq(Path)
    /\ \A i, j \in DOMAIN PathOrder : PathOrder[i] = PathOrder[j] => i = j

InputPath == {PathOrder[i] : i \in DOMAIN PathOrder}

\* The updater wants the manifest at a path that is there to be walked, short
\* enough for a header.
ASSUME ManifestPathAssumption == ManifestPath \in InputPath \ LongPath

\* A release: whether the header has room for both texts and they are ASCII;
\* the version the device will make of --fw-version, if versioned.
IsRelease(r) ==
    r.fits \in BOOLEAN /\ r.versioned \in BOOLEAN /\ r.version \in Version

ASSUME ReleaseAssumption ==
    \A s \in Setting : Release[s] # {} /\ \A r \in Release[s] : IsRelease(r)

\* manifest.json as json.dumps writes it.
dumps(files) == [of |-> "manifest.json", lists |-> files]

\* What parse_manifest_files makes of that: see ManifestJson.
ASSUME DumpsAssumption ==
    \A c \in Content : c = dumps(c.lists) =>
        /\ Manifest[c].files = c.lists
        /\ Manifest[c].parses <=>
             \A i \in DOMAIN c.lists : c.lists[i].path \notin EscapedPath

File == [kind : {"regular", "hardlink", "symlink"}, data : Content]

Directory == [InputPath -> {{}} \cup {{f} : f \in File}]

ASSUME InputAssumption ==
    \A s \in Setting :
        /\ InputDir[s] \subseteq Directory
        /\ \A n \in InputPath : Replacement[s][n] \subseteq File

\* What a file at path n may contain.
MayHold(n) ==
    {c \in Content : \E s \in Setting :
        \/ \E dir \in InputDir[s] : \E f \in dir[n] : f.data = c
        \/ \E f \in Replacement[s][n] : f.data = c}

Line(n, c) == [path |-> n, sha256 |-> EVP_sha256(c)]

\* Content has every manifest.json the packager may write: the one without a
\* line, and with a line for a path that comes after the listed ones.  None
\* of them lists its own digest.
ASSUME ContentAssumption ==
    /\ dumps(<<>>) \in Content
    /\ \A c \in Content : c = dumps(c.lists) =>
        /\ \A k \in DOMAIN c.lists : c.lists[k].sha256 # EVP_sha256(c)
        /\ \A i \in DOMAIN PathOrder :
             (\A k \in DOMAIN c.lists : \E j \in 1..(i - 1) : c.lists[k].path = PathOrder[j])
             => \A d \in MayHold(PathOrder[i]) :
                    dumps(Append(c.lists, Line(PathOrder[i], d))) \in Content

ASSUME PackRunsAssumption == PackRuns \in [Setting -> Nat]

VARIABLES
    setting,    \* the setting of this behaviour
    input,      \* the input directory
    edited,     \* history: the paths that were changed during the run
    restless,   \* history: those of them that were changed more than once
    stage,      \* where pack() is
    release,    \* its arguments
    signer,     \* {the signing key it has loaded}, {} before the first
    recipient,  \* {the device key it has loaded}
    todo,       \* the places in PathOrder that a walk has yet to visit
    found,      \* is_file() was true of the first of them
    files,      \* the manifest's list of files
    members,    \* the files added to the tarball
    snapshot,   \* history: the directory when the second walk began
    output,     \* the package file, {} if there is none
    packRuns,   \* how often it was started
    code        \* exit code of the last run, NotEnded if it has none

packagerVars == <<setting, input, edited, restless, stage, release, signer, recipient,
                  todo, found, files, members, snapshot, output, packRuns, code>>

NotEnded == -1

PackagerInit ==
    /\ setting \in Setting
    /\ input \in InputDir[setting]
    /\ snapshot = input
    /\ edited = {} /\ restless = {}
    /\ stage = "idle"
    /\ release \in Release[setting]
    /\ signer = {} /\ recipient = {}
    /\ todo = {} /\ found = FALSE
    /\ files = <<>> /\ members = <<>>
    /\ output = {}
    /\ packRuns = 0 /\ code = NotEnded

Ends(exit) == stage' = "idle" /\ code' = exit

Keys == <<signer, recipient>>
Walk == <<todo, found, files, members, snapshot>>

-----------------------------------------------------------------------------
(* The directory, at any path, whenever its owner likes.                   *)

Edit ==
    /\ stage # "idle"
    /\ \E n \in InputPath : \E f \in {{}} \cup {{r} : r \in Replacement[setting][n]} :
        /\ f # input[n]
        /\ input' = [input EXCEPT ![n] = f]
        /\ edited' = edited \cup {n}
        /\ restless' = restless \cup ({n} \cap edited)
    /\ UNCHANGED <<setting, packRuns, stage, release, Keys, Walk, output, code>>

-----------------------------------------------------------------------------
(* pack().                                                                 *)

StartPack ==
    /\ stage = "idle" /\ packRuns < PackRuns[setting]
    /\ packRuns' = packRuns + 1
    /\ release' \in Release[setting]
    /\ stage' = "key_files"
    /\ edited' = {} /\ restless' = {}
    /\ todo' = {} /\ found' = FALSE
    /\ files' = <<>> /\ members' = <<>>
    /\ snapshot' = input
    /\ code' = NotEnded
    /\ UNCHANGED <<setting, input, Keys, output>>

\* Both key files are there, or the run ends: signing and device are {key}, or
\* {} for a file that is missing or holds no key.
CheckKeyFiles(signing, device) ==
    /\ stage = "key_files"
    /\ \/ stage' = "signing_key" /\ UNCHANGED code
       \/ {} \in {signing, device} /\ Ends(1)
    /\ UNCHANGED <<setting, packRuns, input, edited, restless, release, Keys,
                   Walk, output>>

\* A file that holds no key by now ends the run, too.
LoadSigningKey(usable) ==
    /\ stage = "signing_key"
    /\ signer' = usable
    /\ \/ usable # {} /\ stage' = "device_key" /\ UNCHANGED code
       \/ usable = {} /\ Ends(1)
    /\ UNCHANGED <<setting, packRuns, input, edited, restless, release,
                   recipient, Walk, output>>

LoadDeviceKey(usable) ==
    /\ stage = "device_key"
    /\ recipient' = usable
    /\ \/ usable # {} /\ stage' = "list" /\ UNCHANGED code
       \/ usable = {} /\ Ends(1)
    /\ UNCHANGED <<setting, packRuns, input, edited, restless, release, signer,
                   Walk, output>>

\* sorted(input_dir.rglob("*")): all names are read before any file is.
Listed == {i \in DOMAIN PathOrder : input[PathOrder[i]] # {}}

\* The place and the path a walk has come to.
First == CHOOSE i \in todo : \A j \in todo : i <= j

Here == PathOrder[First]

ListInput ==
    /\ stage = "list"
    /\ todo' = Listed /\ stage' = "manifest"
    /\ UNCHANGED <<setting, packRuns, input, edited, restless, release, Keys, found, files,
                   members, snapshot, output, code>>

\* path.is_file(), in either walk.
IsFile ==
    /\ stage \in {"manifest", "tarball"} /\ todo # {} /\ ~found
    /\ IF input[Here] # {}
       THEN found' = TRUE /\ UNCHANGED todo
       ELSE todo' = todo \ {First} /\ UNCHANGED found
    /\ UNCHANGED <<setting, packRuns, input, edited, restless, stage, release, Keys, files, members,
                   snapshot, output, code>>

\* The file that is read now: it may have gone since is_file().
Visit ==
    /\ found
    /\ todo' = todo \ {First} /\ found' = FALSE
    /\ UNCHANGED <<setting, packRuns, input, edited, restless, release, Keys,
                   snapshot, output>>

HashFile ==
    /\ stage = "manifest"
    /\ Visit
    /\ \/ \E f \in input[Here] :
            /\ files' = Append(files, Line(Here, f.data))
            /\ UNCHANGED <<stage, code>>
       \/ input[Here] = {} /\ Ends(1) /\ UNCHANGED files
    /\ UNCHANGED members

\* Mutant: the tarball is made of the files of the manifest.
ListAgain_OfManifest ==
    /\ stage = "manifest" /\ todo = {}
    /\ todo' = {i \in DOMAIN PathOrder : \E j \in DOMAIN files : files[j].path = PathOrder[i]}
    /\ stage' = "tarball"
    /\ snapshot' = input
    /\ UNCHANGED <<setting, packRuns, input, edited, restless, release, Keys, found,
                   files, members, output, code>>

ListAgain ==
    /\ stage = "manifest" /\ todo = {}
    /\ todo' = Listed /\ stage' = "tarball"
    /\ snapshot' = input
    /\ UNCHANGED <<setting, packRuns, input, edited, restless, release, Keys, found,
                   files, members, output, code>>

\* Mutant: the member is named after the file alone.
AddFile_NameOnly ==
    /\ stage = "tarball"
    /\ Visit
    /\ \/ \E f \in input[Here] :
            /\ Here \notin UnfitPath
            /\ members' = Append(members,
                   [path |-> <<Here[Len(Here)]>>,
                    kind |-> f.kind, data |-> f.data])
            /\ UNCHANGED <<stage, code>>
       \/ /\ input[Here] = {} \/ Here \in UnfitPath
          /\ Ends(1)
          /\ UNCHANGED members
    /\ UNCHANGED files

\* tar.add.
AddFile ==
    /\ stage = "tarball"
    /\ Visit
    /\ \/ \E f \in input[Here] :
            /\ Here \notin UnfitPath
            /\ members' = Append(members,
                   [path |-> Here, kind |-> f.kind, data |-> f.data])
            /\ UNCHANGED <<stage, code>>
       \/ /\ input[Here] = {} \/ Here \in UnfitPath
          /\ Ends(1)
          /\ UNCHANGED members
    /\ UNCHANGED files

\* The rest of the tarball, encryption, wrapping, header and signature.
Seal ==
    /\ stage = "tarball" /\ todo = {}
    /\ \/ release.fits /\ stage' = "write" /\ UNCHANGED code
       \/ ~release.fits /\ Ends(1)
    /\ UNCHANGED <<setting, packRuns, input, edited, restless, release, Keys,
                   Walk, output>>

TheManifest ==
    [path |-> ManifestPath, kind |-> "regular", data |-> dumps(files)]

\* The package; whole says that all of it is in the file.
Blob(whole) ==
    [release |-> release, signer |-> signer, recipient |-> recipient,
     members |-> Append(members, TheManifest), whole |-> whole,
     snapshot |-> snapshot, restless |-> restless]

\* output_path.write_bytes: the file is truncated, then filled.
OpenOutput ==
    /\ stage = "write"
    /\ output' = {Blob(FALSE)}
    /\ stage' = "fill"
    /\ UNCHANGED <<setting, packRuns, input, edited, restless, release, Keys,
                   Walk, code>>

FillOutput ==
    /\ stage = "fill"
    /\ output' = {Blob(TRUE)}
    /\ Ends(0)
    /\ UNCHANGED <<setting, packRuns, input, edited, restless, release, Keys,
                   Walk>>

\* An OSError nobody catches, or a signal.
AbortPack ==
    /\ stage # "idle"
    /\ stage' = "idle" /\ code' \in {NotEnded, 1}
    /\ UNCHANGED <<setting, packRuns, input, edited, restless, release, Keys,
                   Walk, output>>

PackagerNext(signing_private, device_public) ==
    \/ Edit
    \/ StartPack
    \/ CheckKeyFiles(signing_private, device_public)
    \/ LoadSigningKey(signing_private) \/ LoadDeviceKey(device_public)
    \/ ListInput \/ IsFile \/ HashFile \/ ListAgain \/ AddFile
    \/ Seal \/ OpenOutput \/ FillOutput \/ AbortPack

=============================================================================
