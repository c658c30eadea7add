------------------------------ MODULE Delivery ------------------------------
(***************************************************************************)
(* From the input directory to a device: the key generator and the         *)
(* packager side by side, the keys a device is provisioned with, and what  *)
(* the updater on it makes of the package.                                 *)
(***************************************************************************)
EXTENDS Keygen, Packager

CONSTANTS
    KeygenRuns,    \* in a setting: a bound on runs of the key generator
    ReadySetting   \* the settings that begin with keys in place

ASSUME KeygenRunsAssumption == KeygenRuns \in [Setting -> Nat]

VARIABLE deployed   \* deployed[name]: a key copied to the device

vars == <<keygenVars, packagerVars, deployed>>

Provisioned == {"signing_public", "device_private"}

Usable(name) == IF keyFile[name] = NoKey THEN {} ELSE {keyFile[name]}

Init ==
    /\ KeygenInit
    /\ PackagerInit
    /\ finished <=> setting \in ReadySetting
    /\ deployed = [name \in Provisioned |-> keyFile[name]]

\* cp ./keys/... /etc/fota-secure/..., one file at a time.
CopyKey ==
    /\ \E name \in Provisioned :
        deployed' = [deployed EXCEPT ![name] = keyFile[name]]
    /\ UNCHANGED <<keygenVars, packagerVars>>

Next ==
    \/ KeygenNext(KeygenRuns[setting]) /\ UNCHANGED <<packagerVars, deployed>>
    \/ PackagerNext(Usable("signing_private"), Usable("device_public"))
         /\ UNCHANGED <<keygenVars, deployed>>
    \/ CopyKey

Spec == Init /\ [][Next]_vars

-----------------------------------------------------------------------------
(* The device.                                                             *)

\* Members fota_tar_parse refuses: links, and headers with a prefix.
Unsupported(member) ==
    TB!Typeflag(member) # "0" \/ member.path \in LongPath

\* The two keys are halves of one pair.
Verifies(blob) ==
    /\ blob.whole
    /\ \E key \in blob.signer : key.pair = deployed["signing_public"].pair

Unwraps(blob) ==
    \E key \in blob.recipient : key.pair = deployed["device_private"].pair

\* What the updater finds out about the package.  The signature does not
\* verify for a package that was cut off (SignedDataFixesSections).
Received(blob) ==
    LET packed == blob.members
    IN  [header |-> TRUE, platform |-> blob.release.platform,
         versioned |-> blob.release.versioned, version |-> blob.release.version,
         whole |-> blob.whole, len |-> 16,
         signed |-> Verifies(blob), unwraps |-> Unwraps(blob),
         decrypts |-> blob.whole,
         unpack |-> IF \E i \in DOMAIN packed : Unsupported(packed[i])
                    THEN "UNSUPPORTED_ENTRY" ELSE "OK",
         entries |-> [i \in DOMAIN packed |->
             [path |-> packed[i].path, type |-> "FILE", data |-> packed[i].data]]]

-----------------------------------------------------------------------------
(* Properties.                                                             *)

\* After a run of the key generator that was not interrupted all four files
\* are its own, and make two pairs, whatever earlier runs have left behind.
FinishedKeysFit ==
    finished =>
        /\ \A name \in KeyName : keyFile[name].run = keygenRuns
        /\ keyFile["signing_private"] = keyFile["signing_public"]
        /\ keyFile["device_private"] = keyFile["device_public"]
        /\ keyFile["signing_private"] # keyFile["device_private"]

\* The packager and the device use keys of one run of the key generator.
KeysOfOneRun(blob) ==
    \E run \in 1..keygenRuns :
        /\ \A key \in blob.signer \cup blob.recipient : key.run = run
        /\ \A name \in Provisioned : deployed[name].run = run

FilesOf(dir) == {n \in InputPath : dir[n] # {}} \ {ManifestPath}

DataAt(dir, n) == (CHOOSE f \in dir[n] : TRUE).data

\* A directory a package can be made of: plain files with short names, and
\* no manifest.json of its own, or one that happens to list the other files.
Deliverable(dir) ==
    /\ \A n \in InputPath : \A f \in dir[n] : f.kind = "regular" /\ n \notin LongPath
    /\ IF dir[ManifestPath] = {}
       THEN FilesOf(dir) \cap EscapedPath = {}
       ELSE LET own == Manifest[DataAt(dir, ManifestPath)]
            IN  /\ own.parses
                /\ {own.files[i] : i \in DOMAIN own.files} =
                     {[path |-> n, sha256 |-> EVP_sha256(DataAt(dir, n))] : n \in FilesOf(dir)}

\* A manifest.json somebody left in the directory lists no path twice, and
\* not itself: then counting its lines does what it is meant to do.
CleanManifests ==
    \A c \in MayHold(ManifestPath) :
        LET lines == Manifest[c].files
        IN  /\ \A i, j \in DOMAIN lines : lines[i].path = lines[j].path => i = j
            /\ \A i \in DOMAIN lines : lines[i].path # ManifestPath

\* A package that was finished while nobody touched the directory is
\* accepted by a device with keys of the same run exactly if the directory
\* is deliverable, the platform is the device's and the version is one.
PackedIsAccepted ==
    code = 0 /\ edited = {} =>
        \A blob \in output : KeysOfOneRun(blob) =>
            (Accepted(Received(blob)) <=>
                /\ Deliverable(input)
                /\ blob.release.platform = PlatformTag
                /\ blob.release.versioned)

\* Whatever happens to the directory, the keys or the packager meanwhile: a
\* package that a device accepts, if the packager's manifest is the only one
\* in it, installs the directory as it was at one instant, all of it but for
\* the paths that were changed more than once while pack() ran.  (A file that
\* is replaced and put back between its two reads is packed as it was.)
AcceptedIsSnapshot ==
    \A blob \in output : Accepted(Received(blob)) =>
        LET entries == Received(blob).entries
        IN  (\A i \in DOMAIN entries : i < Len(entries) => entries[i].path # ManifestPath) =>
                {<<entries[i].path, entries[i].data>> :
                    i \in {j \in FirmwareFiles(entries) : entries[j].path \notin blob.restless}} =
                {<<n, DataAt(blob.snapshot, n)>> : n \in FilesOf(blob.snapshot) \ blob.restless}

=============================================================================
