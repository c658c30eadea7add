------------------------------ MODULE Consumer ------------------------------
(***************************************************************************)
(* The device-side updater: main() of consumer/src/main.c, with the write  *)
(* loop of fota_installer_extract and the version file of version.c.       *)
(*                                                                         *)
(* Every element of Proc is an invocation slot: it runs one package after  *)
(* another.  Several slots stand for invocations that overlap in time; the *)
(* program takes no lock.  One step of a process ends at each point where  *)
(* it reads or changes something outside its own memory.                   *)
(*                                                                         *)
(* What may happen to the device is a setting, fixed for a behaviour: the  *)
(* packages that are handed over, the control points at which a process    *)
(* may be killed, and those at which a system call may fail (also malloc   *)
(* and key loading).                                                       *)
(***************************************************************************)
EXTENDS FotaPackage

CONSTANTS
    Proc,        \* invocation slots
    Package,     \* the packages somebody may hand to the consumer
    StoredHash,  \* {digest} in downgrade_secret.hash, {} if unusable
    Space,       \* what statvfs may report as available bytes
    Setting,     \* names of the settings the device may be in
    Offers,      \* in a setting: the packages handed over
    KillAt,      \* in a setting: where a process may be killed
    FailAt       \* in a setting: where a system call may fail

Point == {"idle", "header", "version", "space", "verify", "decrypt",
          "extract", "write", "fill", "record", "stamp", "hook"}

ASSUME PackageAssumption ==
    Package # {} /\ \A k \in Package : IsPackage(k)

ASSUME SettingAssumption ==
    /\ Offers \in [Setting -> SUBSET Package]
    /\ KillAt \in [Setting -> SUBSET (Point \ {"idle"})]
    /\ FailAt \in [Setting -> SUBSET Point]

ASSUME SpaceAssumption == Space # {} /\ Space \subseteq Nat

ASSUME NodeStateAssumption == Content \cap {"absent", "dir", "torn"} = {}

VARIABLES
    setting,      \* the setting of this behaviour
    pc,           \* pc[p]: the control point p has reached
    pkg,          \* pkg[p]: the package it was given
    secret,       \* secret[p]: its --downgrade-secret
    idx,          \* idx[p]: loop index of the write loop, 0 before it
    exit,         \* exit[p]: its exit code, NoExit if it has none
    clobbered,    \* clobbered[p]: the file p has open was opened by another
    tree,         \* the install directory: tree[n] for every path n
    versionFile,  \* the version file
    ledger        \* history: the last version recorded without an error

fs == <<tree, versionFile>>
locals == <<setting, pkg, secret, idx, clobbered>>
vars ==
    <<setting, pc, pkg, secret, idx, exit, clobbered, tree, versionFile, ledger>>

-----------------------------------------------------------------------------
(* The install directory.                                                  *)

\* Every path an install may touch.
Node == UNION {PathsOf(k) : k \in Package}

\* A path holds nothing, a directory, a whole file, or a file that was
\* opened for writing and not completed.
NodeState == {"absent", "dir", "torn"} \cup Content

NoExit == -1

\* Mutant: every error of the installer is a rejection.
install_result_to_exit_code_All9(result) == 9

\* Exit code 9 is for what the installer rejects on purpose.
install_result_to_exit_code(result) ==
    IF result \in {"UNSAFE_PATH", "UNSUPPORTED_ENTRY",
                   "DECOMPRESSED_TOO_LARGE", "MANIFEST_MISSING",
                   "MANIFEST_PARSE", "MANIFEST_MISMATCH"}
    THEN 9 ELSE 1

-----------------------------------------------------------------------------

Init ==
    /\ setting \in Setting
    /\ pc = [p \in Proc |-> "idle"]
    /\ pkg = [p \in Proc |-> CHOOSE k \in Package : TRUE]
    /\ secret = [p \in Proc |-> NoSecret]
    /\ idx = [p \in Proc |-> 0]
    /\ exit = [p \in Proc |-> NoExit]
    /\ clobbered = [p \in Proc |-> FALSE]
    /\ tree = [n \in Node |-> "absent"]
    /\ versionFile = NoVersionFile
    /\ ledger = ZeroVersion

Goto(p, point) ==
    /\ pc' = [pc EXCEPT ![p] = point]
    /\ UNCHANGED exit

Return(p, code) ==
    /\ pc' = [pc EXCEPT ![p] = "idle"]
    /\ exit' = [exit EXCEPT ![p] = code]

\* A step that leaves the device alone.
InMemory == UNCHANGED <<locals, fs, ledger>>

\* A step of p at point, ended by a failing call with this exit code.
Fails(p, point, code) ==
    /\ pc[p] = point
    /\ point \in FailAt[setting]
    /\ Return(p, code)
    /\ InMemory

-----------------------------------------------------------------------------
(* main(), up to the write loop.                                           *)

\* Arguments and read_all: the whole input is in memory before any check.
Start(p) ==
    /\ pc[p] = "idle"
    /\ \E k \in Offers[setting], s \in Secret \cup {NoSecret} :
        /\ pkg' = [pkg EXCEPT ![p] = k]
        /\ secret' = [secret EXCEPT ![p] = s]
    /\ idx' = [idx EXCEPT ![p] = 0]
    /\ clobbered' = [clobbered EXCEPT ![p] = FALSE]
    /\ \/ pc' = [pc EXCEPT ![p] = "header"]
          /\ exit' = [exit EXCEPT ![p] = NoExit]
       \/ "idle" \in FailAt[setting] /\ Return(p, 1)
    /\ UNCHANGED <<setting, fs, ledger>>

\* Mutant: the platform tag is not compared.
CheckHeader_AnyPlatform(p) ==
    /\ pc[p] = "header"
    /\ IF pkg[p].header /\ pkg[p].versioned THEN Goto(p, "version") ELSE Return(p, 3)
    /\ InMemory

CheckHeader(p) ==
    LET k == pkg[p] IN
    /\ pc[p] = "header"
    /\ CASE ~k.header -> Return(p, 3)
         [] k.header /\ k.platform # PlatformTag -> Return(p, 4)
         [] k.header /\ k.platform = PlatformTag /\ ~k.versioned -> Return(p, 3)
         [] OTHER -> Goto(p, "version")
    /\ InMemory

\* A version file that cannot be opened reads as 0.0.0.0, a hash file that
\* cannot be read as none: neither failure ends the run by itself.
CheckVersion(p) ==
    /\ pc[p] = "version"
    /\ \E f \in {versionFile} \cup IF "version" \in FailAt[setting]
                                   THEN {NoVersionFile} ELSE {},
          hash \in {StoredHash} \cup IF "version" \in FailAt[setting]
                                     THEN {{}} ELSE {} :
        IF ~Readable(f) THEN Return(p, 1)
        ELSE LET decision == fota_downgrade_check(pkg[p].version,
                                 fota_version_read_installed(f),
                                 secret[p], hash)
             IN  CASE decision = "UP_TO_DATE" -> Return(p, 2)
                   [] decision = "BLOCKED" -> Return(p, 6)
                   [] decision = "ALLOW" -> Goto(p, "space")
    /\ InMemory

\* Sections first, then statvfs against the size of the ciphertext.
CheckSpace(p) ==
    /\ \/ /\ pc[p] = "space"
          /\ \E available \in Space :
                CASE ~pkg[p].whole -> Return(p, 3)
                  [] pkg[p].whole /\ available < pkg[p].len -> Return(p, 7)
                  [] OTHER -> Goto(p, "verify")
          /\ InMemory
       \/ pkg[p].whole /\ Fails(p, "space", 1)

\* Mutant: the result of the verification is dropped.
VerifySignature_Unchecked(p) ==
    /\ pc[p] = "verify"
    /\ Goto(p, "decrypt")
    /\ InMemory

\* A key that does not load ends the run with 1, a libcrypto error with 5.
VerifySignature(p) ==
    \/ /\ pc[p] = "verify"
       /\ IF pkg[p].signed THEN Goto(p, "decrypt") ELSE Return(p, 5)
       /\ InMemory
    \/ \E code \in {1, 5} : Fails(p, "verify", code)

\* Key unwrap and payload decryption: exit code 8 when either fails, 1 when
\* the device key does not load.
Decrypt(p) ==
    \/ /\ pc[p] = "decrypt"
       /\ IF pkg[p].unwraps /\ DecryptOk(pkg[p])
          THEN Goto(p, "extract") ELSE Return(p, 8)
       /\ InMemory
    \/ \E code \in {1, 8} : Fails(p, "decrypt", code)

\* Mutant: the manifest is not verified before files are written.
Validate_WriteFirst(p) ==
    /\ pc[p] = "extract"
    /\ IF pkg[p].unpack = "OK"
       THEN Goto(p, "write") /\ idx' = [idx EXCEPT ![p] = 1]
       ELSE Return(p, 9) /\ UNCHANGED idx
    /\ UNCHANGED <<setting, pkg, secret, clobbered, fs, ledger>>

\* Mutant: the version is recorded before the files are written.
Validate_RecordFirst(p) ==
    /\ pc[p] = "extract"
    /\ Validation(pkg[p]) = "OK"
    /\ Goto(p, "write")
    /\ idx' = [idx EXCEPT ![p] = 1]
    /\ versionFile' = FileOf(pkg[p].version)
    /\ UNCHANGED <<setting, pkg, secret, clobbered, tree, ledger>>

\* gunzip, tar parse and manifest check of fota_installer_extract.
Validate(p) ==
    \/ /\ pc[p] = "extract"
       /\ IF Validation(pkg[p]) = "OK"
          THEN Goto(p, "write") /\ idx' = [idx EXCEPT ![p] = 1]
          ELSE /\ Return(p, install_result_to_exit_code(Validation(pkg[p])))
               /\ UNCHANGED idx
       /\ UNCHANGED <<setting, pkg, secret, clobbered, fs, ledger>>
    \/ Fails(p, "extract", install_result_to_exit_code("IO"))

-----------------------------------------------------------------------------
(* The write loop.                                                         *)

\* Mutant: the loop stops one entry early.
Installed_ButLast(k, i) == i \in FirmwareFiles(k.entries) /\ i < Len(k.entries)

Installed(k, i) == i \in FirmwareFiles(k.entries)

\* The path of the entry the loop is at.
Target(p) == pkg[p].entries[idx[p]].path

\* Mutant: "continue" without the increment.
SkipEntry_Stuck(p) ==
    /\ pc[p] = "write"
    /\ idx[p] \in DOMAIN pkg[p].entries
    /\ ~Installed(pkg[p], idx[p])
    /\ UNCHANGED vars

\* Directories and manifest.json are passed over.
SkipEntry(p) ==
    /\ pc[p] = "write"
    /\ idx[p] \in DOMAIN pkg[p].entries
    /\ ~Installed(pkg[p], idx[p])
    /\ idx' = [idx EXCEPT ![p] = @ + 1]
    /\ UNCHANGED <<pc, exit, setting, pkg, secret, clobbered, fs, ledger>>

\* ensure_parent_dirs has made the first i parents of n.
WithParents(n, i) ==
    [m \in Node |-> IF /\ \E j \in 1..i : m = SubSeq(n, 1, j)
                       /\ tree[m] = "absent"
                    THEN "dir" ELSE tree[m]]

IsFile(n) == tree[n] \notin {"absent", "dir"}

\* Mutant: files are opened with "wx".
Obstructed_Exclusive(n) == tree[n] # "absent"

\* A file stands where a directory is needed, or the other way round.
Obstructed(n) ==
    \/ \E m \in Parents(n) : IsFile(m)
    \/ tree[n] = "dir"

\* Another process has the file p is about to open open for writing.
Sharing(p, q) == q # p /\ pc[q] = "fill" /\ Target(q) = Target(p)

\* mkdir of the parents, then fopen(.., "wb"): it truncates in place.
OpenFile(p) ==
    LET n == Target(p) IN
    /\ pc[p] = "write"
    /\ idx[p] \in DOMAIN pkg[p].entries
    /\ Installed(pkg[p], idx[p])
    /\ \/ /\ ~Obstructed(n)
          /\ tree' = [WithParents(n, Len(n) - 1) EXCEPT ![n] = "torn"]
          /\ clobbered' = [q \in Proc |->
                IF q = p THEN \E r \in Proc : Sharing(p, r)
                ELSE clobbered[q] \/ Sharing(p, q)]
          /\ Goto(p, "fill")
       \/ /\ Obstructed(n)
          /\ Return(p, install_result_to_exit_code("IO"))
          /\ UNCHANGED <<tree, clobbered>>
       \/ /\ "write" \in FailAt[setting]
          /\ ~Obstructed(n)
          /\ \E i \in 0..(Len(n) - 1) : tree' = WithParents(n, i)
          /\ Return(p, install_result_to_exit_code("IO"))
          /\ UNCHANGED clobbered
    /\ UNCHANGED <<setting, pkg, secret, idx, versionFile, ledger>>

\* fwrite and fclose.  If another process had the file open meanwhile, the
\* two write over each other: what is left may be p's data, a mixture, or
\* what is there now, when p's buffers were flushed before the other's open.
\* fclose may report an error when all of the data is in the file.
FillFile(p) ==
    LET n == Target(p)
        data == pkg[p].entries[idx[p]].data
    IN
    /\ pc[p] = "fill"
    /\ \/ /\ \E c \in {data} \cup IF clobbered[p] THEN {"torn", tree[n]} ELSE {} :
                tree' = [tree EXCEPT ![n] = c]
          /\ idx' = [idx EXCEPT ![p] = @ + 1]
          /\ Goto(p, "write")
       \/ /\ "fill" \in FailAt[setting]
          /\ \E c \in {tree[n], "torn", data} : tree' = [tree EXCEPT ![n] = c]
          /\ Return(p, install_result_to_exit_code("IO"))
          /\ UNCHANGED idx
    /\ UNCHANGED <<setting, pkg, secret, clobbered, versionFile, ledger>>

EndLoop(p) ==
    /\ pc[p] = "write"
    /\ idx[p] \notin DOMAIN pkg[p].entries
    /\ Goto(p, "record")
    /\ InMemory

-----------------------------------------------------------------------------
(* fota_version_write_installed.                                           *)

\* fopen(.., "wb") leaves the version file empty.
OpenVersionFile(p) ==
    \/ /\ pc[p] = "record"
       /\ versionFile' = BlankFile
       /\ clobbered' = [q \in Proc |->
             IF q = p THEN \E r \in Proc \ {p} : pc[r] = "stamp"
             ELSE clobbered[q] \/ pc[q] = "stamp"]
       /\ Goto(p, "stamp")
       /\ UNCHANGED <<setting, pkg, secret, idx, tree, ledger>>
    \/ Fails(p, "record", 1)

\* fwrite and fclose of "a.b.c.d\n".  When another process has opened the
\* file since, p's text may be gone again, or mixed with the other's.
CloseVersionFile(p) ==
    LET v == pkg[p].version IN
    /\ pc[p] = "stamp"
    /\ \/ /\ versionFile' \in {FileOf(v)} \cup
                IF clobbered[p] THEN {MalformedFile, versionFile} ELSE {}
          /\ ledger' = v
          /\ Goto(p, "hook")
       \/ /\ "stamp" \in FailAt[setting]
          /\ versionFile' \in {versionFile} \cup ShortWrites(v)
          /\ Return(p, 1)
          /\ UNCHANGED ledger
    /\ UNCHANGED <<locals, tree>>

\* platform_post_install_hook does nothing on this platform.
Finish(p) ==
    /\ pc[p] = "hook"
    /\ Return(p, 0)
    /\ InMemory

-----------------------------------------------------------------------------

\* The process is killed; what it had buffered is lost.
Kill(p) ==
    /\ pc[p] \in KillAt[setting]
    /\ Return(p, NoExit)
    /\ InMemory

Step(p) ==
    \/ CheckHeader(p) \/ CheckVersion(p) \/ CheckSpace(p)
    \/ VerifySignature(p) \/ Decrypt(p) \/ Validate(p)
    \/ SkipEntry(p) \/ OpenFile(p) \/ FillFile(p) \/ EndLoop(p)
    \/ OpenVersionFile(p) \/ CloseVersionFile(p) \/ Finish(p)

Next == \E p \in Proc : Start(p) \/ Step(p) \/ Kill(p)

Spec == Init /\ [][Next]_vars /\ \A p \in Proc : WF_vars(Step(p))

-----------------------------------------------------------------------------
(* Properties.                                                             *)

\* Type invariant.
TypeOK ==
    /\ setting \in Setting
    /\ pc \in [Proc -> Point]
    /\ pkg \in [Proc -> Package]
    /\ secret \in [Proc -> Secret \cup {NoSecret}]
    /\ idx \in [Proc -> Nat]
    /\ exit \in [Proc -> 0..9 \cup {NoExit}]
    /\ clobbered \in [Proc -> BOOLEAN]
    /\ tree \in [Node -> NodeState]
    /\ versionFile \in VersionFile
    /\ ledger \in Version

\* Every whole file in the install directory was put there by a package that
\* passed every check of main(), as that package's file for that path; and a
\* version that was recorded is the version of such a package.
InstalledIsAuthentic ==
    /\ \A n \in Node : tree[n] \in Content =>
          \E k \in Package : Accepted(k) /\ \E i \in FirmwareFiles(k.entries) :
              k.entries[i].path = n /\ k.entries[i].data = tree[n]
    /\ ledger # ZeroVersion =>
          \E k \in Package : Accepted(k) /\ k.version = ledger

\* No step changes the install directory or the version file unless the
\* process that takes it has verified, decrypted and validated its whole
\* package: "nothing is written unless everything succeeds first".
AcceptedWrite ==
    fs' # fs => \E p \in Proc : /\ pc[p] \in {"write", "fill", "record", "stamp"}
                               /\ Accepted(pkg[p])
                               /\ <<pc[p], idx[p]>>' # <<pc[p], idx[p]>>

OnlyAcceptedPackagesTouchTheDevice == [][AcceptedWrite]_vars

\* Every file the manifest of k lists is there with the listed digest.
FilesInstalled(k) ==
    LET files == ManifestOf(k.entries).files IN
    \A i \in DOMAIN files :
        /\ files[i].path \in Node
        /\ tree[files[i].path] \in Content
        /\ EVP_sha256(tree[files[i].path]) = files[i].sha256

\* Exit code 0 means that every file the manifest lists is installed with
\* the listed digest and that the version file holds the package's version.
SuccessMeansInstalled ==
    \A p \in Proc : exit[p] = 0 =>
        FilesInstalled(pkg[p]) /\ versionFile = FileOf(pkg[p].version)

\* A run that ends with a documented rejection (2 to 9) never reached the
\* write loop: only 1, or no exit code at all, can leave a partial install.
RejectionLeavesNoTrace ==
    \A p \in Proc : exit[p] \in 2..9 => idx[p] = 0

\* No run is cut off while the version file is empty, and the version file
\* can be read whenever there is one.
VersionFileSafe ==
    "stamp" \notin KillAt[setting] \cup FailAt[setting] /\ "version" \notin FailAt[setting]

\* A version lower than the last one is recorded only by a run whose secret
\* matches the device's stored hash.
AllowedRecord ==
    ledger' # ledger =>
        \/ fota_version_compare(ledger', ledger) > 0
        \/ \E p \in Proc : /\ pc[p] = "stamp" /\ pc'[p] = "hook"
                           /\ SecretMatches(secret[p], StoredHash)

\* While the version file is safe, the recorded version goes down only in a
\* run that was given the secret.
NoDowngradeWithoutSecret == [][VersionFileSafe => AllowedRecord]_vars

\* "Downgrades are blocked by default": the same, whatever happens to the
\* version file.
DowngradesAreBlocked == [][AllowedRecord]_vars

\* What main() would decide if the last run of p were repeated now.
Retry(p) ==
    fota_downgrade_check(pkg[p].version,
        fota_version_read_installed(versionFile), secret[p], StoredHash)

\* When a run was killed or failed after it had begun to write, running the
\* same package again is let through, unless the install is in fact complete.
\* Calls on the version file itself are taken not to fail.
InterruptedInstallIsRetryable ==
    FailAt[setting] \cap {"version", "stamp"} = {} =>
    \A p \in Proc :
        pc[p] = "idle" /\ idx[p] > 0 /\ exit[p] \in {NoExit, 1} =>
            /\ Readable(versionFile)
            /\ \/ Retry(p) = "ALLOW"
               \/ Retry(p) = "UP_TO_DATE" /\ FilesInstalled(pkg[p])

\* Nothing goes wrong, and no offered package has a file where another one
\* has a directory.
Undisturbed ==
    /\ KillAt[setting] = {} /\ FailAt[setting] = {}
    /\ \A j, k \in Offers[setting] : \A e \in FirmwareFiles(j.entries) :
          \A f \in FirmwareFiles(k.entries) :
              j.entries[e].path \notin Parents(k.entries[f].path)

\* "Already up to date": the files of that version are on the device.
UpToDateMeansInstalled ==
    Undisturbed =>
    \A p \in Proc : exit[p] = 2 /\ Accepted(pkg[p]) => FilesInstalled(pkg[p])

\* The packages that get through were made by the packager, which lists every
\* path once (the run manifest_duplicate shows what gets in otherwise), ...
CleanPackages ==
    \A k \in Package : Accepted(k) => DistinctListings(k.entries)

\* ... for an owner who numbers his releases, from 0.0.0.1 on.
OneBuildPerVersion ==
    \A k \in Package : Accepted(k) =>
        /\ k.version # ZeroVersion
        /\ \A j \in Package : Accepted(j) /\ j.version = k.version =>
              {<<j.entries[e].path, j.entries[e].data>> :
                  e \in FirmwareFiles(j.entries)}
            = {<<k.entries[e].path, k.entries[e].data>> :
                  e \in FirmwareFiles(k.entries)}

\* Every run ends: with an exit code, or killed.
EveryRunEnds == \A p \in Proc : pc[p] # "idle" ~> pc[p] = "idle"

\* Undisturbed, a package that passes every check is installed once there is
\* room for it.
AcceptedIsInstalled ==
    \A p \in Proc :
        Undisturbed /\ pc[p] = "verify" /\ Accepted(pkg[p]) ~> exit[p] = 0

=============================================================================
