--------------------------- MODULE ConsumerProofs ---------------------------
(***************************************************************************)
(* Theorems about Consumer, for any packages and any set of kill and       *)
(* failure points: first for any number of overlapping invocations, then   *)
(* for one at a time and packages whose manifest lists no path twice and   *)
(* not itself: what an exit code of 0 and an interrupted run leave on the  *)
(* device, that Consumer implements UpdateContract, and what a power cut   *)
(* leaves.                                                                 *)
(***************************************************************************)
EXTENDS PowerLoss, DeviceContract, FotaPackageProofs

-----------------------------------------------------------------------------
(* Facts about the constants.                                              *)

LEMMA PackageFields ==
    ASSUME NEW k \in Package
    PROVE  /\ k.version \in Version
           /\ k.entries \in Seq(Entry)
BY PackageAssumption DEF IsPackage

LEMMA FirmwareFileData ==
    ASSUME NEW k \in Package, NEW e \in FirmwareFiles(k.entries)
    PROVE  k.entries[e].data \in Content
<1>1. k.entries \in Seq(Entry) /\ e \in DOMAIN k.entries
    BY PackageFields DEF FirmwareFiles
<1>2. k.entries[e] \in Entry
    BY <1>1
<1>. QED  BY <1>2 DEF Entry

LEMMA ExitCodes ==
    ASSUME NEW r
    PROVE  install_result_to_exit_code(r) \in {1, 9}
BY DEF install_result_to_exit_code

LEMMA WithParentsTyped ==
    ASSUME tree \in [Node -> NodeState], NEW n, NEW i
    PROVE  WithParents(n, i) \in [Node -> NodeState]
BY DEF WithParents, NodeState

-----------------------------------------------------------------------------
(* The inductive invariant: what a process has established about its       *)
(* package when it reaches a control point.                                *)

AfterHeader  == Point \ {"idle", "header"}
AfterSpace   == AfterHeader \ {"version", "space"}
AfterVerify  == AfterSpace \ {"verify"}
AfterDecrypt == AfterVerify \ {"decrypt"}
Writing      == {"write", "fill", "record", "stamp", "hook"}

\* One conjunct per check of main(): past the check, its outcome is known.
Established(p) ==
    /\ pc[p] \in AfterHeader => /\ pkg[p].header
                                /\ pkg[p].platform = PlatformTag
                                /\ pkg[p].versioned
    /\ pc[p] \in AfterSpace => pkg[p].whole
    /\ pc[p] \in AfterVerify => pkg[p].signed
    /\ pc[p] \in AfterDecrypt => pkg[p].unwraps /\ DecryptOk(pkg[p])
    /\ pc[p] \in Writing => Validation(pkg[p]) = "OK"

\* The file a process has open is one of its package's firmware files.
OpenFileIsFirmware(p) ==
    pc[p] = "fill" => idx[p] \in FirmwareFiles(pkg[p].entries)

ProcInv == \A p \in Proc : Established(p) /\ OpenFileIsFirmware(p)

IInv == TypeOK /\ ProcInv

LEMMA InitIInv == Init => IInv
<1>. SUFFICES ASSUME Init
              PROVE  IInv
    OBVIOUS
<1>1. TypeOK
    <2>1. (CHOOSE k \in Package : TRUE) \in Package
        BY PackageAssumption
    <2>. QED  BY <2>1, ZeroIsVersion, VersionFilesTyped
              DEF Init, TypeOK, Point, NodeState, NoExit
<1>2. ProcInv
    BY DEF Init, ProcInv, Established, OpenFileIsFirmware, AfterHeader,
           AfterSpace, AfterVerify, AfterDecrypt, Writing
<1>. QED  BY <1>1, <1>2 DEF IInv

\* A step of p that leaves the other processes where they are keeps what they
\* have established: only p's own facts have to be shown again.
LEMMA OthersKeep ==
    ASSUME IInv, NEW p \in Proc,
           \A q \in Proc \ {p} : /\ pc'[q] = pc[q]
                                 /\ pkg'[q] = pkg[q]
                                 /\ idx'[q] = idx[q],
           Established(p)', OpenFileIsFirmware(p)'
    PROVE  ProcInv'
<1>. SUFFICES ASSUME NEW q \in Proc \ {p}
              PROVE  (Established(q) /\ OpenFileIsFirmware(q))'
    BY DEF ProcInv
<1>1. Established(q) /\ OpenFileIsFirmware(q)
    BY DEF IInv, ProcInv
<1>. QED  BY <1>1 DEF Established, OpenFileIsFirmware

\* Ending a run needs nothing of the package.
LEMMA ReturnKeeps ==
    ASSUME IInv, NEW p \in Proc, NEW code \in 0..9 \cup {NoExit},
           Return(p, code), UNCHANGED <<pkg, idx>>
    PROVE  /\ pc' \in [Proc -> Point]
           /\ exit' \in [Proc -> 0..9 \cup {NoExit}]
           /\ ProcInv'
<1>1. /\ pc' \in [Proc -> Point]
      /\ exit' \in [Proc -> 0..9 \cup {NoExit}]
    BY DEF Return, IInv, TypeOK, Point
<1>2. pc'[p] = "idle" /\ \A q \in Proc \ {p} : pc'[q] = pc[q]
    BY DEF Return, IInv, TypeOK
<1>3. Established(p)' /\ OpenFileIsFirmware(p)'
    BY <1>2 DEF Established, OpenFileIsFirmware, AfterHeader, AfterSpace,
                AfterVerify, AfterDecrypt, Writing
<1>. QED  BY <1>1, <1>2, <1>3, OthersKeep

\* Moving on to another point needs p's facts of that point only.
LEMMA GotoKeeps ==
    ASSUME IInv, NEW p \in Proc, NEW point \in Point,
           Goto(p, point), pkg' = pkg,
           \A q \in Proc \ {p} : idx'[q] = idx[q],
           Established(p)', OpenFileIsFirmware(p)'
    PROVE  /\ pc' \in [Proc -> Point]
           /\ exit' \in [Proc -> 0..9 \cup {NoExit}]
           /\ ProcInv'
<1>1. /\ pc' \in [Proc -> Point]
      /\ exit' \in [Proc -> 0..9 \cup {NoExit}]
    BY DEF Goto, IInv, TypeOK
<1>2. \A q \in Proc \ {p} : pc'[q] = pc[q]
    BY DEF Goto, IInv, TypeOK
<1>. QED  BY <1>1, <1>2, OthersKeep

\* A step that leaves the device alone keeps the types of what is on it.
LEMMA InMemoryTyped ==
    ASSUME IInv, InMemory,
           pc' \in [Proc -> Point],
           exit' \in [Proc -> 0..9 \cup {NoExit}]
    PROVE  TypeOK'
BY DEF InMemory, locals, fs, IInv, TypeOK

LEMMA FailsKeeps ==
    ASSUME IInv, NEW p \in Proc, NEW point, NEW code \in 0..9,
           Fails(p, point, code)
    PROVE  IInv'
<1>1. Return(p, code) /\ InMemory
    BY DEF Fails
<1>2. UNCHANGED <<pkg, idx>>
    BY <1>1 DEF InMemory, locals
<1>. QED  BY <1>1, <1>2, ReturnKeeps, InMemoryTyped DEF IInv

-----------------------------------------------------------------------------
(* One lemma per action.                                                   *)

LEMMA StartKeeps == ASSUME IInv, NEW p \in Proc, Start(p) PROVE IInv'
<1>1. /\ pkg' \in [Proc -> Package]
      /\ secret' \in [Proc -> Secret \cup {NoSecret}]
      /\ idx' \in [Proc -> Nat]
      /\ clobbered' \in [Proc -> BOOLEAN]
    <2>1. Offers[setting] \subseteq Package
        BY SettingAssumption DEF IInv, TypeOK
    <2>. QED  BY <2>1 DEF Start, IInv, TypeOK
<1>2. /\ pc' \in [Proc -> Point]
      /\ exit' \in [Proc -> 0..9 \cup {NoExit}]
      /\ pc'[p] \in {"idle", "header"}
      /\ \A q \in Proc \ {p} : pc'[q] = pc[q]
    BY DEF Start, Return, IInv, TypeOK, Point
<1>3. \A q \in Proc \ {p} : pkg'[q] = pkg[q] /\ idx'[q] = idx[q]
    BY DEF Start, IInv, TypeOK
<1>4. Established(p)' /\ OpenFileIsFirmware(p)'
    BY <1>2 DEF Established, OpenFileIsFirmware, AfterHeader, AfterSpace,
                AfterVerify, AfterDecrypt, Writing
<1>5. ProcInv'
    BY <1>2, <1>3, <1>4, OthersKeep
<1>6. TypeOK'
    BY <1>1, <1>2 DEF Start, fs, IInv, TypeOK
<1>. QED  BY <1>5, <1>6 DEF IInv

\* Each check either ends the run or lets p on with one more fact.
LEMMA CheckKeeps ==
    ASSUME IInv, NEW p \in Proc, InMemory,
           \/ \E code \in 0..9 : Return(p, code)
           \/ \E point \in Point : Goto(p, point) /\ Established(p)'
                                                  /\ OpenFileIsFirmware(p)'
    PROVE  IInv'
<1>1. UNCHANGED <<pkg, idx>>
    BY DEF InMemory, locals
<1>2. ASSUME NEW code \in 0..9, Return(p, code) PROVE IInv'
    BY <1>1, <1>2, ReturnKeeps, InMemoryTyped DEF IInv
<1>3. ASSUME NEW point \in Point, Goto(p, point), Established(p)',
             OpenFileIsFirmware(p)'
      PROVE  IInv'
    BY <1>1, <1>3, GotoKeeps, InMemoryTyped DEF IInv
<1>. QED  BY <1>2, <1>3

LEMMA CheckHeaderKeeps == ASSUME IInv, NEW p \in Proc, CheckHeader(p) PROVE IInv'
<1>1. InMemory /\ pc[p] = "header" /\ pkg' = pkg
    BY DEF CheckHeader, InMemory, locals
<1>2. \/ \E code \in 0..9 : Return(p, code)
      \/ /\ Goto(p, "version")
         /\ pkg[p].header /\ pkg[p].platform = PlatformTag /\ pkg[p].versioned
    <2>. DEFINE k == pkg[p]
    <2>1. CASE ~k.header
        BY <2>1 DEF CheckHeader
    <2>2. CASE k.header /\ k.platform # PlatformTag
        BY <2>2 DEF CheckHeader
    <2>3. CASE k.header /\ k.platform = PlatformTag /\ ~k.versioned
        BY <2>3 DEF CheckHeader
    <2>4. CASE k.header /\ k.platform = PlatformTag /\ k.versioned
        BY <2>4 DEF CheckHeader
    <2>. QED  BY <2>1, <2>2, <2>3, <2>4
<1>3. ASSUME Goto(p, "version"), pkg[p].header,
             pkg[p].platform = PlatformTag, pkg[p].versioned
      PROVE  Established(p)' /\ OpenFileIsFirmware(p)'
    <2>1. pc'[p] = "version"
        BY <1>3 DEF Goto, IInv, TypeOK
    <2>. QED  BY <1>1, <1>3, <2>1 DEF Established, OpenFileIsFirmware,
                 AfterHeader, AfterSpace, AfterVerify, AfterDecrypt, Writing
<1>. QED  BY <1>1, <1>2, <1>3, CheckKeeps DEF Point

LEMMA CheckVersionOutcome ==
    ASSUME IInv, NEW p \in Proc, CheckVersion(p)
    PROVE  /\ InMemory /\ pc[p] = "version"
           /\ \/ \E code \in {1, 2, 6} : Return(p, code)
              \/ Goto(p, "space")
<1>1. PICK f \in {versionFile} \cup {NoVersionFile},
           hash \in {StoredHash} \cup {{}} :
        IF ~Readable(f) THEN Return(p, 1)
        ELSE LET decision == fota_downgrade_check(pkg[p].version,
                                 fota_version_read_installed(f),
                                 secret[p], hash)
             IN  CASE decision = "UP_TO_DATE" -> Return(p, 2)
                   [] decision = "BLOCKED" -> Return(p, 6)
                   [] decision = "ALLOW" -> Goto(p, "space")
    BY DEF CheckVersion
<1>. DEFINE decision == fota_downgrade_check(pkg[p].version,
                fota_version_read_installed(f), secret[p], hash)
<1>2. f \in VersionFile /\ pkg[p].version \in Version
    BY VersionFilesTyped, ZeroIsVersion, PackageFields DEF IInv, TypeOK
<1>3. decision \in {"ALLOW", "UP_TO_DATE", "BLOCKED"}
    BY <1>2, ReadIsVersion, DowngradeDecision
<1>. HIDE DEF decision
<1>4. CASE ~Readable(f)
    BY <1>1, <1>4 DEF CheckVersion
<1>5. CASE Readable(f) /\ decision = "UP_TO_DATE"
    BY <1>1, <1>5 DEF decision, CheckVersion
<1>6. CASE Readable(f) /\ decision = "BLOCKED"
    BY <1>1, <1>6 DEF decision, CheckVersion
<1>7. CASE Readable(f) /\ decision = "ALLOW"
    BY <1>1, <1>7 DEF decision, CheckVersion
<1>. QED  BY <1>3, <1>4, <1>5, <1>6, <1>7

LEMMA CheckVersionKeeps == ASSUME IInv, NEW p \in Proc, CheckVersion(p) PROVE IInv'
<1>1. InMemory /\ pc[p] = "version" /\ pkg' = pkg
    BY DEF CheckVersion, InMemory, locals
<1>2. (\E code \in {1, 2, 6} : Return(p, code)) \/ Goto(p, "space")
    BY CheckVersionOutcome
<1>3. ASSUME Goto(p, "space")
      PROVE  Established(p)' /\ OpenFileIsFirmware(p)'
    <2>1. pc'[p] = "space"
        BY <1>3 DEF Goto, IInv, TypeOK
    <2>2. Established(p)
        BY DEF IInv, ProcInv
    <2>. QED  BY <1>1, <2>1, <2>2 DEF Established, OpenFileIsFirmware, Point,
                 AfterHeader, AfterSpace, AfterVerify, AfterDecrypt, Writing
<1>. QED  BY <1>1, <1>2, <1>3, CheckKeeps DEF Point

LEMMA CheckSpaceKeeps == ASSUME IInv, NEW p \in Proc, CheckSpace(p) PROVE IInv'
<1>1. CASE Fails(p, "space", 1)
    BY <1>1, FailsKeeps
<1>2. ASSUME pc[p] = "space", InMemory, NEW available \in Space,
             CASE ~pkg[p].whole -> Return(p, 3)
               [] pkg[p].whole /\ available < pkg[p].len -> Return(p, 7)
               [] OTHER -> Goto(p, "verify")
      PROVE  IInv'
    <2>1. CASE ~pkg[p].whole
        BY <1>2, <2>1, CheckKeeps
    <2>2. CASE pkg[p].whole /\ available < pkg[p].len
        BY <1>2, <2>2, CheckKeeps
    <2>3. CASE pkg[p].whole /\ ~(available < pkg[p].len)
        <3>1. Goto(p, "verify")
            BY <1>2, <2>3
        <3>2. pc'[p] = "verify" /\ pkg' = pkg
            BY <1>2, <3>1 DEF Goto, InMemory, locals, IInv, TypeOK
        <3>3. Established(p)
            BY DEF IInv, ProcInv
        <3>4. Established(p)' /\ OpenFileIsFirmware(p)'
            BY <1>2, <2>3, <3>2, <3>3
               DEF Established, OpenFileIsFirmware, Point, AfterHeader,
                   AfterSpace, AfterVerify, AfterDecrypt, Writing
        <3>. QED  BY <1>2, <3>1, <3>4, CheckKeeps DEF Point
    <2>. QED  BY <2>1, <2>2, <2>3
<1>. QED  BY <1>1, <1>2 DEF CheckSpace

LEMMA VerifySignatureKeeps ==
    ASSUME IInv, NEW p \in Proc, VerifySignature(p) PROVE IInv'
<1>1. ASSUME NEW code \in {1, 5}, Fails(p, "verify", code) PROVE IInv'
    BY <1>1, FailsKeeps
<1>2. ASSUME pc[p] = "verify", InMemory, ~pkg[p].signed, Return(p, 5)
      PROVE  IInv'
    BY <1>2, CheckKeeps
<1>3. ASSUME pc[p] = "verify", InMemory, pkg[p].signed, Goto(p, "decrypt")
      PROVE  IInv'
    <2>1. pc'[p] = "decrypt" /\ pkg' = pkg
        BY <1>3 DEF Goto, InMemory, locals, IInv, TypeOK
    <2>2. Established(p)
        BY DEF IInv, ProcInv
    <2>3. Established(p)' /\ OpenFileIsFirmware(p)'
        BY <1>3, <2>1, <2>2
           DEF Established, OpenFileIsFirmware, Point, AfterHeader,
               AfterSpace, AfterVerify, AfterDecrypt, Writing
    <2>. QED  BY <1>3, <2>3, CheckKeeps DEF Point
<1>. QED  BY <1>1, <1>2, <1>3 DEF VerifySignature

LEMMA DecryptKeeps == ASSUME IInv, NEW p \in Proc, Decrypt(p) PROVE IInv'
<1>1. ASSUME NEW code \in {1, 8}, Fails(p, "decrypt", code) PROVE IInv'
    BY <1>1, FailsKeeps
<1>2. ASSUME InMemory, Return(p, 8)
      PROVE  IInv'
    BY <1>2, CheckKeeps
<1>3. ASSUME pc[p] = "decrypt", InMemory,
             pkg[p].unwraps, DecryptOk(pkg[p]), Goto(p, "extract")
      PROVE  IInv'
    <2>1. pc'[p] = "extract" /\ pkg' = pkg
        BY <1>3 DEF Goto, InMemory, locals, IInv, TypeOK
    <2>2. Established(p)
        BY DEF IInv, ProcInv
    <2>3. Established(p)' /\ OpenFileIsFirmware(p)'
        BY <1>3, <2>1, <2>2
           DEF Established, OpenFileIsFirmware, Point, AfterHeader,
               AfterSpace, AfterVerify, AfterDecrypt, Writing
    <2>. QED  BY <1>3, <2>3, CheckKeeps DEF Point
<1>. QED  BY <1>1, <1>2, <1>3 DEF Decrypt

LEMMA ValidateKeeps == ASSUME IInv, NEW p \in Proc, Validate(p) PROVE IInv'
<1>1. CASE Fails(p, "extract", install_result_to_exit_code("IO"))
    BY <1>1, ExitCodes, FailsKeeps
<1>2. ASSUME pc[p] = "extract", Validation(pkg[p]) = "OK", Goto(p, "write"),
             idx' = [idx EXCEPT ![p] = 1],
             UNCHANGED <<setting, pkg, secret, clobbered, fs, ledger>>
      PROVE  IInv'
    <2>1. pc'[p] = "write" /\ idx' \in [Proc -> Nat]
        BY <1>2 DEF Goto, IInv, TypeOK
    <2>2. Established(p)
        BY DEF IInv, ProcInv
    <2>3. Established(p)' /\ OpenFileIsFirmware(p)'
        BY <1>2, <2>1, <2>2
           DEF Established, OpenFileIsFirmware, Point, AfterHeader,
               AfterSpace, AfterVerify, AfterDecrypt, Writing
    <2>4. \A q \in Proc \ {p} : idx'[q] = idx[q]
        BY <1>2 DEF IInv, TypeOK
    <2>5. /\ pc' \in [Proc -> Point]
          /\ exit' \in [Proc -> 0..9 \cup {NoExit}]
          /\ ProcInv'
        BY <1>2, <2>3, <2>4, GotoKeeps DEF Point
    <2>. QED  BY <1>2, <2>1, <2>5 DEF fs, IInv, TypeOK
<1>3. ASSUME Validation(pkg[p]) # "OK",
             Return(p, install_result_to_exit_code(Validation(pkg[p]))),
             UNCHANGED idx, UNCHANGED <<setting, pkg, secret, clobbered, fs, ledger>>
      PROVE  IInv'
    <2>1. install_result_to_exit_code(Validation(pkg[p])) \in 0..9
        BY ExitCodes
    <2>2. InMemory
        BY <1>3 DEF InMemory, locals
    <2>. QED  BY <1>3, <2>1, <2>2, CheckKeeps
<1>. QED  BY <1>1, <1>2, <1>3 DEF Validate

LEMMA SkipEntryKeeps == ASSUME IInv, NEW p \in Proc, SkipEntry(p) PROVE IInv'
<1>1. idx' \in [Proc -> Nat] /\ \A q \in Proc \ {p} : idx'[q] = idx[q]
    BY DEF SkipEntry, IInv, TypeOK
<1>2. Established(p)
    BY DEF IInv, ProcInv
<1>3. Established(p)' /\ OpenFileIsFirmware(p)'
    BY <1>2 DEF SkipEntry, Established, OpenFileIsFirmware
<1>4. ProcInv'
    BY <1>1, <1>3, OthersKeep DEF SkipEntry
<1>5. TypeOK'
    BY <1>1 DEF SkipEntry, fs, IInv, TypeOK
<1>. QED  BY <1>4, <1>5 DEF IInv

\* Going on within the write loop or to the version file.
LEMMA WritingGoesOn ==
    ASSUME IInv, NEW p \in Proc, NEW point \in Writing,
           pc[p] \in Writing, Goto(p, point), pkg' = pkg,
           \A q \in Proc \ {p} : idx'[q] = idx[q],
           OpenFileIsFirmware(p)'
    PROVE  /\ pc' \in [Proc -> Point]
           /\ exit' \in [Proc -> 0..9 \cup {NoExit}]
           /\ ProcInv'
<1>1. pc'[p] = point
    BY DEF Goto, IInv, TypeOK
<1>2. Established(p)
    BY DEF IInv, ProcInv
<1>3. Established(p)'
    BY <1>1, <1>2 DEF Established, Point, AfterHeader,
                      AfterSpace, AfterVerify, AfterDecrypt, Writing
<1>. QED  BY <1>3, GotoKeeps DEF Point, Writing

LEMMA OpenFileKeeps == ASSUME IInv, NEW p \in Proc, OpenFile(p) PROVE IInv'
<1>. DEFINE n == Target(p)
<1>1. /\ pc[p] = "write"
      /\ idx[p] \in FirmwareFiles(pkg[p].entries)
      /\ UNCHANGED <<setting, pkg, secret, idx, versionFile, ledger>>
    BY DEF OpenFile, Installed
<1>2. CASE /\ tree' = [WithParents(n, Len(n) - 1) EXCEPT ![n] = "torn"]
           /\ clobbered' = [q \in Proc |->
                 IF q = p THEN \E r \in Proc : Sharing(p, r)
                 ELSE clobbered[q] \/ Sharing(p, q)]
           /\ Goto(p, "fill")
    <2>1. tree' \in [Node -> NodeState]
        <3>1. WithParents(n, Len(n) - 1) \in [Node -> NodeState]
            BY WithParentsTyped DEF IInv, TypeOK
        <3>. QED  BY <1>2, <3>1 DEF NodeState
    <2>2. clobbered' \in [Proc -> BOOLEAN]
        BY <1>2 DEF IInv, TypeOK, Sharing
    <2>3. OpenFileIsFirmware(p)'
        BY <1>1 DEF OpenFileIsFirmware
    <2>4. /\ pc' \in [Proc -> Point]
          /\ exit' \in [Proc -> 0..9 \cup {NoExit}]
          /\ ProcInv'
        BY <1>1, <1>2, <2>3, WritingGoesOn DEF Writing
    <2>. QED  BY <1>1, <2>1, <2>2, <2>4 DEF IInv, TypeOK
<1>3. CASE /\ tree' \in {tree} \cup {WithParents(n, i) : i \in 0..(Len(n) - 1)}
           /\ Return(p, install_result_to_exit_code("IO"))
           /\ UNCHANGED clobbered
    <2>1. tree' \in [Node -> NodeState]
        BY <1>3, WithParentsTyped DEF IInv, TypeOK
    <2>2. /\ pc' \in [Proc -> Point]
          /\ exit' \in [Proc -> 0..9 \cup {NoExit}]
          /\ ProcInv'
        BY <1>1, <1>3, ExitCodes, ReturnKeeps
    <2>. QED  BY <1>1, <1>3, <2>1, <2>2 DEF IInv, TypeOK
<1>4. \/ /\ tree' = [WithParents(n, Len(n) - 1) EXCEPT ![n] = "torn"]
         /\ clobbered' = [q \in Proc |->
               IF q = p THEN \E r \in Proc : Sharing(p, r)
               ELSE clobbered[q] \/ Sharing(p, q)]
         /\ Goto(p, "fill")
      \/ /\ tree' \in {tree} \cup {WithParents(n, i) : i \in 0..(Len(n) - 1)}
         /\ Return(p, install_result_to_exit_code("IO"))
         /\ UNCHANGED clobbered
    BY DEF OpenFile
<1>. QED  BY <1>2, <1>3, <1>4

LEMMA FillFileKeeps == ASSUME IInv, NEW p \in Proc, FillFile(p) PROVE IInv'
<1>. DEFINE n == Target(p)
            data == pkg[p].entries[idx[p]].data
<1>1. /\ pc[p] = "fill"
      /\ UNCHANGED <<setting, pkg, secret, clobbered, versionFile, ledger>>
    BY DEF FillFile
<1>2. data \in Content
    BY <1>1, FirmwareFileData DEF IInv, TypeOK, ProcInv, OpenFileIsFirmware
<1>3. PICK c \in {data, "torn", tree[n]} : tree' = [tree EXCEPT ![n] = c]
    BY DEF FillFile
<1>4. tree' \in [Node -> NodeState]
    BY <1>2, <1>3 DEF NodeState, IInv, TypeOK
<1>5. CASE idx' = [idx EXCEPT ![p] = @ + 1] /\ Goto(p, "write")
    <2>1. idx' \in [Proc -> Nat] /\ \A q \in Proc \ {p} : idx'[q] = idx[q]
        BY <1>5 DEF IInv, TypeOK
    <2>2. pc'[p] = "write"
        BY <1>5 DEF Goto, IInv, TypeOK
    <2>3. OpenFileIsFirmware(p)'
        BY <2>2 DEF OpenFileIsFirmware
    <2>4. /\ pc' \in [Proc -> Point]
          /\ exit' \in [Proc -> 0..9 \cup {NoExit}]
          /\ ProcInv'
        BY <1>1, <1>5, <2>1, <2>3, WritingGoesOn DEF Writing
    <2>. QED  BY <1>1, <1>4, <2>1, <2>4 DEF IInv, TypeOK
<1>6. CASE UNCHANGED idx /\ Return(p, install_result_to_exit_code("IO"))
    <2>1. /\ pc' \in [Proc -> Point]
          /\ exit' \in [Proc -> 0..9 \cup {NoExit}]
          /\ ProcInv'
        BY <1>1, <1>6, ExitCodes, ReturnKeeps
    <2>. QED  BY <1>1, <1>4, <1>6, <2>1 DEF IInv, TypeOK
<1>. QED  BY <1>5, <1>6 DEF FillFile

LEMMA EndLoopKeeps == ASSUME IInv, NEW p \in Proc, EndLoop(p) PROVE IInv'
<1>1. pc[p] = "write" /\ Goto(p, "record") /\ InMemory /\ UNCHANGED <<pkg, idx>>
    BY DEF EndLoop, InMemory, locals
<1>2. pc'[p] = "record"
    BY <1>1 DEF Goto, IInv, TypeOK
<1>3. OpenFileIsFirmware(p)'
    BY <1>2 DEF OpenFileIsFirmware
<1>4. /\ pc' \in [Proc -> Point]
      /\ exit' \in [Proc -> 0..9 \cup {NoExit}]
      /\ ProcInv'
    BY <1>1, <1>3, WritingGoesOn DEF Writing
<1>. QED  BY <1>1, <1>4, InMemoryTyped DEF IInv

LEMMA OpenVersionFileKeeps ==
    ASSUME IInv, NEW p \in Proc, OpenVersionFile(p) PROVE IInv'
<1>1. CASE Fails(p, "record", 1)
    BY <1>1, FailsKeeps
<1>2. CASE /\ pc[p] = "record"
           /\ versionFile' = BlankFile
           /\ clobbered' = [q \in Proc |->
                 IF q = p THEN \E r \in Proc \ {p} : pc[r] = "stamp"
                 ELSE clobbered[q] \/ pc[q] = "stamp"]
           /\ Goto(p, "stamp")
           /\ UNCHANGED <<setting, pkg, secret, idx, tree, ledger>>
    <2>1. versionFile' \in VersionFile
        BY <1>2, VersionFilesTyped, ZeroIsVersion
    <2>2. clobbered' \in [Proc -> BOOLEAN]
        BY <1>2 DEF IInv, TypeOK
    <2>3. pc'[p] = "stamp"
        BY <1>2 DEF Goto, IInv, TypeOK
    <2>4. OpenFileIsFirmware(p)'
        BY <2>3 DEF OpenFileIsFirmware
    <2>5. /\ pc' \in [Proc -> Point]
          /\ exit' \in [Proc -> 0..9 \cup {NoExit}]
          /\ ProcInv'
        BY <1>2, <2>4, WritingGoesOn DEF Writing
    <2>. QED  BY <1>2, <2>1, <2>2, <2>5 DEF IInv, TypeOK
<1>. QED  BY <1>1, <1>2 DEF OpenVersionFile

LEMMA CloseVersionFileKeeps ==
    ASSUME IInv, NEW p \in Proc, CloseVersionFile(p) PROVE IInv'
<1>. DEFINE v == pkg[p].version
<1>1. /\ pc[p] = "stamp"
      /\ UNCHANGED <<locals, tree>>
      /\ v \in Version
    BY PackageFields DEF CloseVersionFile, IInv, TypeOK
<1>2. UNCHANGED <<setting, pkg, secret, idx, clobbered, tree>>
    BY <1>1 DEF locals
<1>3. CASE /\ versionFile' \in {FileOf(v)} \cup
                 IF clobbered[p] THEN {MalformedFile, versionFile} ELSE {}
           /\ ledger' = v
           /\ Goto(p, "hook")
    <2>1. versionFile' \in VersionFile
        BY <1>1, <1>3, VersionFilesTyped DEF IInv, TypeOK
    <2>2. pc'[p] = "hook"
        BY <1>3 DEF Goto, IInv, TypeOK
    <2>3. OpenFileIsFirmware(p)'
        BY <2>2 DEF OpenFileIsFirmware
    <2>4. /\ pc' \in [Proc -> Point]
          /\ exit' \in [Proc -> 0..9 \cup {NoExit}]
          /\ ProcInv'
        BY <1>1, <1>2, <1>3, <2>3, WritingGoesOn DEF Writing
    <2>. QED  BY <1>1, <1>2, <1>3, <2>1, <2>4 DEF IInv, TypeOK
<1>4. CASE /\ versionFile' \in {versionFile} \cup ShortWrites(v)
           /\ Return(p, 1)
           /\ UNCHANGED ledger
    <2>1. versionFile' \in VersionFile
        BY <1>1, <1>4, VersionFilesTyped DEF IInv, TypeOK
    <2>2. /\ pc' \in [Proc -> Point]
          /\ exit' \in [Proc -> 0..9 \cup {NoExit}]
          /\ ProcInv'
        BY <1>2, <1>4, ReturnKeeps
    <2>. QED  BY <1>2, <1>4, <2>1, <2>2 DEF IInv, TypeOK
<1>. QED  BY <1>3, <1>4 DEF CloseVersionFile

LEMMA FinishKeeps == ASSUME IInv, NEW p \in Proc, Finish(p) PROVE IInv'
BY CheckKeeps DEF Finish

LEMMA KillKeeps == ASSUME IInv, NEW p \in Proc, Kill(p) PROVE IInv'
<1>1. Return(p, NoExit) /\ InMemory /\ UNCHANGED <<pkg, idx>>
    BY DEF Kill, InMemory, locals
<1>. QED  BY <1>1, ReturnKeeps, InMemoryTyped DEF IInv

LEMMA StutterKeeps == ASSUME IInv, UNCHANGED vars PROVE IInv'
<1>1. TypeOK'
    BY DEF vars, IInv, TypeOK
<1>2. ProcInv'
    BY DEF vars, IInv, ProcInv, Established, OpenFileIsFirmware
<1>. QED  BY <1>1, <1>2 DEF IInv

LEMMA StepIInv == IInv /\ [Next]_vars => IInv'
<1>. SUFFICES ASSUME IInv, [Next]_vars
              PROVE  IInv'
    OBVIOUS
<1>1. ASSUME NEW p \in Proc, Start(p) \/ Step(p) \/ Kill(p)
      PROVE  IInv'
    BY <1>1, StartKeeps, CheckHeaderKeeps, CheckVersionKeeps, CheckSpaceKeeps,
       VerifySignatureKeeps, DecryptKeeps, ValidateKeeps, SkipEntryKeeps,
       OpenFileKeeps, FillFileKeeps, EndLoopKeeps, OpenVersionFileKeeps,
       CloseVersionFileKeeps, FinishKeeps, KillKeeps DEF Step
<1>. QED  BY <1>1, StutterKeeps DEF Next

-----------------------------------------------------------------------------
(* Theorems.                                                               *)

\* Type invariant: exit codes, control points, files and versions stay what
\* the code's types say, however invocations overlap, fail and are killed.
THEOREM TypeCorrect == Spec => []TypeOK
<1>1. IInv => TypeOK
    BY DEF IInv
<1>. QED  BY <1>1, InitIInv, StepIInv, PTL DEF Spec

LEMMA WritingIsAccepted ==
    ASSUME IInv, NEW p \in Proc, pc[p] \in Writing
    PROVE  Accepted(pkg[p])
BY DEF IInv, ProcInv, Established, Accepted, Writing, Point, AfterHeader,
       AfterSpace, AfterVerify, AfterDecrypt

LEMMA WriteSteps ==
    ASSUME IInv, NEW p \in Proc, Start(p) \/ Step(p) \/ Kill(p)
    PROVE  \/ OpenFile(p) \/ FillFile(p) \/ OpenVersionFile(p)
           \/ CloseVersionFile(p)
           \/ UNCHANGED <<tree, versionFile, ledger>>
BY DEF Step, Start, CheckHeader, CheckVersion, CheckSpace, VerifySignature,
       Decrypt, Validate, SkipEntry, EndLoop, Finish, Kill, Fails, InMemory, fs

\* Nothing on the device changes but by a process that is in its write loop
\* or recording the version, and whose package has passed every check.
THEOREM OnlyAcceptedWrites == Spec => OnlyAcceptedPackagesTouchTheDevice
<1>1. IInv /\ [Next]_vars => [AcceptedWrite]_vars
    <2>. SUFFICES ASSUME IInv, NEW p \in Proc, Start(p) \/ Step(p) \/ Kill(p),
                         fs' # fs
                  PROVE  AcceptedWrite
        BY DEF Next, vars, fs, AcceptedWrite
    <2>1. pc[p] \in {"write", "fill", "record", "stamp"} /\ pc'[p] # pc[p]
        <3>1. ASSUME NEW point \in Point, NEW code, point # pc[p], pc[p] # "idle",
                     Goto(p, point) \/ Return(p, code)
              PROVE  pc'[p] # pc[p]
            BY <3>1 DEF Goto, Return, IInv, TypeOK
        <3>2. CASE OpenFile(p)
            BY <3>1, <3>2 DEF OpenFile, Point
        <3>3. CASE FillFile(p)
            BY <3>1, <3>3 DEF FillFile, Point
        <3>4. CASE OpenVersionFile(p)
            BY <3>1, <3>4 DEF OpenVersionFile, Fails, Point
        <3>5. CASE CloseVersionFile(p)
            BY <3>1, <3>5 DEF CloseVersionFile, Point
        <3>. QED  BY <3>2, <3>3, <3>4, <3>5, WriteSteps DEF fs
    <2>2. Accepted(pkg[p])
        BY <2>1, WritingIsAccepted DEF Writing
    <2>. QED  BY <2>1, <2>2 DEF AcceptedWrite
<1>. QED  BY <1>1, InitIInv, StepIInv, PTL
          DEF Spec, OnlyAcceptedPackagesTouchTheDevice

\* c is what an accepted package has for path n.
Genuine(n, c) ==
    \E k \in Package : Accepted(k) /\
        \E e \in FirmwareFiles(k.entries) :
            k.entries[e].path = n /\ k.entries[e].data = c

LEMMA StepAuthentic ==
    IInv /\ InstalledIsAuthentic /\ [Next]_vars => InstalledIsAuthentic'
<1>. SUFFICES ASSUME IInv, InstalledIsAuthentic, [Next]_vars
              PROVE  InstalledIsAuthentic'
    OBVIOUS
<1>. USE DEF Genuine
<1>1. CASE UNCHANGED <<tree, ledger>>
    BY <1>1 DEF InstalledIsAuthentic
<1>2. ASSUME NEW p \in Proc, OpenFile(p) PROVE InstalledIsAuthentic'
    <2>1. ledger' = ledger
        BY <1>2 DEF OpenFile
    <2>2. \A n \in Node : tree'[n] \in Content => tree'[n] = tree[n]
        BY <1>2, NodeStateAssumption DEF OpenFile, WithParents, IInv, TypeOK
    <2>. QED  BY <2>1, <2>2 DEF InstalledIsAuthentic
<1>3. ASSUME NEW p \in Proc, FillFile(p) PROVE InstalledIsAuthentic'
    <2>. DEFINE t == Target(p)
                data == pkg[p].entries[idx[p]].data
    <2>1. ledger' = ledger
        BY <1>3 DEF FillFile
    <2>2. Genuine(t, data)
        BY <1>3, WritingIsAccepted
           DEF FillFile, Writing, IInv, TypeOK, ProcInv, OpenFileIsFirmware,
               Target
    <2>3. \A n \in Node : \/ tree'[n] = tree[n]
                          \/ n = t /\ tree'[n] \in {data, "torn"}
        BY <1>3 DEF FillFile, IInv, TypeOK
    <2>4. ASSUME NEW n \in Node, tree'[n] \in Content
          PROVE  Genuine(n, tree'[n])
        BY <2>2, <2>3, <2>4, NodeStateAssumption DEF InstalledIsAuthentic
    <2>. QED  BY <2>1, <2>4 DEF InstalledIsAuthentic
<1>4. ASSUME NEW p \in Proc, CloseVersionFile(p) PROVE InstalledIsAuthentic'
    <2>1. tree' = tree /\ ledger' \in {ledger, pkg[p].version}
        BY <1>4 DEF CloseVersionFile
    <2>2. pkg[p] \in Package /\ Accepted(pkg[p])
        BY <1>4, WritingIsAccepted
           DEF CloseVersionFile, Writing, IInv, TypeOK
    <2>. QED  BY <2>1, <2>2 DEF InstalledIsAuthentic
<1>5. ASSUME NEW p \in Proc, OpenVersionFile(p) PROVE UNCHANGED <<tree, ledger>>
    BY <1>5 DEF OpenVersionFile, Fails, InMemory, fs
<1>. QED  BY <1>1, <1>2, <1>3, <1>4, <1>5, WriteSteps DEF Next, vars

\* A whole file in the install directory is an accepted package's file for
\* that path, also when several packages were installed over one another, in
\* part, or by invocations that overlap.
THEOREM Authentic == Spec => []InstalledIsAuthentic
<1>1. Init => InstalledIsAuthentic
    BY NodeStateAssumption DEF Init, InstalledIsAuthentic
<1>. QED  BY <1>1, InitIInv, StepIInv, StepAuthentic, PTL DEF Spec

-----------------------------------------------------------------------------
(* Exit codes and the write loop.                                          *)

\* The loop index tells how far an ended run got: it is 0 exactly if the run
\* never reached the write loop.
LoopIndex(p) ==
    /\ pc[p] # "idle" => exit[p] = NoExit
    /\ pc[p] \in Point \ (Writing \cup {"idle"}) => idx[p] = 0
    /\ pc[p] \in Writing => idx[p] > 0
    /\ exit[p] \in 2..9 => idx[p] = 0
    /\ exit[p] = 0 => idx[p] > 0
    /\ idx[p] > 0 => Validation(pkg[p]) = "OK"

LoopIndexInv == \A p \in Proc : LoopIndex(p)

\* The ways a step of p changes what LoopIndex(p) depends on.
Begins(p) == /\ idx'[p] = 0
             /\ \/ pc'[p] = "header" /\ exit'[p] = NoExit
                \/ pc'[p] = "idle" /\ exit'[p] = 1

Ends(p) == /\ pc'[p] = "idle"
           /\ pkg'[p] = pkg[p] /\ idx'[p] = idx[p]
           /\ \/ exit'[p] \in {1, NoExit}
              \/ exit'[p] \in 2..9 /\ pc[p] \in Point \ (Writing \cup {"idle"})
              \/ exit'[p] = 0 /\ pc[p] = "hook"

Continues(p) == /\ pc[p] # "idle" /\ pc'[p] # "idle"
                /\ exit'[p] = exit[p] /\ pkg'[p] = pkg[p]
                /\ \/ /\ idx'[p] = idx[p]
                      /\ pc[p] \in Writing <=> pc'[p] \in Writing
                   \/ /\ idx'[p] = 1 /\ pc'[p] \in Writing
                      /\ Validation(pkg[p]) = "OK"
                   \/ /\ idx'[p] = idx[p] + 1
                      /\ pc[p] \in Writing /\ pc'[p] \in Writing

OthersStay(p) == \A q \in Proc \ {p} :
    /\ pc'[q] = pc[q] /\ exit'[q] = exit[q]
    /\ pkg'[q] = pkg[q] /\ idx'[q] = idx[q]

LEMMA StepShape ==
    ASSUME IInv, NEW p \in Proc, Start(p) \/ Step(p) \/ Kill(p)
    PROVE  OthersStay(p) /\ (Begins(p) \/ Ends(p) \/ Continues(p))
<1>. USE DEF IInv, TypeOK
<1>1. ASSUME NEW code \in 0..9 \cup {NoExit}, Return(p, code),
             UNCHANGED <<pkg, idx>>
      PROVE  /\ OthersStay(p)
             /\ pc'[p] = "idle" /\ exit'[p] = code
             /\ pkg'[p] = pkg[p] /\ idx'[p] = idx[p]
    BY <1>1 DEF Return, OthersStay
<1>2. ASSUME NEW point \in Point, Goto(p, point), pkg' = pkg,
             \A q \in Proc \ {p} : idx'[q] = idx[q]
      PROVE  /\ OthersStay(p)
             /\ pc'[p] = point /\ exit'[p] = exit[p] /\ pkg'[p] = pkg[p]
    BY <1>2 DEF Goto, OthersStay
<1>3. ASSUME InMemory PROVE UNCHANGED <<pkg, idx>>
    BY <1>3 DEF InMemory, locals
<1>4. ASSUME NEW point \in Point, NEW code \in 0..9, Fails(p, point, code),
             code = 1 \/ pc[p] \in Point \ (Writing \cup {"idle"}),
             code # 0
      PROVE  OthersStay(p) /\ Ends(p)
    BY <1>1, <1>3, <1>4 DEF Fails, Ends
<1>5. CASE Start(p)
    BY <1>5 DEF Start, Return, Begins, OthersStay
<1>6. CASE CheckHeader(p)
    <2>1. /\ pc[p] = "header" /\ InMemory
          /\ \/ \E code \in {3, 4} : Return(p, code)
             \/ Goto(p, "version")
        BY <1>6 DEF CheckHeader
    <2>. QED  BY <2>1, <1>1, <1>2, <1>3 DEF Ends, Continues, Writing, Point
<1>7. CASE CheckVersion(p)
    <2>1. /\ pc[p] = "version" /\ InMemory
          /\ \/ \E code \in {1, 2, 6} : Return(p, code)
             \/ Goto(p, "space")
        BY <1>7, CheckVersionOutcome
    <2>. QED  BY <2>1, <1>1, <1>2, <1>3 DEF Ends, Continues, Writing, Point
<1>8. CASE CheckSpace(p)
    <2>1. pc[p] = "space"
        BY <1>8 DEF CheckSpace, Fails
    <2>2. \/ Fails(p, "space", 1)
          \/ InMemory /\ \/ \E code \in {3, 7} : Return(p, code)
                         \/ Goto(p, "verify")
        BY <1>8 DEF CheckSpace
    <2>3. CASE Fails(p, "space", 1)
        BY <2>3, <1>4 DEF Point
    <2>4. ASSUME InMemory, NEW code \in {3, 7}, Return(p, code)
          PROVE  OthersStay(p) /\ Ends(p)
        BY <2>1, <2>4, <1>1, <1>3 DEF Ends, Writing, Point
    <2>5. CASE InMemory /\ Goto(p, "verify")
        BY <2>1, <2>5, <1>2, <1>3 DEF Continues, Writing, Point
    <2>. QED  BY <2>2, <2>3, <2>4, <2>5
<1>9. CASE VerifySignature(p)
    <2>1. pc[p] = "verify"
        BY <1>9 DEF VerifySignature, Fails
    <2>2. \/ \E code \in {1, 5} : Fails(p, "verify", code)
          \/ InMemory /\ (Return(p, 5) \/ Goto(p, "decrypt"))
        BY <1>9 DEF VerifySignature
    <2>. QED  BY <2>1, <2>2, <1>1, <1>2, <1>3, <1>4
              DEF Ends, Continues, Writing, Point
<1>10. CASE Decrypt(p)
    <2>1. pc[p] = "decrypt"
        BY <1>10 DEF Decrypt, Fails
    <2>2. \/ \E code \in {1, 8} : Fails(p, "decrypt", code)
          \/ InMemory /\ (Return(p, 8) \/ Goto(p, "extract"))
        BY <1>10 DEF Decrypt
    <2>. QED  BY <2>1, <2>2, <1>1, <1>2, <1>3, <1>4
              DEF Ends, Continues, Writing, Point
<1>11. CASE Validate(p)
    <2>1. pc[p] = "extract"
        BY <1>11 DEF Validate, Fails
    <2>2. CASE Fails(p, "extract", install_result_to_exit_code("IO"))
        BY <2>1, <2>2, <1>4, ExitCodes DEF Writing, Point
    <2>3. CASE /\ Validation(pkg[p]) = "OK" /\ Goto(p, "write")
               /\ idx' = [idx EXCEPT ![p] = 1] /\ pkg' = pkg
        BY <2>1, <2>3, <1>2 DEF Continues, Writing, Point
    <2>4. CASE /\ Return(p, install_result_to_exit_code(Validation(pkg[p])))
               /\ UNCHANGED <<pkg, idx>>
        BY <2>1, <2>4, <1>1, ExitCodes DEF Ends, Writing, Point
    <2>. QED  BY <1>11, <2>2, <2>3, <2>4 DEF Validate
<1>12. CASE SkipEntry(p)
    BY <1>12 DEF SkipEntry, OthersStay, Continues, Writing
<1>13. CASE OpenFile(p)
    <2>1. /\ pc[p] = "write" /\ UNCHANGED <<pkg, idx>>
          /\ \/ Return(p, install_result_to_exit_code("IO"))
             \/ Goto(p, "fill")
        BY <1>13 DEF OpenFile
    <2>2. install_result_to_exit_code("IO") = 1
        BY DEF install_result_to_exit_code
    <2>. QED  BY <2>1, <2>2, <1>1, <1>2 DEF Ends, Continues, Writing, Point
<1>14. CASE FillFile(p)
    <2>1. install_result_to_exit_code("IO") = 1
        BY DEF install_result_to_exit_code
    <2>2. CASE /\ Return(p, install_result_to_exit_code("IO"))
               /\ UNCHANGED <<pkg, idx>>
        BY <2>1, <2>2, <1>1 DEF Ends
    <2>3. CASE /\ pc[p] = "fill" /\ Goto(p, "write") /\ pkg' = pkg
               /\ idx' = [idx EXCEPT ![p] = @ + 1]
        BY <2>3, <1>2 DEF Continues, Writing, Point
    <2>. QED  BY <1>14, <2>2, <2>3 DEF FillFile
<1>15. CASE EndLoop(p)
    BY <1>15, <1>2, <1>3 DEF EndLoop, Continues, Writing, Point
<1>16. CASE OpenVersionFile(p)
    <2>1. CASE Fails(p, "record", 1)
        BY <2>1, <1>4 DEF Point
    <2>2. CASE pc[p] = "record" /\ Goto(p, "stamp") /\ UNCHANGED <<pkg, idx>>
        BY <2>2, <1>2 DEF Continues, Writing, Point
    <2>. QED  BY <1>16, <2>1, <2>2 DEF OpenVersionFile
<1>17. CASE CloseVersionFile(p)
    <2>1. /\ pc[p] = "stamp" /\ UNCHANGED <<pkg, idx>>
          /\ Return(p, 1) \/ Goto(p, "hook")
        BY <1>17 DEF CloseVersionFile, locals
    <2>. QED  BY <2>1, <1>1, <1>2 DEF Ends, Continues, Writing, Point
<1>18. CASE Finish(p)
    BY <1>18, <1>1, <1>3 DEF Finish, Ends
<1>19. CASE Kill(p)
    BY <1>19, <1>1, <1>3 DEF Kill, Ends
<1>. QED  BY <1>5, <1>6, <1>7, <1>8, <1>9, <1>10, <1>11, <1>12, <1>13, <1>14,
             <1>15, <1>16, <1>17, <1>18, <1>19 DEF Step

LEMMA StepLoopIndexInv == IInv /\ LoopIndexInv /\ [Next]_vars => LoopIndexInv'
<1>. SUFFICES ASSUME IInv, LoopIndexInv, [Next]_vars
              PROVE  LoopIndexInv'
    OBVIOUS
<1>1. CASE UNCHANGED vars
    BY <1>1 DEF vars, LoopIndexInv, LoopIndex
<1>2. ASSUME NEW p \in Proc, Start(p) \/ Step(p) \/ Kill(p)
      PROVE  LoopIndexInv'
    <2>1. OthersStay(p) /\ (Begins(p) \/ Ends(p) \/ Continues(p))
        BY <1>2, StepShape
    <2>2. \A q \in Proc \ {p} : LoopIndex(q)'
        BY <2>1 DEF OthersStay, LoopIndexInv, LoopIndex
    <2>3. LoopIndex(p) /\ idx[p] \in Nat
        BY DEF LoopIndexInv, IInv, TypeOK
    <2>4. ASSUME Begins(p) PROVE LoopIndex(p)'
        BY <2>4 DEF Begins, LoopIndex, Writing, Point, NoExit
    <2>5. ASSUME Ends(p) PROVE LoopIndex(p)'
        BY <2>3, <2>5 DEF Ends, LoopIndex, Writing, Point, NoExit
    <2>6. ASSUME Continues(p) PROVE LoopIndex(p)'
        <3>1. exit'[p] = NoExit /\ pc'[p] \in Point
            BY <2>3, <2>6, <1>2, StepIInv
               DEF Continues, LoopIndex, IInv, TypeOK, Next
        <3>2. pc'[p] \in Writing => idx'[p] > 0
            BY <2>3, <2>6 DEF Continues, LoopIndex
        <3>3. pc'[p] \in Point \ (Writing \cup {"idle"}) => idx'[p] = 0
            BY <2>3, <2>6 DEF Continues, LoopIndex, IInv, TypeOK
        <3>4. idx'[p] > 0 => Validation(pkg'[p]) = "OK"
            BY <2>3, <2>6 DEF Continues, LoopIndex
        <3>. QED  BY <2>6, <3>1, <3>2, <3>3, <3>4
                  DEF Continues, LoopIndex, NoExit
    <2>7. LoopIndex(p)'
        BY <2>1, <2>4, <2>5, <2>6
    <2>. QED  BY <2>2, <2>7 DEF LoopIndexInv
<1>. QED  BY <1>1, <1>2 DEF Next

LEMMA InitLoopIndexInv == Init => LoopIndexInv
BY DEF Init, LoopIndexInv, LoopIndex, Writing, NoExit

\* A run that is rejected with one of the exit codes 2 to 9 never got to the
\* write loop, whatever else runs or fails.
THEOREM RejectedLeavesNoTrace == Spec => []RejectionLeavesNoTrace
<1>1. LoopIndexInv => RejectionLeavesNoTrace
    BY DEF LoopIndexInv, LoopIndex, RejectionLeavesNoTrace
<1>. QED  BY <1>1, InitIInv, StepIInv, InitLoopIndexInv, StepLoopIndexInv, PTL
          DEF Spec

-----------------------------------------------------------------------------
(* Downgrade protection, and the three conditions it rests on: no two      *)
(* invocations overlap, none is killed or fails while the version file is  *)
(* empty, and the version file can be read whenever there is one.          *)

OneAtATime == \A p, q \in Proc : p = q

\* The version file says what was recorded last, except while it is rewritten.
FileIsLedger ==
    (\A p \in Proc : pc[p] # "stamp") =>
        /\ Readable(versionFile)
        /\ fota_version_read_installed(versionFile) = ledger

\* A process past the downgrade check may still record its version.
Allowed(p) ==
    \/ Less(ledger, pkg[p].version)
    \/ SecretMatches(secret[p], StoredHash)

DowngradeInv ==
    /\ FileIsLedger
    /\ \A p \in Proc :
        /\ ~clobbered[p]
        /\ pc[p] \in AfterHeader \ {"version", "hook"} => Allowed(p)

LEMMA BlankReadsAsZero ==
    /\ Readable(NoVersionFile)
    /\ fota_version_read_installed(NoVersionFile) = ZeroVersion
BY DEF Readable, NoVersionFile, fota_version_read_installed

LEMMA RecordReadsBack ==
    ASSUME NEW v
    PROVE  /\ Readable(FileOf(v))
           /\ fota_version_read_installed(FileOf(v)) = v
BY DEF Readable, FileOf, fota_version_read_installed

LEMMA InitDowngradeInv == Init => DowngradeInv
BY BlankReadsAsZero
   DEF Init, DowngradeInv, FileIsLedger, AfterHeader

\* The steps that leave the version file alone and do not pass the check.
LEMMA UnrelatedKeeps ==
    ASSUME DowngradeInv, NEW p \in Proc, OneAtATime,
           UNCHANGED <<pkg, secret, versionFile, ledger>>,
           clobbered'[p] = clobbered[p],
           pc[p] # "stamp", pc'[p] # "stamp",
           \/ pc'[p] \notin AfterHeader \ {"version", "hook"}
           \/ pc[p] \in AfterHeader \ {"version", "hook"}
    PROVE  DowngradeInv'
<1>1. \A q \in Proc : q = p
    BY DEF OneAtATime
<1>2. FileIsLedger'
    BY <1>1 DEF DowngradeInv, FileIsLedger
<1>3. (/\ ~clobbered[p]
       /\ pc[p] \in AfterHeader \ {"version", "hook"} => Allowed(p))'
    BY DEF DowngradeInv, Allowed
<1>. QED  BY <1>1, <1>2, <1>3 DEF DowngradeInv

LEMMA StepDowngradeInv ==
    ASSUME OneAtATime, VersionFileSafe, IInv, DowngradeInv, [Next]_vars
    PROVE  DowngradeInv' /\ [AllowedRecord]_vars
<1>1. CASE UNCHANGED vars
    BY <1>1 DEF vars, DowngradeInv, FileIsLedger, Allowed
<1>. SUFFICES ASSUME NEW p \in Proc, Start(p) \/ Step(p) \/ Kill(p)
              PROVE  DowngradeInv' /\ AllowedRecord
    BY <1>1 DEF Next
<1>2. \A q \in Proc : q = p
    BY DEF OneAtATime
<1>3. CASE Start(p)
    <2>1. pc'[p] \in {"idle", "header"} /\ clobbered'[p] = FALSE
        BY <1>3 DEF Start, Return, IInv, TypeOK
    <2>2. UNCHANGED <<versionFile, ledger>> /\ pc[p] = "idle"
        BY <1>3 DEF Start, fs
    <2>3. FileIsLedger'
        BY <1>2, <2>1, <2>2 DEF DowngradeInv, FileIsLedger
    <2>. QED  BY <1>2, <2>1, <2>2, <2>3
              DEF DowngradeInv, AfterHeader, AllowedRecord
<1>4. CASE CheckVersion(p)
    <2>1. /\ pc[p] = "version"
          /\ UNCHANGED <<pkg, secret, clobbered, versionFile, ledger>>
        BY <1>4 DEF CheckVersion, InMemory, locals, fs
    <2>2. /\ Readable(versionFile)
          /\ fota_version_read_installed(versionFile) = ledger
        BY <1>2, <2>1 DEF DowngradeInv, FileIsLedger
    <2>. DEFINE decision == fota_downgrade_check(pkg[p].version, ledger,
                                secret[p], StoredHash)
    <2>3. (CASE decision = "UP_TO_DATE" -> Return(p, 2)
             [] decision = "BLOCKED" -> Return(p, 6)
             [] decision = "ALLOW" -> Goto(p, "space"))
        BY <1>4, <2>2 DEF CheckVersion, VersionFileSafe
    <2>4. /\ decision \in {"ALLOW", "UP_TO_DATE", "BLOCKED"}
          /\ decision = "ALLOW" => Allowed(p)
        BY DowngradeDecision, PackageFields DEF IInv, TypeOK, Allowed
    <2>. HIDE DEF decision
    <2>5. \/ pc'[p] = "idle"
          \/ pc'[p] = "space" /\ Allowed(p)
        BY <2>3, <2>4 DEF Goto, Return, IInv, TypeOK
    <2>6. FileIsLedger'
        BY <1>2, <2>1, <2>2 DEF FileIsLedger
    <2>7. Allowed(p) => Allowed(p)'
        BY <2>1 DEF Allowed
    <2>. QED  BY <1>2, <2>1, <2>5, <2>6, <2>7
              DEF DowngradeInv, AfterHeader, AllowedRecord
<1>5. CASE OpenVersionFile(p)
    <2>1. CASE Fails(p, "record", 1)
        <3>1. /\ UNCHANGED <<pkg, secret, clobbered, versionFile, ledger>>
              /\ pc[p] = "record" /\ pc'[p] = "idle"
            BY <2>1 DEF Fails, InMemory, locals, fs, Return, IInv, TypeOK
        <3>. QED  BY <3>1, UnrelatedKeeps DEF AfterHeader, AllowedRecord
    <2>2. CASE ~Fails(p, "record", 1)
        <3>1. /\ UNCHANGED <<pkg, secret, ledger>>
              /\ pc[p] = "record" /\ pc'[p] = "stamp"
            BY <1>5, <2>2 DEF OpenVersionFile, Goto, IInv, TypeOK
        <3>2. clobbered'[p] = FALSE
            BY <1>2, <1>5, <2>2 DEF OpenVersionFile
        <3>3. Allowed(p)'
            BY <3>1 DEF DowngradeInv, Allowed, AfterHeader, Point
        <3>. QED  BY <1>2, <3>1, <3>2, <3>3
                  DEF DowngradeInv, FileIsLedger, AllowedRecord
    <2>. QED  BY <2>1, <2>2
<1>6. CASE CloseVersionFile(p)
    <2>. DEFINE v == pkg[p].version
    <2>1. /\ versionFile' = FileOf(v)
          /\ ledger' = v
          /\ Goto(p, "hook")
          /\ UNCHANGED <<pkg, secret, clobbered>>
        BY <1>6 DEF CloseVersionFile, VersionFileSafe, DowngradeInv, locals
    <2>2. pc[p] = "stamp" /\ pc'[p] = "hook"
        BY <1>6, <2>1 DEF CloseVersionFile, Goto, IInv, TypeOK
    <2>3. DowngradeInv'
        BY <1>2, <2>1, <2>2, RecordReadsBack DEF DowngradeInv, FileIsLedger
    <2>4. Allowed(p)
        BY <2>2 DEF DowngradeInv, AfterHeader, Point
    <2>5. v \in Version /\ ledger \in Version
        BY PackageFields DEF IInv, TypeOK
    <2>6. AllowedRecord
        BY <2>1, <2>2, <2>4, <2>5, CompareIsOrder DEF AllowedRecord, Allowed
    <2>. QED  BY <2>3, <2>6
<1>7. CASE Kill(p)
    <2>1. /\ UNCHANGED <<pkg, secret, clobbered, versionFile, ledger>>
          /\ pc'[p] = "idle" /\ pc[p] # "stamp"
        BY <1>7 DEF Kill, InMemory, locals, fs, Return, IInv, TypeOK,
                    VersionFileSafe
    <2>. QED  BY <2>1, UnrelatedKeeps DEF AfterHeader, AllowedRecord
<1>8. CASE FillFile(p) \/ OpenFile(p)
    <2>1. /\ UNCHANGED <<pkg, secret, versionFile, ledger>>
          /\ pc[p] \in {"write", "fill"} /\ pc'[p] \in {"write", "fill", "idle"}
        BY <1>8 DEF FillFile, OpenFile, Goto, Return, IInv, TypeOK
    <2>2. clobbered'[p] = clobbered[p]
        <3>1. \A r \in Proc : ~Sharing(p, r)
            BY <1>2 DEF Sharing
        <3>2. clobbered[p] = FALSE
            BY DEF DowngradeInv, IInv, TypeOK
        <3>3. CASE FillFile(p)
            BY <3>3 DEF FillFile
        <3>4. CASE OpenFile(p)
            BY <3>1, <3>2, <3>4 DEF OpenFile
        <3>. QED  BY <1>8, <3>3, <3>4
    <2>. QED  BY <2>1, <2>2, UnrelatedKeeps DEF AfterHeader, AllowedRecord, Point
<1>9. CASE \/ CheckHeader(p) \/ CheckSpace(p) \/ VerifySignature(p)
           \/ Decrypt(p) \/ Validate(p) \/ SkipEntry(p) \/ EndLoop(p)
           \/ Finish(p)
    <2>1. UNCHANGED <<pkg, secret, clobbered, versionFile, ledger>>
        BY <1>9 DEF CheckHeader, CheckSpace, VerifySignature, Decrypt, Validate,
                    SkipEntry, EndLoop, Finish, Fails, InMemory, locals, fs
    <2>2. /\ pc[p] # "stamp" /\ pc'[p] # "stamp"
          /\ \/ pc'[p] \notin AfterHeader \ {"version", "hook"}
             \/ pc[p] \in AfterHeader \ {"version", "hook"}
        <3>1. ASSUME NEW point, NEW code, Goto(p, point) \/ Return(p, code)
              PROVE  pc'[p] \in {point, "idle"}
            BY <3>1 DEF Goto, Return, IInv, TypeOK
        <3>2. CASE CheckHeader(p)
            BY <3>1, <3>2 DEF CheckHeader, AfterHeader, Point
        <3>3. CASE CheckSpace(p) \/ VerifySignature(p) \/ Decrypt(p)
            BY <3>1, <3>3 DEF CheckSpace, VerifySignature, Decrypt, Fails,
                              AfterHeader, Point
        <3>4. CASE Validate(p) \/ EndLoop(p) \/ Finish(p)
            BY <3>1, <3>4 DEF Validate, EndLoop, Finish, Fails,
                              AfterHeader, Point
        <3>5. CASE SkipEntry(p)
            BY <3>5 DEF SkipEntry, AfterHeader, Point
        <3>. QED  BY <1>9, <3>2, <3>3, <3>4, <3>5
    <2>. QED  BY <2>1, <2>2, UnrelatedKeeps DEF AllowedRecord
<1>. QED  BY <1>3, <1>4, <1>5, <1>6, <1>7, <1>8, <1>9 DEF Step

\* The setting is the same throughout a behaviour.
LEMMA SettingStays == ASSUME [Next]_vars PROVE setting' = setting
<1>1. CASE UNCHANGED vars
    BY <1>1 DEF vars
<1>2. ASSUME NEW p \in Proc, Start(p) \/ Kill(p)
      PROVE  setting' = setting
    BY <1>2 DEF Start, Kill, InMemory, locals
<1>3. ASSUME NEW p \in Proc, Step(p)
      PROVE  setting' = setting
    BY <1>3 DEF Step, CheckHeader, CheckVersion, CheckSpace, VerifySignature,
                Decrypt, Validate, SkipEntry, OpenFile, FillFile, EndLoop,
                OpenVersionFile, CloseVersionFile, Finish, Fails, InMemory,
                locals
<1>. QED  BY <1>1, <1>2, <1>3 DEF Next

\* Under the three conditions the recorded version never goes down unless the
\* run that records it was given the secret whose hash the device stores.
THEOREM NoDowngrade ==
    ASSUME OneAtATime
    PROVE  Spec => NoDowngradeWithoutSecret
<1>. DEFINE SafeInv == VersionFileSafe => DowngradeInv
<1>1. Init => SafeInv
    BY InitDowngradeInv
<1>2. IInv /\ SafeInv /\ [Next]_vars
          => SafeInv' /\ [VersionFileSafe => AllowedRecord]_vars
    <2>. SUFFICES ASSUME IInv, SafeInv, [Next]_vars
                  PROVE  SafeInv' /\ [VersionFileSafe => AllowedRecord]_vars
        OBVIOUS
    <2>1. VersionFileSafe' <=> VersionFileSafe
        BY SettingStays DEF VersionFileSafe
    <2>2. VersionFileSafe => DowngradeInv' /\ [AllowedRecord]_vars
        BY StepDowngradeInv
    <2>. QED  BY <2>1, <2>2
<1>. HIDE DEF SafeInv
<1>. QED  BY <1>1, <1>2, InitIInv, StepIInv, PTL
          DEF Spec, NoDowngradeWithoutSecret

-----------------------------------------------------------------------------
(* An accepted package.                                                    *)

LEMMA AcceptedVerdict ==
    ASSUME NEW k \in Package, Accepted(k)
    PROVE  /\ k.entries \in Seq(Entry)
           /\ FilesAt(k.entries, ManifestPath) # {}
           /\ \A l \in DOMAIN ManifestOf(k.entries).files :
                 ListingMatches(k.entries, ManifestOf(k.entries).files[l])
           /\ Len(ManifestOf(k.entries).files)
                 = Cardinality(FirmwareFiles(k.entries))
<1>1. k.entries \in Seq(Entry)
    BY PackageFields
<1>2. k.unpack = "OK" /\ fota_verify_manifest(k.entries) = "OK"
    BY PackageAssumption DEF Accepted, Validation, IsPackage
<1>3. FilesAt(k.entries, ManifestPath) # {}
    BY <1>2 DEF fota_verify_manifest
<1>. QED  BY <1>1, <1>2, <1>3 DEF fota_verify_manifest, MatchedCount

LEMMA AcceptedDistinct ==
    ASSUME NEW k \in Package, Accepted(k), CleanPackages
    PROVE  DistinctFiles(k.entries) /\ DistinctListings(k.entries)
<1>1. DistinctListings(k.entries)
    BY DEF CleanPackages
<1>2. ExactSet(k.entries)
    BY <1>1, AcceptedVerdict, AcceptedIsExact
<1>. QED  BY <1>1, <1>2 DEF ExactSet

\* The entry the manifest was compared with is the only one for its path.
LEMMA FoundIsOnly ==
    ASSUME NEW k \in Package, Accepted(k), CleanPackages,
           NEW e \in FirmwareFiles(k.entries)
    PROVE  find_entry(k.entries, k.entries[e].path) = e
<1>. DEFINE path == k.entries[e].path
<1>1. e \in FilesAt(k.entries, path) /\ path # ManifestPath
    BY DEF FirmwareFiles, FilesAt
<1>2. find_entry(k.entries, path) \in FilesAt(k.entries, path)
    BY <1>1, FindEntry, PackageFields
<1>3. find_entry(k.entries, path) \in FirmwareFiles(k.entries)
    BY <1>1, <1>2 DEF FirmwareFiles, FilesAt
<1>4. k.entries[find_entry(k.entries, path)].path = path
    BY <1>2 DEF FilesAt
<1>. QED  BY <1>3, <1>4, AcceptedDistinct DEF DistinctFiles

LEMMA FirmwareIndex ==
    ASSUME NEW k \in Package, NEW e \in FirmwareFiles(k.entries)
    PROVE  /\ e \in Nat \ {0}
           /\ Len(k.entries) \in Nat
           /\ e <= Len(k.entries)
           /\ e \in DOMAIN k.entries /\ DOMAIN k.entries = 1..Len(k.entries)
<1>1. k.entries \in Seq(Entry)
    BY PackageFields
<1>2. Len(k.entries) \in Nat /\ DOMAIN k.entries = 1..Len(k.entries)
    BY <1>1
<1>3. e \in 1..Len(k.entries)
    BY <1>2 DEF FirmwareFiles
<1>. QED  BY <1>2, <1>3

LEMMA EntryPathIsNode ==
    ASSUME NEW k \in Package, NEW e \in DOMAIN k.entries
    PROVE  k.entries[e].path \in Node
BY DEF Node, PathsOf

-----------------------------------------------------------------------------
(* The write loop.                                                         *)

\* The firmware files before entry i are on the device.
InPlace(k, i) ==
    \A e \in FirmwareFiles(k.entries) :
        e < i => tree[k.entries[e].path] = k.entries[e].data

AllInPlace(k) ==
    \A e \in FirmwareFiles(k.entries) :
        tree[k.entries[e].path] = k.entries[e].data

\* What the updater calls installed is so, if it is so file by file.
LEMMA InPlaceIsInstalled ==
    ASSUME NEW k \in Package, Accepted(k), CleanPackages, AllInPlace(k)
    PROVE  FilesInstalled(k)
<1>. DEFINE files == ManifestOf(k.entries).files
<1>. SUFFICES ASSUME NEW l \in DOMAIN files
              PROVE  /\ files[l].path \in Node
                     /\ tree[files[l].path] \in Content
                     /\ EVP_sha256(tree[files[l].path]) = files[l].sha256
    BY DEF FilesInstalled
<1>. DEFINE e == find_entry(k.entries, files[l].path)
<1>1. /\ FilesAt(k.entries, files[l].path) # {}
      /\ EVP_sha256(k.entries[e].data) = files[l].sha256
    BY AcceptedVerdict DEF ListingMatches
<1>2. e \in FilesAt(k.entries, files[l].path)
    BY <1>1, FindEntry, PackageFields
<1>3. files[l].path # ManifestPath
    BY AcceptedDistinct DEF DistinctListings, ListedPaths
<1>4. e \in FirmwareFiles(k.entries) /\ k.entries[e].path = files[l].path
    BY <1>2, <1>3 DEF FilesAt, FirmwareFiles
<1>5. tree[files[l].path] = k.entries[e].data
    BY <1>4 DEF AllInPlace
<1>6. k.entries[e].data \in Content
    BY <1>4, FirmwareFileData
<1>7. files[l].path \in Node
    BY <1>2, <1>4, EntryPathIsNode DEF FilesAt
<1>. QED  BY <1>1, <1>5, <1>6, <1>7

\* How far the run of p has got, seen on the device.
Progress(p) ==
    /\ ~clobbered[p]
    /\ pc[p] \in {"write", "fill"} => InPlace(pkg[p], idx[p])
    /\ pc[p] \in {"record", "stamp", "hook"} => AllInPlace(pkg[p])
    /\ pc[p] = "stamp" => versionFile = BlankFile
    /\ pc[p] = "hook" => versionFile = FileOf(pkg[p].version)

ProgressInv == \A p \in Proc : Progress(p)

LEMMA InitProgressInv == Init => ProgressInv
BY DEF Init, ProgressInv, Progress, NoExit

\* A step that ends the run, or that goes on before the write loop.
LEMMA BeforeWriting ==
    ASSUME ProgressInv, NEW p \in Proc,
           clobbered'[p] = clobbered[p], pc'[p] \notin Writing
    PROVE  Progress(p)'
BY DEF ProgressInv, Progress, Writing

LEMMA OpenFileProgress ==
    ASSUME IInv, LoopIndexInv, ProgressInv, CleanPackages, OneAtATime,
           NEW p \in Proc, OpenFile(p)
    PROVE  Progress(p)'
<1>. DEFINE k == pkg[p]
            n == Target(p)
<1>1. /\ pc[p] = "write" /\ idx[p] \in FirmwareFiles(k.entries)
      /\ k \in Package /\ Accepted(k)
      /\ UNCHANGED <<pkg, idx, versionFile>>
    BY WritingIsAccepted DEF OpenFile, Installed, Writing, IInv, TypeOK
<1>2. Progress(p)
    BY DEF ProgressInv
<1>3. \A r \in Proc : ~Sharing(p, r)
    BY DEF OneAtATime, Sharing
<1>4. clobbered'[p] = FALSE
    BY <1>2, <1>3 DEF OpenFile, Progress, IInv, TypeOK
<1>5. CASE pc'[p] = "fill"
           /\ tree' = [WithParents(n, Len(n) - 1) EXCEPT ![n] = "torn"]
    <2>1. ASSUME NEW e \in FirmwareFiles(k.entries), e < idx[p]
          PROVE  tree'[k.entries[e].path] = k.entries[e].data
        <3>1. tree[k.entries[e].path] = k.entries[e].data
            BY <1>1, <1>2, <2>1 DEF Progress, InPlace
        <3>2. k.entries[e].path # n
            <4>1. e # idx[p]
                BY <1>1, <2>1 DEF IInv, TypeOK
            <4>. QED  BY <1>1, <4>1, AcceptedDistinct DEF DistinctFiles, Target
        <3>3. k.entries[e].path \in Node
            BY <1>1, EntryPathIsNode DEF FirmwareFiles
        <3>4. tree[k.entries[e].path] # "absent"
            BY <1>1, <3>1, FirmwareFileData, NodeStateAssumption
        <3>. QED  BY <1>5, <3>1, <3>2, <3>3, <3>4 DEF WithParents
    <2>2. InPlace(k, idx[p])'
        BY <1>1, <2>1 DEF InPlace
    <2>. QED  BY <1>1, <1>2, <1>4, <1>5, <2>2 DEF Progress
<1>6. CASE pc'[p] = "idle"
    BY <1>4, <1>6 DEF Progress
<1>7. \/ /\ pc'[p] = "fill"
         /\ tree' = [WithParents(n, Len(n) - 1) EXCEPT ![n] = "torn"]
      \/ pc'[p] = "idle"
    <2>1. \/ /\ Goto(p, "fill")
             /\ tree' = [WithParents(n, Len(n) - 1) EXCEPT ![n] = "torn"]
          \/ Return(p, install_result_to_exit_code("IO"))
        BY DEF OpenFile
    <2>. QED  BY <2>1 DEF Goto, Return, IInv, TypeOK
<1>. QED  BY <1>5, <1>6, <1>7

LEMMA FillFileProgress ==
    ASSUME IInv, LoopIndexInv, ProgressInv, CleanPackages,
           NEW p \in Proc, FillFile(p)
    PROVE  Progress(p)'
<1>. DEFINE k == pkg[p]
            n == Target(p)
            data == k.entries[idx[p]].data
<1>1. /\ pc[p] = "fill" /\ idx[p] \in FirmwareFiles(k.entries)
      /\ k \in Package /\ Accepted(k)
      /\ UNCHANGED <<pkg, clobbered, versionFile>>
    BY WritingIsAccepted
       DEF FillFile, Writing, IInv, TypeOK, ProcInv, OpenFileIsFirmware
<1>2. Progress(p)
    BY DEF ProgressInv
<1>3. CASE /\ tree' = [tree EXCEPT ![n] = data]
           /\ idx'[p] = idx[p] + 1 /\ pc'[p] = "write"
    <2>1. ASSUME NEW e \in FirmwareFiles(k.entries), e < idx[p] + 1
          PROVE  tree'[k.entries[e].path] = k.entries[e].data
        <3>1. k.entries[e].path \in Node
            BY <1>1, EntryPathIsNode DEF FirmwareFiles
        <3>2. CASE e = idx[p]
            BY <1>3, <3>1, <3>2 DEF Target, IInv, TypeOK
        <3>3. CASE e # idx[p]
            <4>1. e < idx[p]
                <5>1. e \in Int
                    BY <1>1, FirmwareIndex
                <5>2. idx[p] \in Int
                    BY DEF IInv, TypeOK
                <5>. QED  BY <2>1, <3>3, <5>1, <5>2
            <4>2. tree[k.entries[e].path] = k.entries[e].data
                BY <1>1, <1>2, <4>1 DEF Progress, InPlace
            <4>3. k.entries[e].path # n
                BY <1>1, <3>3, AcceptedDistinct DEF DistinctFiles, Target
            <4>. QED  BY <1>3, <3>1, <4>2, <4>3 DEF IInv, TypeOK
        <3>. QED  BY <3>2, <3>3
    <2>2. InPlace(k, idx[p])'
        BY <1>1, <1>3, <2>1 DEF InPlace
    <2>. QED  BY <1>1, <1>2, <1>3, <2>2 DEF Progress
<1>4. CASE pc'[p] = "idle"
    BY <1>1, <1>2, <1>4 DEF Progress
<1>5. \/ /\ tree' = [tree EXCEPT ![n] = data]
         /\ idx'[p] = idx[p] + 1 /\ pc'[p] = "write"
      \/ pc'[p] = "idle"
    <2>1. ~clobbered[p]
        BY <1>2 DEF Progress
    <2>. QED  BY <2>1 DEF FillFile, Goto, Return, IInv, TypeOK
<1>. QED  BY <1>3, <1>4, <1>5

LEMMA StepProgressInv ==
    ASSUME OneAtATime, CleanPackages, IInv, LoopIndexInv, ProgressInv,
           [Next]_vars
    PROVE  ProgressInv'
<1>1. CASE UNCHANGED vars
    BY <1>1 DEF vars, ProgressInv, Progress, InPlace, AllInPlace
<1>. SUFFICES ASSUME NEW p \in Proc, Start(p) \/ Step(p) \/ Kill(p)
              PROVE  Progress(p)'
    BY <1>1 DEF Next, OneAtATime, ProgressInv
<1>. USE DEF IInv, TypeOK
<1>2. Progress(p) /\ LoopIndex(p)
    BY DEF ProgressInv, LoopIndexInv
<1>3. CASE Start(p)
    BY <1>3 DEF Start, Return, Progress
<1>4. CASE \/ CheckHeader(p) \/ CheckVersion(p) \/ CheckSpace(p)
           \/ VerifySignature(p) \/ Decrypt(p) \/ Finish(p) \/ Kill(p)
    <2>1. UNCHANGED <<tree, versionFile, pkg, clobbered>>
        BY <1>4 DEF CheckHeader, CheckVersion, CheckSpace, VerifySignature,
                    Decrypt, Finish, Kill, Fails, InMemory, locals, fs
    <2>2. pc'[p] \notin Writing
        <3>1. \/ \E point \in Point \ Writing : Goto(p, point)
              \/ \E code : Return(p, code)
            <4>1. CASE CheckVersion(p)
                BY <4>1, CheckVersionOutcome DEF Point, Writing
            <4>2. CASE CheckHeader(p)
                BY <4>2 DEF CheckHeader, Point, Writing
            <4>3. CASE CheckSpace(p)
                BY <4>3 DEF CheckSpace, Fails, Point, Writing
            <4>4. CASE VerifySignature(p) \/ Decrypt(p)
                BY <4>4 DEF VerifySignature, Decrypt, Fails, Point, Writing
            <4>5. CASE Finish(p) \/ Kill(p)
                BY <4>5 DEF Finish, Kill
            <4>. QED  BY <1>4, <4>1, <4>2, <4>3, <4>4, <4>5
        <3>. QED  BY <3>1 DEF Goto, Return, Writing
    <2>. QED  BY <2>1, <2>2, BeforeWriting
<1>5. CASE Validate(p)
    <2>1. CASE pc'[p] = "idle"
        BY <1>2, <1>5, <2>1
           DEF Validate, Fails, InMemory, locals, fs, Progress
    <2>2. CASE /\ Goto(p, "write") /\ idx' = [idx EXCEPT ![p] = 1]
               /\ UNCHANGED <<pkg, clobbered>> /\ pc[p] = "extract"
        <3>1. pc'[p] = "write" /\ idx'[p] = 1
            BY <2>2 DEF Goto
        <3>2. \A e \in FirmwareFiles(pkg[p].entries) : ~(e < 1)
            <4>1. pkg[p] \in Package
                OBVIOUS
            <4>2. \A e \in FirmwareFiles(pkg[p].entries) : e \in Nat \ {0}
                BY <4>1, FirmwareIndex
            <4>. QED  BY <4>2
        <3>3. InPlace(pkg[p], idx[p])'
            <4>1. pkg'[p] = pkg[p] /\ idx'[p] = 1
                BY <2>2, <3>1
            <4>. QED  BY <3>2, <4>1 DEF InPlace
        <3>. QED  BY <1>2, <2>2, <3>1, <3>3 DEF Progress
    <2>3. \/ pc'[p] = "idle"
          \/ /\ Goto(p, "write") /\ idx' = [idx EXCEPT ![p] = 1]
             /\ UNCHANGED <<pkg, clobbered>> /\ pc[p] = "extract"
        BY <1>5 DEF Validate, Fails, Return
    <2>. QED  BY <2>1, <2>2, <2>3
<1>6. CASE SkipEntry(p)
    <2>1. /\ pc[p] = "write" /\ idx[p] \notin FirmwareFiles(pkg[p].entries)
          /\ idx' = [idx EXCEPT ![p] = @ + 1]
          /\ UNCHANGED <<pc, pkg, clobbered, tree, versionFile>>
        BY <1>6 DEF SkipEntry, Installed, fs
    <2>2. \A e \in FirmwareFiles(pkg[p].entries) : e < idx'[p] => e < idx[p]
        <3>1. idx[p] \in Nat /\ idx'[p] = idx[p] + 1
            BY <2>1
        <3>2. \A e \in FirmwareFiles(pkg[p].entries) : e \in Nat /\ e # idx[p]
            BY <2>1, FirmwareIndex
        <3>. QED  BY <3>1, <3>2
    <2>3. InPlace(pkg[p], idx[p])'
        BY <1>2, <2>1, <2>2 DEF Progress, InPlace
    <2>. QED  BY <1>2, <2>1, <2>3 DEF Progress, AllInPlace, LoopIndex
<1>7. CASE OpenFile(p)
    BY <1>7, OpenFileProgress
<1>8. CASE FillFile(p)
    BY <1>8, FillFileProgress
<1>9. CASE EndLoop(p)
    <2>1. /\ pc[p] = "write" /\ idx[p] \notin DOMAIN pkg[p].entries
          /\ UNCHANGED <<pkg, clobbered, tree, versionFile>>
          /\ pc'[p] = "record" /\ idx[p] \in Nat \ {0}
        BY <1>2, <1>9 DEF EndLoop, Goto, InMemory, locals, fs, LoopIndex, Writing
    <2>2. ASSUME NEW e \in FirmwareFiles(pkg[p].entries)
          PROVE  e < idx[p]
        <3>. DEFINE n == Len(pkg[p].entries)
        <3>1. n \in Nat /\ idx[p] \notin 1..n /\ e \in Nat /\ e <= n
            BY <2>1, FirmwareIndex
        <3>2. idx[p] \in Nat \ {0}
            BY <2>1
        <3>. HIDE DEF n
        <3>. QED  BY <3>1, <3>2
    <2>3. AllInPlace(pkg[p])
        BY <1>2, <2>1, <2>2 DEF Progress, InPlace, AllInPlace
    <2>. QED  BY <1>2, <2>1, <2>3 DEF Progress, AllInPlace
<1>10. CASE OpenVersionFile(p)
    <2>1. CASE Fails(p, "record", 1)
        BY <2>1, BeforeWriting
           DEF Fails, Return, InMemory, locals, fs, Writing
    <2>2. CASE ~Fails(p, "record", 1)
        <3>1. /\ pc[p] = "record" /\ pc'[p] = "stamp"
              /\ versionFile' = BlankFile
              /\ UNCHANGED <<pkg, tree>>
            BY <1>2, <1>10, <2>2 DEF OpenVersionFile, Goto, LoopIndex
        <3>2. clobbered'[p] = FALSE
            BY <1>10, <2>2 DEF OpenVersionFile, OneAtATime
        <3>. QED  BY <1>2, <3>1, <3>2 DEF Progress, AllInPlace
    <2>. QED  BY <2>1, <2>2
<1>11. CASE CloseVersionFile(p)
    <2>1. /\ pc[p] = "stamp" /\ UNCHANGED <<pkg, clobbered, tree>>
          /\ \/ /\ versionFile' = FileOf(pkg[p].version)
                /\ pc'[p] = "hook"
             \/ pc'[p] = "idle"
        BY <1>2, <1>11 DEF CloseVersionFile, locals, Progress, Goto, Return,
                           LoopIndex
    <2>. QED  BY <1>2, <2>1 DEF Progress, AllInPlace
<1>. QED  BY <1>3, <1>4, <1>5, <1>6, <1>7, <1>8, <1>9, <1>10, <1>11 DEF Step

LEMMA StepAllProgress ==
    ASSUME OneAtATime, CleanPackages
    PROVE  IInv /\ LoopIndexInv /\ ProgressInv /\ [Next]_vars => ProgressInv'
BY StepProgressInv

\* What a run that ended with 0 has left on the device.
Complete(p) ==
    exit[p] = 0 => /\ AllInPlace(pkg[p]) /\ Accepted(pkg[p])
                   /\ versionFile = FileOf(pkg[p].version)

CompleteInv == \A p \in Proc : Complete(p)

LEMMA InitCompleteInv == Init => CompleteInv
BY DEF Init, CompleteInv, Complete, NoExit

\* Only the last step of a run returns 0, and it leaves the device alone.
LEMMA StepCompleteInv ==
    ASSUME OneAtATime
    PROVE  IInv /\ LoopIndexInv /\ ProgressInv /\ CompleteInv /\ [Next]_vars
              => CompleteInv'
<1>. SUFFICES ASSUME IInv, LoopIndexInv, ProgressInv, CompleteInv, [Next]_vars
              PROVE  CompleteInv'
    OBVIOUS
<1>1. CASE UNCHANGED vars
    BY <1>1 DEF vars, CompleteInv, Complete, AllInPlace
<1>2. ASSUME NEW p \in Proc, Start(p) \/ Step(p) \/ Kill(p), exit'[p] = 0
      PROVE  Complete(p)'
    <2>1. pc[p] = "hook" /\ pkg'[p] = pkg[p]
        <3>1. Begins(p) \/ Ends(p) \/ Continues(p)
            BY <1>2, StepShape
        <3>2. pc[p] # "idle" => exit[p] = NoExit
            BY DEF LoopIndexInv, LoopIndex
        <3>. QED  BY <1>2, <3>1, <3>2 DEF Begins, Ends, Continues, NoExit
    <2>2. UNCHANGED <<tree, versionFile>>
        BY <1>2, <2>1, WriteSteps
           DEF OpenFile, FillFile, OpenVersionFile, CloseVersionFile, Fails
    <2>3. Progress(p) /\ Accepted(pkg[p])
        BY <2>1, WritingIsAccepted DEF ProgressInv, Writing
    <2>. QED  BY <2>1, <2>2, <2>3 DEF Complete, Progress, AllInPlace
<1>. QED  BY <1>1, <1>2 DEF Next, OneAtATime, CompleteInv, Complete

\* An exit code of 0 means that every listed file is on the device with the
\* listed digest, and that the version file says so, whatever failed before.
THEOREM SuccessIsInstalled ==
    ASSUME OneAtATime, CleanPackages
    PROVE  Spec => []SuccessMeansInstalled
<1>1. IInv /\ CompleteInv => SuccessMeansInstalled
    BY InPlaceIsInstalled
       DEF IInv, TypeOK, CompleteInv, Complete, SuccessMeansInstalled
<1>. QED  BY <1>1, InitIInv, StepIInv, InitLoopIndexInv, StepLoopIndexInv,
             InitProgressInv, StepAllProgress, InitCompleteInv,
             StepCompleteInv, PTL DEF Spec

-----------------------------------------------------------------------------
(* Interrupted runs.                                                       *)

\* The calls on the version file do not fail.
NoVersionFaults == FailAt[setting] \cap {"version", "stamp"} = {}

\* Past the downgrade check, before the version file is opened for writing.
Decided == AfterHeader \ {"version", "stamp", "hook"}

\* The run of p can be repeated: until the version file is emptied the same
\* decision would be taken, and from then on all files are in place.
Repeatable(p) ==
    /\ Readable(versionFile)
    /\ pc[p] \in Decided => Retry(p) = "ALLOW"
    /\ pc[p] = "idle" /\ idx[p] > 0 /\ exit[p] \in {NoExit, 1} =>
          \/ Retry(p) = "ALLOW"
          \/ /\ Retry(p) = "UP_TO_DATE"
             /\ Accepted(pkg[p]) /\ AllInPlace(pkg[p])

RetryInv == NoVersionFaults => \A p \in Proc : Repeatable(p)

LEMMA InitRetryInv == Init => RetryInv
BY BlankReadsAsZero, MaxPartAssumption
   DEF Init, RetryInv, Repeatable, Decided, AfterHeader

\* No version is below itself, or below the 0.0.0.0 of an empty version file.
LEMMA BlankIsRetryable ==
    ASSUME NEW v \in Version, NEW s, NEW f \in {BlankFile, FileOf(v)}
    PROVE  fota_downgrade_check(v, fota_version_read_installed(f), s, StoredHash)
              \in {"ALLOW", "UP_TO_DATE"}
<1>1. CASE f = FileOf(v)
    BY <1>1, RecordReadsBack, DowngradeDecision
<1>2. CASE f = BlankFile
    <2>1. fota_version_read_installed(f) = ZeroVersion
        BY <1>2 DEF fota_version_read_installed, BlankFile
    <2>2. v = ZeroVersion \/ Less(ZeroVersion, v)
        BY ZeroIsVersion, ZeroIsLeast, LessTrichotomy
    <2>. QED  BY <2>1, <2>2, ZeroIsVersion, DowngradeDecision
<1>. QED  BY <1>1, <1>2

\* A step that leaves the version file alone, at or after the check.
LEMMA DecisionStays ==
    ASSUME IInv, LoopIndexInv, NEW p \in Proc, Repeatable(p),
           UNCHANGED <<versionFile, secret>>, pkg'[p] = pkg[p],
           \/ pc'[p] \notin Decided \cup {"idle"}
           \/ pc[p] \in Decided /\ pc'[p] \in Decided \cup {"idle"}
           \/ pc'[p] = "idle" /\ idx'[p] = 0
           \/ pc'[p] = "idle" /\ exit'[p] \notin {NoExit, 1}
    PROVE  Repeatable(p)'
BY DEF Repeatable, Retry, Decided, AfterHeader

LEMMA StepRetryInv ==
    ASSUME OneAtATime, CleanPackages, IInv, LoopIndexInv, ProgressInv,
           RetryInv, [Next]_vars
    PROVE  RetryInv'
<1>. SUFFICES ASSUME NoVersionFaults
              PROVE  (\A p \in Proc : Repeatable(p))'
    BY SettingStays DEF RetryInv, NoVersionFaults
<1>1. CASE UNCHANGED vars
    BY <1>1 DEF vars, RetryInv, Repeatable, Retry, AllInPlace
<1>. SUFFICES ASSUME NEW p \in Proc, Start(p) \/ Step(p) \/ Kill(p)
              PROVE  Repeatable(p)'
    BY <1>1 DEF Next, OneAtATime
<1>. USE DEF IInv, TypeOK
<1>2. Repeatable(p) /\ Progress(p) /\ LoopIndex(p)
    BY DEF RetryInv, ProgressInv, LoopIndexInv
<1>3. pkg[p] \in Package /\ pkg[p].version \in Version
    BY PackageFields
<1>4. CASE Start(p)
    <2>1. /\ versionFile' = versionFile /\ idx'[p] = 0
          /\ pc'[p] \in {"header", "idle"}
        BY <1>4 DEF Start, Return, fs
    <2>. QED  BY <1>2, <2>1 DEF Repeatable, Decided, AfterHeader
<1>5. CASE CheckVersion(p)
    <2>. DEFINE decision == Retry(p)
    <2>1. /\ pc[p] = "version" /\ idx[p] = 0 /\ InMemory
          /\ UNCHANGED <<versionFile, secret, pkg, idx>>
        BY <1>2, <1>5 DEF CheckVersion, InMemory, locals, fs, LoopIndex,
                          Writing, Point
    <2>2. (CASE decision = "UP_TO_DATE" -> Return(p, 2)
             [] decision = "BLOCKED" -> Return(p, 6)
             [] decision = "ALLOW" -> Goto(p, "space"))
        BY <1>2, <1>5 DEF CheckVersion, NoVersionFaults, Repeatable, Retry
    <2>3. decision \in {"ALLOW", "UP_TO_DATE", "BLOCKED"}
        <3>1. fota_version_read_installed(versionFile) \in Version
            BY ReadIsVersion
        <3>. QED  BY <1>3, <3>1, DowngradeDecision DEF Retry
    <2>. HIDE DEF decision
    <2>4. \/ pc'[p] = "idle"
          \/ pc'[p] = "space" /\ decision = "ALLOW"
        BY <2>2, <2>3 DEF Goto, Return
    <2>5. Retry(p)' = Retry(p) /\ idx'[p] = 0 /\ Readable(versionFile')
        BY <1>2, <2>1 DEF Retry, Repeatable
    <2>. QED  BY <2>4, <2>5 DEF Repeatable, Decided, AfterHeader, decision
<1>6. CASE OpenVersionFile(p)
    <2>1. CASE Fails(p, "record", 1)
        <3>1. UNCHANGED <<versionFile, secret, pkg, idx>>
            BY <2>1 DEF Fails, InMemory, locals, fs
        <3>2. pc[p] = "record" /\ pc'[p] = "idle"
            BY <2>1 DEF Fails, Return
        <3>. QED  BY <1>2, <3>1, <3>2, DecisionStays
                  DEF Decided, AfterHeader, Point
    <2>2. CASE ~Fails(p, "record", 1)
        <3>1. versionFile' = BlankFile /\ pc'[p] = "stamp"
            BY <1>6, <2>2 DEF OpenVersionFile, Goto
        <3>. QED  BY <3>1 DEF Repeatable, Decided, Readable, BlankFile
    <2>. QED  BY <2>1, <2>2
<1>7. CASE CloseVersionFile(p)
    <2>1. /\ versionFile' = FileOf(pkg[p].version) /\ pc'[p] = "hook"
        BY <1>2, <1>7
           DEF CloseVersionFile, NoVersionFaults, Progress, Goto
    <2>. QED  BY <2>1, RecordReadsBack DEF Repeatable, Decided
<1>8. CASE Kill(p) /\ pc[p] \in {"stamp", "hook"}
    <2>1. /\ UNCHANGED <<versionFile, secret, pkg, idx, tree>>
          /\ pc'[p] = "idle"
        BY <1>8 DEF Kill, InMemory, locals, fs, Return
    <2>2. /\ AllInPlace(pkg[p]) /\ Accepted(pkg[p])
          /\ versionFile \in {BlankFile, FileOf(pkg[p].version)}
        BY <1>2, <1>8, WritingIsAccepted DEF Progress, Writing
    <2>3. Retry(p) \in {"ALLOW", "UP_TO_DATE"} /\ Readable(versionFile)
        BY <1>2, <1>3, <2>2, BlankIsRetryable DEF Retry, Repeatable
    <2>4. Retry(p)' = Retry(p)
        BY <2>1 DEF Retry
    <2>5. AllInPlace(pkg[p])'
        BY <2>1, <2>2 DEF AllInPlace
    <2>6. Accepted(pkg[p])' /\ Readable(versionFile)'
        BY <2>1, <2>2, <2>3
    <2>. QED  BY <2>1, <2>3, <2>4, <2>5, <2>6 DEF Repeatable, Decided, AfterHeader
<1>9. CASE \/ CheckHeader(p) \/ CheckSpace(p) \/ VerifySignature(p)
           \/ Decrypt(p) \/ Validate(p) \/ SkipEntry(p) \/ EndLoop(p)
           \/ OpenFile(p) \/ FillFile(p) \/ Finish(p)
           \/ Kill(p) /\ pc[p] \notin {"stamp", "hook"}
    <2>1. UNCHANGED <<versionFile, secret, pkg>>
        BY <1>9 DEF CheckHeader, CheckSpace, VerifySignature, Decrypt, Validate,
                    SkipEntry, EndLoop, OpenFile, FillFile, Finish, Kill, Fails,
                    InMemory, locals, fs
    <2>2. \/ pc'[p] \notin Decided \cup {"idle"}
          \/ pc[p] \in Decided /\ pc'[p] \in Decided \cup {"idle"}
          \/ pc'[p] = "idle" /\ idx'[p] = 0
          \/ pc'[p] = "idle" /\ exit'[p] \notin {NoExit, 1}
        <3>1. ASSUME NEW point, NEW code, Goto(p, point) \/ Return(p, code)
              PROVE  pc'[p] \in {point, "idle"}
            BY <3>1 DEF Goto, Return
        <3>2. CASE CheckHeader(p)
            <4>1. pc[p] = "header" /\ idx'[p] = 0
                BY <1>2, <3>2 DEF CheckHeader, InMemory, locals, LoopIndex,
                                  Point, Writing
            <4>2. pc'[p] \in {"version", "idle"}
                BY <3>1, <3>2 DEF CheckHeader
            <4>. QED  BY <4>1, <4>2 DEF Decided
        <3>3. CASE CheckSpace(p) \/ VerifySignature(p) \/ Decrypt(p)
            BY <3>1, <3>3 DEF CheckSpace, VerifySignature, Decrypt, Fails,
                              Decided, AfterHeader, Point
        <3>4. CASE Validate(p) \/ EndLoop(p)
            BY <3>1, <3>4 DEF Validate, EndLoop, Fails, Decided, AfterHeader,
                              Point
        <3>5. CASE SkipEntry(p) \/ OpenFile(p) \/ FillFile(p)
            BY <3>1, <3>5 DEF SkipEntry, OpenFile, FillFile, Decided,
                              AfterHeader, Point
        <3>6. CASE Finish(p)
            BY <3>6 DEF Finish, Return, NoExit
        <3>7. CASE Kill(p) /\ pc[p] \notin {"stamp", "hook"}
            <4>1. pc'[p] = "idle" /\ idx' = idx
                BY <3>7 DEF Kill, Return, InMemory, locals
            <4>2. pc[p] \in Decided \/ pc[p] \in {"header", "version"}
                <5>1. pc[p] \in Point \ {"idle"}
                    BY <3>7, SettingAssumption DEF Kill
                <5>. QED  BY <3>7, <5>1 DEF Decided, AfterHeader
            <4>3. pc[p] \in {"header", "version"} => idx[p] = 0
                BY <1>2 DEF LoopIndex, Writing, Point
            <4>. QED  BY <4>1, <4>2, <4>3
        <3>. QED  BY <1>9, <3>2, <3>3, <3>4, <3>5, <3>6, <3>7
    <2>. QED  BY <1>2, <2>1, <2>2, DecisionStays
<1>. QED  BY <1>4, <1>5, <1>6, <1>7, <1>8, <1>9 DEF Step

LEMMA StepAllRetry ==
    ASSUME OneAtATime, CleanPackages
    PROVE  IInv /\ LoopIndexInv /\ ProgressInv /\ RetryInv /\ [Next]_vars
              => RetryInv'
BY StepRetryInv

\* A run that was killed, or that failed, anywhere in the write loop can be
\* repeated: the updater lets the same package through again, unless it is
\* already installed file by file.
THEOREM InterruptedIsRetryable ==
    ASSUME OneAtATime, CleanPackages
    PROVE  Spec => []InterruptedInstallIsRetryable
<1>1. IInv /\ RetryInv => InterruptedInstallIsRetryable
    BY InPlaceIsInstalled
       DEF IInv, TypeOK, RetryInv, Repeatable, NoVersionFaults,
           InterruptedInstallIsRetryable
<1>. QED  BY <1>1, InitIInv, StepIInv, InitLoopIndexInv, StepLoopIndexInv,
             InitProgressInv, StepAllProgress, InitRetryInv, StepAllRetry, PTL
          DEF Spec

-----------------------------------------------------------------------------
(* Already up to date.                                                     *)

OfferedFile(n) ==
    \E k \in Offers[setting] : \E e \in FirmwareFiles(k.entries) :
        k.entries[e].path = n

OfferedParent(n) ==
    \E k \in Offers[setting] : \E e \in FirmwareFiles(k.entries) :
        n \in Parents(k.entries[e].path)

\* Files stand where a package has files, directories where one needs them.
TreeShape ==
    \A n \in Node :
        /\ IsFile(n) => OfferedFile(n)
        /\ tree[n] = "dir" => OfferedParent(n)

\* The version file names no release, or one that is in place.
NamesInstalled ==
    LET v == fota_version_read_installed(versionFile) IN
    v = ZeroVersion \/ \E k \in Package :
                          Accepted(k) /\ AllInPlace(k) /\ k.version = v

Current(p) ==
    /\ pc[p] # "idle" => pkg[p] \in Offers[setting]
    /\ pc[p] \notin Writing \ {"hook"} => NamesInstalled
    /\ exit[p] = 2 =>
          fota_version_read_installed(versionFile) = pkg[p].version

CurrentInv == Undisturbed => TreeShape /\ \A p \in Proc : Current(p)

LEMMA InitCurrentInv == Init => CurrentInv
<1>. SUFFICES ASSUME Init
              PROVE  TreeShape /\ \A p \in Proc : Current(p)
    BY DEF CurrentInv
<1>1. TreeShape
    BY DEF Init, TreeShape, IsFile
<1>2. NamesInstalled
    BY BlankReadsAsZero DEF Init, NamesInstalled
<1>. QED  BY <1>1, <1>2 DEF Init, Current, NoExit

LEMMA ParentsAreNodes ==
    ASSUME NEW k \in Package, NEW e \in FirmwareFiles(k.entries)
    PROVE  /\ k.entries[e].path \in Node
           /\ Parents(k.entries[e].path) \subseteq Node
<1>1. e \in DOMAIN k.entries
    BY FirmwareIndex
<1>. QED  BY <1>1 DEF Node, PathsOf

\* No package finds a file in the place of a directory, or the other way round.
LEMMA Unobstructed ==
    ASSUME Undisturbed, TypeOK, TreeShape, NEW k \in Offers[setting],
           NEW e \in FirmwareFiles(k.entries)
    PROVE  ~Obstructed(k.entries[e].path)
<1>. DEFINE n == k.entries[e].path
<1>1. k \in Package
    BY SettingAssumption DEF TypeOK
<1>2. ASSUME NEW m \in Parents(n), IsFile(m) PROVE FALSE
    <2>1. OfferedFile(m)
        BY <1>1, <1>2, ParentsAreNodes DEF TreeShape
    <2>. QED  BY <2>1 DEF OfferedFile, Undisturbed
<1>3. ASSUME tree[n] = "dir" PROVE FALSE
    <2>1. OfferedParent(n)
        BY <1>1, <1>3, ParentsAreNodes DEF TreeShape
    <2>. QED  BY <2>1 DEF OfferedParent, Undisturbed
<1>. QED  BY <1>2, <1>3 DEF Obstructed

\* Undisturbed, the write loop changes the tree only where its package has
\* files and their parents, and goes on.
LEMMA OpenFileCurrent ==
    ASSUME Undisturbed, IInv, TreeShape, NEW p \in Proc, OpenFile(p),
           pkg[p] \in Offers[setting]
    PROVE  TreeShape' /\ pc'[p] = "fill"
<1>. DEFINE n == Target(p)
<1>1. /\ idx[p] \in FirmwareFiles(pkg[p].entries)
      /\ setting' = setting
    BY DEF OpenFile, Installed
<1>2. ~Obstructed(n)
    BY <1>1, Unobstructed DEF IInv, Target
<1>3. /\ tree' = [WithParents(n, Len(n) - 1) EXCEPT ![n] = "torn"]
      /\ pc'[p] = "fill"
    BY <1>2 DEF OpenFile, Undisturbed, Goto, IInv, TypeOK
<1>4. OfferedFile(n) /\ \A m \in Parents(n) : OfferedParent(m)
    BY <1>1 DEF OfferedFile, OfferedParent, Target
<1>5. ASSUME NEW m \in Node
      PROVE  \/ tree'[m] = tree[m]
             \/ m = n /\ tree'[m] = "torn"
             \/ m \in Parents(n) /\ tree'[m] = "dir"
    BY <1>3 DEF WithParents, Parents
<1>6. ASSUME NEW m \in Node
      PROVE  /\ IsFile(m)' => OfferedFile(m)
             /\ tree'[m] = "dir" => OfferedParent(m)
    BY <1>4, <1>5 DEF IsFile, TreeShape
<1>. QED  BY <1>1, <1>3, <1>6 DEF TreeShape, OfferedFile, OfferedParent

LEMMA FillFileCurrent ==
    ASSUME Undisturbed, IInv, TreeShape, NEW p \in Proc, FillFile(p),
           pkg[p] \in Offers[setting]
    PROVE  TreeShape' /\ pc'[p] = "write"
<1>. DEFINE n == Target(p)
            data == pkg[p].entries[idx[p]].data
<1>1. /\ idx[p] \in FirmwareFiles(pkg[p].entries)
      /\ setting' = setting /\ pkg[p] \in Package
    BY DEF FillFile, IInv, TypeOK, ProcInv, OpenFileIsFirmware
<1>2. PICK c \in {data, "torn", tree[n]} : tree' = [tree EXCEPT ![n] = c]
    BY DEF FillFile
<1>3. pc'[p] = "write"
    BY DEF FillFile, Undisturbed, Goto, IInv, TypeOK
<1>4. OfferedFile(n)
    BY <1>1 DEF OfferedFile, Target
<1>5. data # "dir"
    BY <1>1, FirmwareFileData, NodeStateAssumption
<1>6. ASSUME NEW m \in Node
      PROVE  /\ IsFile(m)' => OfferedFile(m)
             /\ tree'[m] = "dir" => OfferedParent(m)
    <2>1. tree'[m] = tree[m] \/ (m = n /\ tree'[m] \in {data, "torn"})
        BY <1>2 DEF IInv, TypeOK
    <2>. QED  BY <1>4, <1>5, <2>1 DEF IsFile, TreeShape
<1>. QED  BY <1>1, <1>3, <1>6 DEF TreeShape, OfferedFile, OfferedParent

\* A step that leaves the device alone, and does not leave the write loop.
LEMMA IdleCurrent ==
    ASSUME Undisturbed, CurrentInv, NEW p \in Proc,
           UNCHANGED <<setting, tree, versionFile>>,
           pc'[p] # "idle" => pkg'[p] \in Offers[setting],
           \/ pc'[p] \in Writing \ {"hook"}
           \/ pc[p] \notin Writing \ {"hook"},
           exit'[p] # 2
    PROVE  TreeShape' /\ Current(p)'
<1>1. TreeShape /\ Current(p)
    BY DEF CurrentInv
<1>2. TreeShape'
    BY <1>1 DEF TreeShape, IsFile, OfferedFile, OfferedParent
<1>3. NamesInstalled => NamesInstalled'
    BY DEF NamesInstalled, AllInPlace
<1>. QED  BY <1>1, <1>2, <1>3 DEF Current

LEMMA CheckVersionCurrent ==
    ASSUME Undisturbed, IInv, CurrentInv, NEW p \in Proc, CheckVersion(p)
    PROVE  TreeShape' /\ Current(p)'
<1>. USE DEF IInv, TypeOK
<1>. DEFINE decision == fota_downgrade_check(pkg[p].version,
                fota_version_read_installed(versionFile), secret[p], StoredHash)
<1>1. /\ pc[p] = "version" /\ pkg[p] \in Offers[setting]
      /\ UNCHANGED <<setting, pkg, tree, versionFile>>
      /\ TreeShape /\ NamesInstalled
    BY DEF CheckVersion, InMemory, locals, fs, CurrentInv, Current, Writing
<1>2. \/ Return(p, 1)
      \/ (CASE decision = "UP_TO_DATE" -> Return(p, 2)
            [] decision = "BLOCKED" -> Return(p, 6)
            [] decision = "ALLOW" -> Goto(p, "space"))
    BY DEF CheckVersion, Undisturbed
<1>3. /\ decision \in {"ALLOW", "UP_TO_DATE", "BLOCKED"}
      /\ decision = "UP_TO_DATE" <=>
            fota_version_read_installed(versionFile) = pkg[p].version
    BY ReadIsVersion, PackageFields, DowngradeDecision
<1>. HIDE DEF decision
<1>4. \/ pc'[p] = "idle" /\ exit'[p] \in {1, 6}
      \/ pc'[p] = "idle" /\ exit'[p] = 2 /\ decision = "UP_TO_DATE"
      \/ pc'[p] = "space" /\ exit'[p] = exit[p]
    BY <1>2, <1>3 DEF Goto, Return
<1>5. exit[p] = 2 => decision = "UP_TO_DATE"
    BY <1>3 DEF CurrentInv, Current
<1>6. TreeShape'
    BY <1>1 DEF TreeShape, IsFile, OfferedFile, OfferedParent
<1>7. NamesInstalled'
    BY <1>1 DEF NamesInstalled, AllInPlace
<1>8. exit'[p] = 2 =>
         fota_version_read_installed(versionFile') = pkg'[p].version
    BY <1>1, <1>3, <1>4, <1>5
<1>9. pkg'[p] \in Offers'[setting']
    BY <1>1
<1>. QED  BY <1>6, <1>7, <1>8, <1>9 DEF Current

LEMMA StepCurrentInv ==
    ASSUME OneAtATime
    PROVE  IInv /\ LoopIndexInv /\ ProgressInv /\ CurrentInv /\ [Next]_vars
              => CurrentInv'
<1>. SUFFICES ASSUME IInv, LoopIndexInv, ProgressInv, CurrentInv, [Next]_vars,
                     Undisturbed
              PROVE  TreeShape' /\ \A p \in Proc : Current(p)'
    BY SettingStays DEF CurrentInv, Undisturbed
<1>1. CASE UNCHANGED vars
    <2>1. /\ UNCHANGED <<setting, pc, pkg, exit, tree, versionFile>>
          /\ TreeShape /\ \A p \in Proc : Current(p)
        BY <1>1 DEF vars, CurrentInv
    <2>2. TreeShape' /\ (NamesInstalled' <=> NamesInstalled)
        BY <2>1 DEF TreeShape, IsFile, OfferedFile, OfferedParent,
                    NamesInstalled, AllInPlace
    <2>. QED  BY <2>1, <2>2 DEF Current
<1>. SUFFICES ASSUME NEW p \in Proc, Start(p) \/ Step(p) \/ Kill(p)
              PROVE  TreeShape' /\ Current(p)'
    BY <1>1 DEF Next, OneAtATime
<1>2. /\ TreeShape /\ Current(p) /\ Progress(p) /\ LoopIndex(p)
    BY DEF CurrentInv, ProgressInv, LoopIndexInv
<1>3. /\ pc[p] # "idle" => exit[p] = NoExit /\ pkg[p] \in Offers[setting]
      /\ setting' = setting
    BY <1>2, SettingStays DEF LoopIndex, Current
<1>. USE DEF IInv, TypeOK
<1>4. CASE Start(p)
    <2>1. /\ UNCHANGED <<tree, versionFile>> /\ pkg'[p] \in Offers[setting]
          /\ pc[p] = "idle" /\ exit'[p] \in {NoExit, 1}
        BY <1>4 DEF Start, Return, fs
    <2>. QED  BY <1>3, <2>1, IdleCurrent DEF Writing, NoExit
<1>5. CASE CheckVersion(p)
    BY <1>5, CheckVersionCurrent
<1>6. CASE OpenFile(p)
    <2>1. /\ TreeShape' /\ pc'[p] = "fill" /\ pc[p] = "write"
          /\ UNCHANGED pkg
        BY <1>2, <1>3, <1>6, OpenFileCurrent DEF OpenFile
    <2>2. exit'[p] = exit[p]
        BY <1>6, <2>1 DEF OpenFile, Goto, Return
    <2>. QED  BY <1>3, <2>1, <2>2 DEF Current, Writing, NoExit
<1>7. CASE FillFile(p)
    <2>1. /\ TreeShape' /\ pc'[p] = "write" /\ pc[p] = "fill"
          /\ UNCHANGED pkg
        BY <1>2, <1>3, <1>7, FillFileCurrent DEF FillFile
    <2>2. exit'[p] = exit[p]
        BY <1>7, <2>1 DEF FillFile, Goto, Return
    <2>. QED  BY <1>3, <2>1, <2>2 DEF Current, Writing, NoExit
<1>8. CASE OpenVersionFile(p)
    <2>1. /\ pc[p] = "record" /\ pc'[p] = "stamp" /\ exit'[p] = exit[p]
          /\ UNCHANGED <<pkg, tree>>
        BY <1>8 DEF OpenVersionFile, Fails, Undisturbed, Goto
    <2>2. TreeShape'
        BY <1>2, <1>3, <2>1 DEF TreeShape, IsFile, OfferedFile, OfferedParent
    <2>. QED  BY <1>3, <2>1, <2>2 DEF Current, Writing, NoExit
<1>9. CASE CloseVersionFile(p)
    <2>1. /\ pc[p] = "stamp" /\ pc'[p] = "hook" /\ exit'[p] = exit[p]
          /\ versionFile' = FileOf(pkg[p].version)
          /\ UNCHANGED <<pkg, tree>>
        BY <1>2, <1>9
           DEF CloseVersionFile, Progress, Undisturbed, Goto, locals
    <2>2. TreeShape'
        BY <1>2, <1>3, <2>1 DEF TreeShape, IsFile, OfferedFile, OfferedParent
    <2>3. /\ pkg[p] \in Package /\ Accepted(pkg[p]) /\ AllInPlace(pkg[p])'
        BY <1>2, <2>1, WritingIsAccepted DEF Progress, Writing, AllInPlace
    <2>4. NamesInstalled'
        BY <2>1, <2>3, RecordReadsBack DEF NamesInstalled
    <2>. QED  BY <1>3, <2>1, <2>2, <2>4 DEF Current, NoExit
<1>10. CASE \/ CheckHeader(p) \/ CheckSpace(p) \/ VerifySignature(p)
            \/ Decrypt(p) \/ Validate(p) \/ SkipEntry(p) \/ EndLoop(p)
            \/ Finish(p)
    <2>1. UNCHANGED <<pkg, tree, versionFile>>
        BY <1>10 DEF CheckHeader, CheckSpace, VerifySignature, Decrypt,
                     Validate, SkipEntry, EndLoop, Finish, Fails, InMemory,
                     locals, fs
    <2>2. /\ pc[p] # "idle" /\ exit'[p] # 2
          /\ \/ pc'[p] \in Writing \ {"hook"}
             \/ pc[p] \notin Writing \ {"hook"}
        <3>1. ASSUME NEW point, NEW code, Goto(p, point) \/ Return(p, code),
                     pc[p] # "idle", code # 2
              PROVE  exit'[p] # 2
            BY <1>3, <3>1 DEF Goto, Return, NoExit
        <3>2. CASE CheckHeader(p)
            BY <3>1, <3>2 DEF CheckHeader, Writing
        <3>3. CASE CheckSpace(p)
            BY <3>1, <3>3 DEF CheckSpace, Fails, Undisturbed, Writing
        <3>4. CASE VerifySignature(p)
            BY <3>1, <3>4 DEF VerifySignature, Fails, Undisturbed, Writing
        <3>5. CASE Decrypt(p)
            BY <3>1, <3>5 DEF Decrypt, Fails, Undisturbed, Writing
        <3>6. CASE Validate(p)
            BY <3>1, <3>6, ExitCodes DEF Validate, Fails, Undisturbed, Writing
        <3>7. CASE EndLoop(p)
            BY <1>3, <3>7 DEF EndLoop, Goto, Writing, NoExit
        <3>8. CASE SkipEntry(p)
            BY <1>3, <3>8 DEF SkipEntry, Writing, NoExit
        <3>9. CASE Finish(p)
            BY <3>9 DEF Finish, Return, Writing
        <3>. QED  BY <1>10, <3>2, <3>3, <3>4, <3>5, <3>6, <3>7, <3>8, <3>9
    <2>. QED  BY <1>3, <2>1, <2>2, IdleCurrent
<1>11. ~Kill(p)
    BY DEF Kill, Undisturbed
<1>. QED  BY <1>4, <1>5, <1>6, <1>7, <1>8, <1>9, <1>10, <1>11 DEF Step

\* Undisturbed, "already up to date" is true: the files of the very package
\* that was turned away are on the device.
THEOREM UpToDateIsInstalled ==
    ASSUME OneAtATime, CleanPackages, OneBuildPerVersion
    PROVE  Spec => []UpToDateMeansInstalled
<1>1. IInv /\ LoopIndexInv /\ CurrentInv => UpToDateMeansInstalled
    <2>. SUFFICES ASSUME IInv, LoopIndexInv, CurrentInv, Undisturbed,
                         NEW p \in Proc, exit[p] = 2, Accepted(pkg[p])
                  PROVE  FilesInstalled(pkg[p])
        BY DEF UpToDateMeansInstalled
    <2>. DEFINE k == pkg[p]
    <2>1. k \in Package /\ pc[p] = "idle"
        BY DEF IInv, TypeOK, LoopIndexInv, LoopIndex, NoExit
    <2>2. /\ NamesInstalled
          /\ fota_version_read_installed(versionFile) = k.version
        BY <2>1 DEF CurrentInv, Current, Writing
    <2>3. k.version # ZeroVersion
        BY <2>1 DEF OneBuildPerVersion
    <2>4. PICK j \in Package :
                  Accepted(j) /\ AllInPlace(j) /\ j.version = k.version
        BY <2>2, <2>3 DEF NamesInstalled
    <2>5. ASSUME NEW e \in FirmwareFiles(k.entries)
          PROVE  tree[k.entries[e].path] = k.entries[e].data
        <3>1. PICK d \in FirmwareFiles(j.entries) :
                     <<k.entries[e].path, k.entries[e].data>>
                        = <<j.entries[d].path, j.entries[d].data>>
            <4>. DEFINE Files(x) == {<<x.entries[f].path, x.entries[f].data>> :
                                        f \in FirmwareFiles(x.entries)}
            <4>1. Files(j) = Files(k)
                BY <2>1, <2>4, Zenon DEF OneBuildPerVersion
            <4>2. <<k.entries[e].path, k.entries[e].data>> \in Files(k)
                OBVIOUS
            <4>. HIDE DEF k
            <4>3. <<k.entries[e].path, k.entries[e].data>> \in Files(j)
                BY <4>1, <4>2, Zenon
            <4>. QED  BY <4>3
        <3>. QED  BY <2>4, <3>1 DEF AllInPlace
    <2>. QED  BY <2>1, <2>5, InPlaceIsInstalled DEF AllInPlace
<1>. QED  BY <1>1, InitIInv, StepIInv, InitLoopIndexInv, StepLoopIndexInv,
             InitProgressInv, StepAllProgress, InitCurrentInv, StepCurrentInv,
             PTL DEF Spec

-----------------------------------------------------------------------------
(* The refinement.                                                         *)

\* The control points at which an update of the contract is under way.
Updating == {"write", "fill", "record", "stamp"}

SafeInv == VersionFileSafe => DowngradeInv

\* What the contract sees of the one slot.
LEMMA Seen ==
    ASSUME OneAtATime, NEW p \in Proc
    PROVE  /\ p = TheSlot
           /\ Installing = IF pc[p] \in Updating THEN {UpdateOf(pkg[p])} ELSE {}
           /\ Installing' = IF pc'[p] \in Updating THEN {UpdateOf(pkg'[p])} ELSE {}
<1>1. TheSlot \in Proc
    BY DEF TheSlot
<1>2. p = TheSlot
    BY <1>1 DEF OneAtATime
<1>. QED  BY <1>2 DEF Installing, Updating

LEMMA Unseen ==
    ASSUME UNCHANGED <<VersionFileSafe, ledger, secret[TheSlot], Installing,
                       WholeFiles>>
    PROVE  UNCHANGED Contract!vars
BY DEF Contract!vars

LEMMA InitRefines ==
    ASSUME Proc # {}, Init
    PROVE  Contract!Init
<1>1. TheSlot \in Proc
    BY DEF TheSlot
<1>2. ledger = Contract!ZeroVersion
    BY DEF Init, ZeroVersion, Contract!ZeroVersion, Part, Contract!Part
<1>3. secret[TheSlot] = NoSecret /\ Installing = {}
    BY <1>1 DEF Init, Installing
<1>4. WholeFiles = [n \in Node |-> "absent"]
    BY DEF Init, WholeFiles
<1>5. VersionFileSafe \in BOOLEAN
    BY DEF VersionFileSafe
<1>. QED  BY <1>2, <1>3, <1>4, <1>5 DEF Contract!Init

\* The image of an accepted package has, for every firmware file, its data.
LEMMA ImageIsData ==
    ASSUME NEW k \in Package, Accepted(k), CleanPackages,
           NEW e \in FirmwareFiles(k.entries)
    PROVE  /\ k.entries[e].path \in DOMAIN UpdateOf(k).image
           /\ UpdateOf(k).image[k.entries[e].path] = k.entries[e].data
<1>1. k.entries[e].path \in PresentPaths(k.entries)
    BY DEF PresentPaths
<1>. QED  BY <1>1, FoundIsOnly DEF UpdateOf

\* A step that writes at most one file of the package.
LEMMA WritesOneFile ==
    ASSUME NEW k \in Package, NEW n, n \in DOMAIN UpdateOf(k).image,
           \A m \in Node :
              \/ WholeFiles'[m] = WholeFiles[m]
              \/ m = n /\ WholeFiles'[m] \in {"absent", UpdateOf(k).image[n]}
    PROVE  Contract!Replaces(UpdateOf(k))
<1>1. DOMAIN WholeFiles' = DOMAIN WholeFiles /\ DOMAIN WholeFiles = Node
    BY DEF WholeFiles
<1>. QED  BY <1>1 DEF Contract!Replaces

LEMMA WritesNothing ==
    ASSUME NEW u, WholeFiles' = WholeFiles
    PROVE  Contract!Replaces(u)
BY DEF Contract!Replaces

\* mkdir and failed writes leave the whole files alone.
LEMMA WithParentsUnseen ==
    ASSUME NEW n, NEW i, tree' = WithParents(n, i)
    PROVE  WholeFiles' = WholeFiles
<1>1. \A m \in Node : tree'[m] = tree[m] \/ {tree[m], tree'[m]} = {"absent", "dir"}
    BY DEF WithParents
<1>. QED  BY <1>1, NodeStateAssumption DEF WholeFiles

\* The steps of the write loop, and the ways out of it.
LEMMA WriteRefines ==
    ASSUME OneAtATime, CleanPackages, NEW p \in Proc, IInv, ProgressInv,
           OpenFile(p) \/ FillFile(p),
           UNCHANGED <<VersionFileSafe, ledger, secret[TheSlot]>>
    PROVE  Contract!Replace \/ Contract!Abandon
<1>. DEFINE k == pkg[p]
            n == Target(p)
            u == UpdateOf(k)
<1>. USE DEF IInv, TypeOK
<1>1. /\ pc[p] \in Updating /\ pc'[p] \in Updating \cup {"idle"}
      /\ pkg' = pkg /\ k \in Package /\ Accepted(k)
      /\ idx[p] \in FirmwareFiles(k.entries)
    <2>1. pc[p] \in Writing
        BY DEF OpenFile, FillFile, Writing
    <2>2. CASE OpenFile(p)
        BY <2>1, <2>2, WritingIsAccepted
           DEF OpenFile, Installed, Updating, Goto, Return
    <2>3. CASE FillFile(p)
        BY <2>1, <2>3, WritingIsAccepted
           DEF FillFile, Updating, Goto, Return, ProcInv, OpenFileIsFirmware
    <2>. QED  BY <2>2, <2>3
<1>2. /\ n \in DOMAIN u.image
      /\ u.image[n] = k.entries[idx[p]].data
      /\ n \in Node
    <2>1. idx[p] \in DOMAIN k.entries
        BY <1>1 DEF FirmwareFiles
    <2>. QED  BY <1>1, <2>1, ImageIsData, EntryPathIsNode DEF Target
<1>3. Contract!Replaces(u)
    <2>1. CASE \E i \in Nat : tree' = WithParents(n, i)
        BY <2>1, WithParentsUnseen, WritesNothing
    <2>2. CASE tree' = tree
        <3>1. WholeFiles' = WholeFiles
            BY <2>2 DEF WholeFiles
        <3>. QED  BY <3>1, WritesNothing
    <2>3. CASE tree' = [WithParents(n, Len(n) - 1) EXCEPT ![n] = "torn"]
        <3>1. ASSUME NEW m \in Node
              PROVE  \/ WholeFiles'[m] = WholeFiles[m]
                     \/ m = n /\ WholeFiles'[m] \in {"absent", u.image[n]}
            <4>1. \/ m = n /\ tree'[m] = "torn"
                  \/ m # n /\ tree'[m] = tree[m]
                  \/ m # n /\ {tree[m], tree'[m]} = {"absent", "dir"}
                BY <2>3 DEF WithParents
            <4>. QED  BY <4>1, NodeStateAssumption DEF WholeFiles
        <3>. QED  BY <1>1, <1>2, <3>1, WritesOneFile
    <2>4. ASSUME NEW c \in {k.entries[idx[p]].data, "torn", tree[n]},
                 tree' = [tree EXCEPT ![n] = c]
          PROVE  Contract!Replaces(u)
        <3>1. ASSUME NEW m \in Node
              PROVE  \/ WholeFiles'[m] = WholeFiles[m]
                     \/ m = n /\ WholeFiles'[m] \in {"absent", u.image[n]}
            BY <1>2, <2>4, NodeStateAssumption DEF WholeFiles
        <3>. QED  BY <1>1, <1>2, <3>1, WritesOneFile
    <2>5. CASE OpenFile(p)
        <3>1. \/ tree' = [WithParents(n, Len(n) - 1) EXCEPT ![n] = "torn"]
              \/ tree' = tree
              \/ \E i \in 0..(Len(n) - 1) : tree' = WithParents(n, i)
            BY <2>5 DEF OpenFile
        <3>2. \A i \in 0..(Len(n) - 1) : i \in Nat
            OBVIOUS
        <3>. QED  BY <2>1, <2>2, <2>3, <3>1, <3>2
    <2>6. CASE FillFile(p)
        <3>1. \E c \in {k.entries[idx[p]].data, "torn", tree[n]} :
                 tree' = [tree EXCEPT ![n] = c]
            <4>1. ~clobbered[p]
                BY DEF ProgressInv, Progress
            <4>. QED  BY <2>6, <4>1 DEF FillFile
        <3>. QED  BY <2>4, <3>1
    <2>. QED  BY <2>5, <2>6
<1>4. Installing = {u} /\ Installing' \in {{u}, {}}
    BY <1>1, Seen
<1>. QED  BY <1>3, <1>4 DEF Contract!Replace, Contract!Abandon

\* The run is over, and no file was touched by the last step.
LEMMA StopRefines ==
    ASSUME OneAtATime, NEW p \in Proc,
           pc[p] \in Updating, pc'[p] = "idle", UNCHANGED tree,
           UNCHANGED <<VersionFileSafe, ledger, secret[TheSlot]>>
    PROVE  Contract!Abandon
<1>1. Installing = {UpdateOf(pkg[p])} /\ Installing' = {}
    BY Seen DEF Updating
<1>2. WholeFiles' = WholeFiles
    BY DEF WholeFiles
<1>. QED  BY <1>1, <1>2, WritesNothing DEF Contract!Abandon

\* The version file is closed: every file of the image is there.
LEMMA CommitRefines ==
    ASSUME OneAtATime, CleanPackages, NEW p \in Proc, IInv, ProgressInv,
           pc[p] = "stamp", pc'[p] = "hook", UNCHANGED tree,
           ledger' = pkg[p].version,
           UNCHANGED <<VersionFileSafe, secret[TheSlot]>>
    PROVE  Contract!Commit
<1>. DEFINE k == pkg[p]
            u == UpdateOf(k)
<1>1. /\ k \in Package /\ Accepted(k) /\ AllInPlace(k)
    BY WritingIsAccepted
       DEF Writing, IInv, TypeOK, ProgressInv, Progress
<1>2. Installing = {u} /\ Installing' = {}
    BY Seen DEF Updating
<1>3. WholeFiles' = WholeFiles
    BY DEF WholeFiles
<1>4. ASSUME NEW n \in DOMAIN u.image
      PROVE  n \in DOMAIN WholeFiles /\ WholeFiles[n] = u.image[n]
    <2>1. PICK e \in FirmwareFiles(k.entries) : n = k.entries[e].path
        BY <1>4 DEF UpdateOf, PresentPaths
    <2>2. n \in Node
        BY <1>1, <2>1, EntryPathIsNode DEF FirmwareFiles
    <2>3. tree[n] = k.entries[e].data /\ k.entries[e].data \in Content
        BY <1>1, <2>1, FirmwareFileData DEF AllInPlace
    <2>. QED  BY <1>1, <2>1, <2>2, <2>3, ImageIsData DEF WholeFiles
<1>5. Contract!Complete(u) /\ ledger' = u.version
    BY <1>4 DEF Contract!Complete, UpdateOf
<1>. QED  BY <1>2, <1>3, <1>5 DEF Contract!Commit

\* The last check is passed: the update is trusted, and newer or allowed.
LEMMA BeginRefines ==
    ASSUME OneAtATime, NEW p \in Proc, IInv, IInv', SafeInv,
           pc[p] = "extract", pc'[p] = "write", pkg' = pkg, UNCHANGED tree,
           UNCHANGED <<VersionFileSafe, ledger, secret[TheSlot]>>
    PROVE  Contract!Begin
<1>. DEFINE k == pkg[p]
            u == UpdateOf(k)
<1>1. Accepted(k) /\ k \in Package
    <2>1. Established(p)' /\ Established(p) /\ pkg'[p] = k
        BY DEF IInv, ProcInv
    <2>2. Validation(k) = "OK"
        BY <2>1 DEF Established, Writing
    <2>. QED  BY <2>1, <2>2 DEF Established, Accepted, AfterHeader, AfterSpace,
                    AfterVerify, AfterDecrypt, Point, IInv, TypeOK
<1>2. u \in Trusted
    BY <1>1 DEF Trusted
<1>3. Contract!MayInstall(u)
    <2>1. VersionFileSafe => Allowed(p)
        BY DEF SafeInv, DowngradeInv, AfterHeader, Point
    <2>2. u.version = k.version
        BY DEF UpdateOf
    <2>3. p = TheSlot
        BY Seen
    <2>. QED  BY <2>1, <2>2, <2>3
              DEF Allowed, Less, SecretMatches, EVP_sha256, Part,
                  Contract!MayInstall, Contract!Less, Contract!SecretMatches,
                  Contract!EVP_sha256, Contract!Part
<1>4. Installing = {} /\ Installing' = {u}
    BY Seen DEF Updating
<1>5. WholeFiles' = WholeFiles
    BY DEF WholeFiles
<1>. QED  BY <1>2, <1>3, <1>4, <1>5 DEF Contract!Begin

LEMMA StepRefines ==
    ASSUME OneAtATime, CleanPackages, Proc # {}, IInv, IInv', LoopIndexInv,
           ProgressInv, SafeInv, [Next]_vars
    PROVE  [Contract!Next]_(Contract!vars)
<1>1. VersionFileSafe' <=> VersionFileSafe
    BY SettingStays DEF VersionFileSafe
<1>2. CASE UNCHANGED vars
    BY <1>1, <1>2, Unseen DEF vars, Installing, WholeFiles, VersionFileSafe
<1>. SUFFICES ASSUME NEW p \in Proc, Start(p) \/ Step(p) \/ Kill(p)
              PROVE  [Contract!Next]_(Contract!vars)
    BY <1>2 DEF Next
<1>. USE DEF IInv, TypeOK
<1>3. /\ p = TheSlot
      /\ Installing = IF pc[p] \in Updating THEN {UpdateOf(pkg[p])} ELSE {}
      /\ Installing' = IF pc'[p] \in Updating THEN {UpdateOf(pkg'[p])} ELSE {}
    BY Seen
<1>4. UNCHANGED VersionFileSafe
    BY <1>1 DEF VersionFileSafe
<1>5. ASSUME UNCHANGED <<ledger, secret, tree, pkg>>,
             pc[p] \in Updating <=> pc'[p] \in Updating
      PROVE  UNCHANGED Contract!vars
    <2>1. WholeFiles' = WholeFiles /\ Installing' = Installing
        BY <1>3, <1>5 DEF WholeFiles
    <2>. QED  BY <1>4, <1>5, <2>1, Unseen
<1>6. ASSUME UNCHANGED <<ledger, secret, tree>>,
             pc[p] \in Updating, pc'[p] = "idle"
      PROVE  Contract!Next
    BY <1>4, <1>6, StopRefines DEF Contract!Next
<1>7. CASE Start(p)
    <2>1. Installing = {} /\ Installing' = {} /\ WholeFiles' = WholeFiles
        BY <1>3, <1>7 DEF Start, Return, Updating, WholeFiles, fs
    <2>2. /\ secret'[p] \in Secret \cup {NoSecret} /\ UNCHANGED ledger
        BY <1>7 DEF Start
    <2>. QED  BY <1>3, <1>4, <2>1, <2>2 DEF Contract!Next, Contract!Give
<1>8. CASE \/ CheckHeader(p) \/ CheckVersion(p) \/ CheckSpace(p)
           \/ VerifySignature(p) \/ Decrypt(p) \/ Finish(p) \/ Kill(p)
           \/ Fails(p, "record", 1)
    <2>1. UNCHANGED <<ledger, secret, tree, pkg>>
        BY <1>8 DEF CheckHeader, CheckVersion, CheckSpace, VerifySignature,
                    Decrypt, Finish, Kill, Fails, InMemory, locals, fs
    <2>2. \/ pc[p] \notin Updating /\ pc'[p] \notin Updating
          \/ pc[p] \in Updating /\ pc'[p] = "idle"
        <3>1. ASSUME NEW point, NEW code, Goto(p, point) \/ Return(p, code)
              PROVE  pc'[p] \in {point, "idle"}
            BY <3>1 DEF Goto, Return
        <3>. HIDE DEF IInv, TypeOK
        <3>2. CASE CheckVersion(p)
            <4>1. pc[p] = "version" /\ pc'[p] \in {"space", "idle"}
                BY <3>1, <3>2, CheckVersionOutcome
            <4>. QED  BY <4>1 DEF Updating
        <3>3. CASE CheckHeader(p)
            BY <3>1, <3>3 DEF CheckHeader, Updating
        <3>4. CASE CheckSpace(p) \/ VerifySignature(p) \/ Decrypt(p)
            BY <3>1, <3>4 DEF CheckSpace, VerifySignature, Decrypt, Fails,
                              Updating
        <3>5. CASE Finish(p) \/ Kill(p) \/ Fails(p, "record", 1)
            BY <3>1, <3>5 DEF Finish, Kill, Fails, Updating
        <3>. QED  BY <1>8, <3>2, <3>3, <3>4, <3>5
    <2>. QED  BY <1>5, <1>6, <2>1, <2>2 DEF Updating
<1>9. CASE Validate(p)
    <2>1. /\ pc[p] = "extract" /\ pc'[p] \in {"write", "idle"}
          /\ UNCHANGED <<ledger, secret, tree, pkg>>
        BY <1>9 DEF Validate, Fails, Goto, Return, InMemory, locals, fs
    <2>2. CASE pc'[p] = "write"
        BY <1>3, <1>4, <2>1, <2>2, BeginRefines DEF Contract!Next
    <2>3. CASE pc'[p] = "idle"
        BY <1>5, <2>1, <2>3 DEF Updating
    <2>. QED  BY <2>1, <2>2, <2>3
<1>10. CASE OpenFile(p) \/ FillFile(p)
    <2>1. UNCHANGED <<VersionFileSafe, ledger, secret[TheSlot]>>
        BY <1>4, <1>10 DEF OpenFile, FillFile
    <2>. QED  BY <1>10, <2>1, WriteRefines DEF Contract!Next
<1>11. CASE SkipEntry(p) \/ EndLoop(p)
    <2>1. /\ UNCHANGED <<ledger, secret, tree, pkg>>
          /\ pc[p] \in Updating /\ pc'[p] \in Updating
        BY <1>11 DEF SkipEntry, EndLoop, Goto, InMemory, locals, fs, Updating
    <2>. QED  BY <1>5, <2>1
<1>12. CASE OpenVersionFile(p) /\ ~Fails(p, "record", 1)
    <2>1. /\ UNCHANGED <<ledger, secret, tree, pkg>>
          /\ pc[p] \in Updating /\ pc'[p] \in Updating
        BY <1>12 DEF OpenVersionFile, Goto, Updating
    <2>. QED  BY <1>5, <2>1
<1>13. CASE CloseVersionFile(p)
    <2>1. /\ pc[p] = "stamp" /\ UNCHANGED <<secret, tree>>
          /\ \/ pc'[p] = "hook" /\ ledger' = pkg[p].version
             \/ pc'[p] = "idle" /\ UNCHANGED ledger
        BY <1>13 DEF CloseVersionFile, Goto, Return, locals
    <2>2. CASE pc'[p] = "hook" /\ ledger' = pkg[p].version
        BY <1>3, <1>4, <2>1, <2>2, CommitRefines DEF Contract!Next
    <2>3. CASE pc'[p] = "idle" /\ UNCHANGED ledger
        BY <1>6, <2>1, <2>3 DEF Updating
    <2>. QED  BY <2>1, <2>2, <2>3
<1>. QED  BY <1>7, <1>8, <1>9, <1>10, <1>11, <1>12, <1>13 DEF Step

\* One invocation at a time, the updater implements the contract, whatever
\* is killed and whatever fails.
THEOREM Implements ==
    ASSUME OneAtATime, Proc # {}, CleanPackages
    PROVE  Spec => ImplementsContract
<1>1. Init => Contract!Init
    BY InitRefines
<1>2. Init => SafeInv
    BY InitDowngradeInv DEF SafeInv
<1>3. IInv /\ SafeInv /\ [Next]_vars => SafeInv'
    <2>. SUFFICES ASSUME IInv, SafeInv, [Next]_vars PROVE SafeInv'
        OBVIOUS
    <2>1. VersionFileSafe' <=> VersionFileSafe
        BY SettingStays DEF VersionFileSafe
    <2>. QED  BY <2>1, StepDowngradeInv DEF SafeInv
<1>4. IInv /\ IInv' /\ LoopIndexInv /\ ProgressInv /\ SafeInv /\ [Next]_vars
          => [Contract!Next]_(Contract!vars)
    BY StepRefines
<1>. QED  BY <1>1, <1>2, <1>3, <1>4, InitIInv, StepIInv, InitLoopIndexInv,
             StepLoopIndexInv, InitProgressInv, StepAllProgress, PTL
          DEF Spec, ImplementsContract, Contract!Spec

-----------------------------------------------------------------------------
(* Power cuts.  What is on the medium lags behind what the updater has     *)
(* written; the invariants relate the two, and what each would make of the *)
(* package if it were run again.                                           *)

(* Types, and what a process has established.  A power cut ends every run, *)
(* so nothing has to be shown of a run but that it may be over.            *)

MediumTypeOK ==
    /\ disk \in [Node -> NodeState]
    /\ diskVersion \in VersionFile

PowerInv == IInv /\ LoopIndexInv /\ MediumTypeOK

\* What the steps of the medium leave alone.
LEMMA WriteBackSteps ==
    ASSUME (\E n \in Node : WriteBackFile(n)) \/ WriteBackVersion
    PROVE  UNCHANGED vars
BY DEF WriteBackFile, WriteBackVersion

LEMMA PowerStep ==
    ASSUME [PowerNext]_<<vars, medium>>
    PROVE  [Next]_vars \/ PowerCut
BY WriteBackSteps DEF PowerNext

LEMMA PowerCutShape ==
    ASSUME IInv, PowerCut, NEW p \in Proc
    PROVE  /\ pc'[p] = "idle"
           /\ exit'[p] = IF pc[p] = "idle" THEN exit[p] ELSE NoExit
           /\ tree' = disk /\ versionFile' = diskVersion
           /\ UNCHANGED <<setting, pkg, secret, idx, clobbered, ledger,
                          disk, diskVersion>>
BY DEF PowerCut, locals, medium

LEMMA PowerCutKeepsTypes ==
    ASSUME PowerInv, PowerCut
    PROVE  IInv' /\ LoopIndexInv'
<1>. USE DEF PowerInv, MediumTypeOK, IInv, TypeOK
<1>1. TypeOK'
    BY DEF PowerCut, locals, medium, Point
<1>2. ProcInv'
    BY PowerCutShape
       DEF ProcInv, Established, OpenFileIsFirmware, AfterHeader, AfterSpace,
           AfterVerify, AfterDecrypt, Writing
<1>3. ASSUME NEW p \in Proc PROVE LoopIndex(p)'
    <2>1. LoopIndex(p)
        BY DEF LoopIndexInv
    <2>. QED  BY <2>1, PowerCutShape DEF LoopIndex, Writing, NoExit
<1>. QED  BY <1>1, <1>2, <1>3 DEF LoopIndexInv

LEMMA StepMediumTyped ==
    ASSUME IInv, MediumTypeOK, [PowerNext]_<<vars, medium>>
    PROVE  MediumTypeOK'
<1>. USE DEF MediumTypeOK, IInv, TypeOK
<1>1. CASE UNCHANGED medium
    BY <1>1 DEF medium
<1>2. ASSUME NEW n \in Node, WriteBackFile(n)
      PROVE  MediumTypeOK'
    <2>1. PICK c \in {tree[n], "torn"} : disk' = [disk EXCEPT ![n] = c]
        BY <1>2 DEF WriteBackFile
    <2>. QED  BY <1>2, <2>1 DEF WriteBackFile, NodeState
<1>3. CASE WriteBackVersion
    <2>1. {BlankFile, MalformedFile} \subseteq VersionFile
        BY VersionFilesTyped, ZeroIsVersion
    <2>. QED  BY <1>3, <2>1 DEF WriteBackVersion
<1>4. CASE PowerCut
    BY <1>4 DEF PowerCut, medium
<1>. QED  BY <1>1, <1>2, <1>3, <1>4 DEF PowerNext

LEMMA InitPowerInv == PowerInit => PowerInv
<1>. SUFFICES ASSUME PowerInit
              PROVE  PowerInv
    OBVIOUS
<1>1. IInv /\ LoopIndexInv
    BY InitIInv, InitLoopIndexInv DEF PowerInit
<1>. QED  BY <1>1 DEF PowerInit, PowerInv, MediumTypeOK, IInv, TypeOK

LEMMA StepPowerInv == PowerInv /\ [PowerNext]_<<vars, medium>> => PowerInv'
<1>. SUFFICES ASSUME PowerInv, [PowerNext]_<<vars, medium>>
              PROVE  PowerInv'
    OBVIOUS
<1>1. MediumTypeOK'
    BY StepMediumTyped DEF PowerInv
<1>2. IInv' /\ LoopIndexInv'
    BY PowerStep, PowerCutKeepsTypes, StepIInv, StepLoopIndexInv DEF PowerInv
<1>. QED  BY <1>1, <1>2 DEF PowerInv

\* Type invariant: also with power cuts, and whatever was written back.
THEOREM PowerTypeCorrect == PowerSpec => []PowerTypeOK
<1>1. PowerInv => PowerTypeOK
    BY DEF PowerInv, MediumTypeOK, IInv, PowerTypeOK
<1>. QED  BY <1>1, InitPowerInv, StepPowerInv, PTL DEF PowerSpec

-----------------------------------------------------------------------------
(* What is on the medium comes from accepted packages.                     *)

MediumAuthentic ==
    \A n \in Node : disk[n] \in Content => Genuine(n, disk[n])

LEMMA StepMediumAuthentic ==
    ASSUME PowerInv, InstalledIsAuthentic, MediumAuthentic,
           [PowerNext]_<<vars, medium>>
    PROVE  MediumAuthentic'
<1>1. CASE disk' = disk
    BY <1>1 DEF MediumAuthentic, Genuine
<1>2. ASSUME NEW m \in Node, WriteBackFile(m)
      PROVE  MediumAuthentic'
    <2>1. PICK c \in {tree[m], "torn"} : disk' = [disk EXCEPT ![m] = c]
        BY <1>2 DEF WriteBackFile
    <2>2. ASSUME NEW n \in Node, disk'[n] \in Content
          PROVE  disk'[n] \in {disk[n], tree[n]}
        BY <2>1, <2>2, NodeStateAssumption DEF PowerInv, MediumTypeOK
    <2>3. \A n \in Node : tree[n] \in Content => Genuine(n, tree[n])
        BY DEF InstalledIsAuthentic, Genuine
    <2>. QED  BY <2>2, <2>3 DEF MediumAuthentic, Genuine
<1>. QED  BY <1>1, <1>2 DEF PowerNext, WriteBackVersion, PowerCut, medium

LEMMA StepAuthenticOnMedium ==
    PowerInv /\ InstalledIsAuthentic /\ MediumAuthentic
       /\ [PowerNext]_<<vars, medium>>
          => InstalledIsAuthentic' /\ MediumAuthentic'
<1>. SUFFICES ASSUME PowerInv, InstalledIsAuthentic, MediumAuthentic,
                     [PowerNext]_<<vars, medium>>
              PROVE  InstalledIsAuthentic' /\ MediumAuthentic'
    OBVIOUS
<1>1. MediumAuthentic'
    BY StepMediumAuthentic
<1>2. CASE PowerCut
    <2>1. tree' = disk /\ ledger' = ledger
        BY <1>2 DEF PowerCut
    <2>2. \A n \in Node : tree'[n] \in Content => Genuine(n, tree'[n])
        BY <2>1 DEF MediumAuthentic
    <2>. QED  BY <1>1, <2>1, <2>2 DEF InstalledIsAuthentic, Genuine
<1>. QED  BY <1>1, <1>2, PowerStep, StepAuthentic DEF PowerInv

\* Power may be lost at any moment and with any part of what was written on
\* the medium: still every whole file in the install directory is an accepted
\* package's file for that path.
THEOREM AuthenticAfterPowerLoss == PowerSpec => []InstalledIsAuthentic
<1>1. PowerInit => InstalledIsAuthentic /\ MediumAuthentic
    BY NodeStateAssumption
       DEF PowerInit, Init, InstalledIsAuthentic, MediumAuthentic
<1>. QED  BY <1>1, InitPowerInv, StepPowerInv, StepAuthenticOnMedium, PTL
          DEF PowerSpec

-----------------------------------------------------------------------------
(* Runs that a power cut ends.                                             *)

OnDevice == fota_version_read_installed(versionFile)
OnMedium == fota_version_read_installed(diskVersion)

\* Past the downgrade check, before the new version is recorded.
Pending == Decided \cup {"stamp"}

\* The version on the medium lags behind the recorded one, but while that one
\* is being rewritten; a run that was let through is newer than both until it
\* has recorded its version, and no older than either from then on.
Lagging(p) ==
    /\ pc[p] # "stamp" => ~Less(OnDevice, OnMedium)
    /\ pc[p] \in Pending =>
          Less(OnDevice, pkg[p].version) /\ Less(OnMedium, pkg[p].version)
    /\ pc[p] = "hook" \/ (pc[p] = "idle" /\ idx[p] > 0) =>
          ~Less(pkg[p].version, OnDevice) /\ ~Less(pkg[p].version, OnMedium)

LagInv == NeverBack => \A p \in Proc : Lagging(p)

LEMMA VersionsTyped ==
    ASSUME PowerInv, NEW p \in Proc
    PROVE  /\ pkg[p] \in Package /\ pkg[p].version \in Version
           /\ OnDevice \in Version /\ OnMedium \in Version
<1>1. pkg[p] \in Package /\ versionFile \in VersionFile
    BY DEF PowerInv, IInv, TypeOK
<1>2. diskVersion \in VersionFile
    BY DEF PowerInv, MediumTypeOK
<1>. QED  BY <1>1, <1>2, PackageFields, ReadIsVersion DEF OnDevice, OnMedium

LEMMA InitLagInv == PowerInit => LagInv
<1>. SUFFICES ASSUME PowerInit, NEW p \in Proc
              PROVE  Lagging(p)
    BY DEF LagInv
<1>1. /\ pc[p] = "idle" /\ idx[p] = 0
      /\ versionFile = NoVersionFile /\ diskVersion = NoVersionFile
    BY DEF PowerInit, Init
<1>2. OnDevice = ZeroVersion /\ OnMedium = ZeroVersion
    BY <1>1, BlankReadsAsZero DEF OnDevice, OnMedium
<1>3. ~Less(ZeroVersion, ZeroVersion)
    BY ZeroIsVersion, ZeroIsLeast
<1>. QED  BY <1>1, <1>2, <1>3 DEF Lagging, Pending, Decided, AfterHeader

\* A step that leaves the version file and the medium alone.
LEMMA QuietLag ==
    ASSUME PowerInv, NEW p \in Proc, Lagging(p),
           UNCHANGED <<versionFile, diskVersion>>, pkg'[p] = pkg[p],
           pc'[p] # "stamp", pc[p] # "stamp",
           \/ pc'[p] \notin Pending \cup {"hook", "idle"}
           \/ pc[p] \in Pending /\ pc'[p] \in Pending \cup {"idle"}
           \/ pc'[p] = "idle" /\ idx'[p] = 0
           \/ pc[p] = "hook" /\ pc'[p] = "idle"
    PROVE  Lagging(p)'
<1>1. OnDevice' = OnDevice /\ OnMedium' = OnMedium
    BY DEF OnDevice, OnMedium
<1>2. pc[p] \in Pending =>
         ~Less(pkg[p].version, OnDevice) /\ ~Less(pkg[p].version, OnMedium)
    BY VersionsTyped, LessTrichotomy DEF Lagging
<1>3. \/ pc'[p] \notin {"hook", "idle"}
      \/ pc'[p] = "idle" /\ idx'[p] = 0
      \/ ~Less(pkg[p].version, OnDevice) /\ ~Less(pkg[p].version, OnMedium)
    BY <1>2 DEF Lagging
<1>4. pc'[p] \in Pending =>
         Less(OnDevice, pkg[p].version) /\ Less(OnMedium, pkg[p].version)
    BY DEF Lagging, Pending, Decided, AfterHeader
<1>. QED  BY <1>1, <1>3, <1>4 DEF Lagging

\* The steps of the updater.
LEMMA StepLag ==
    ASSUME OneAtATime, NeverBack, PowerInv, ProgressInv,
           [Next]_vars, UNCHANGED medium,
           NEW p \in Proc, Lagging(p)
    PROVE  Lagging(p)'
<1>1. diskVersion' = diskVersion
    BY DEF medium
<1>2. CASE UNCHANGED vars
    BY <1>1, <1>2 DEF vars, Lagging, OnDevice, OnMedium
<1>. SUFFICES ASSUME Start(p) \/ Step(p) \/ Kill(p)
              PROVE  Lagging(p)'
    BY <1>2 DEF Next, OneAtATime
<1>3. IInv /\ Progress(p) /\ LoopIndex(p) /\ LoopIndexInv
    BY DEF PowerInv, ProgressInv, LoopIndexInv
<1>. USE DEF IInv, TypeOK
<1>4. /\ pkg[p] \in Package /\ pkg[p].version \in Version
      /\ OnDevice \in Version /\ OnMedium \in Version
    BY VersionsTyped
<1>5. secret[p] = NoSecret /\ VersionFileSafe
    BY <1>3 DEF NeverBack
<1>6. CASE Start(p)
    <2>1. /\ versionFile' = versionFile /\ idx'[p] = 0
          /\ pc[p] = "idle" /\ pc'[p] \in {"header", "idle"}
        BY <1>3, <1>6 DEF Start, Return, fs
    <2>2. OnDevice' = OnDevice /\ OnMedium' = OnMedium
        BY <1>1, <2>1 DEF OnDevice, OnMedium
    <2>. QED  BY <1>1, <2>1, <2>2 DEF Lagging, Pending, Decided, AfterHeader
<1>7. CASE CheckVersion(p)
    <2>. DEFINE decision == fota_downgrade_check(pkg[p].version, OnDevice,
                                secret[p], StoredHash)
    <2>1. /\ pc[p] = "version" /\ idx[p] = 0
          /\ UNCHANGED <<versionFile, pkg, idx>>
        BY <1>3, <1>7 DEF CheckVersion, InMemory, locals, fs, LoopIndex,
                          Writing, Point
    <2>2. \/ Return(p, 1)
          \/ (CASE decision = "UP_TO_DATE" -> Return(p, 2)
                [] decision = "BLOCKED" -> Return(p, 6)
                [] decision = "ALLOW" -> Goto(p, "space"))
        BY <1>5, <1>7 DEF CheckVersion, VersionFileSafe, OnDevice
    <2>3. /\ decision \in {"ALLOW", "UP_TO_DATE", "BLOCKED"}
          /\ decision = "ALLOW" => Less(OnDevice, pkg[p].version)
        BY <1>4, <1>5, DowngradeDecision DEF SecretMatches
    <2>. HIDE DEF decision
    <2>4. \/ pc'[p] = "idle"
          \/ pc'[p] = "space" /\ Less(OnDevice, pkg[p].version)
        BY <1>3, <2>2, <2>3 DEF Goto, Return
    <2>5. OnDevice' = OnDevice /\ OnMedium' = OnMedium
        BY <1>1, <2>1 DEF OnDevice, OnMedium
    <2>6. ~Less(OnDevice, OnMedium)
        BY <2>1 DEF Lagging
    <2>7. Less(OnDevice, pkg[p].version) => Less(OnMedium, pkg[p].version)
        BY <1>4, <2>6, NotAboveIsBelow
    <2>. QED  BY <1>1, <2>1, <2>4, <2>5, <2>6, <2>7
              DEF Lagging, Pending, Decided, AfterHeader
<1>8. CASE OpenVersionFile(p) /\ ~Fails(p, "record", 1)
    <2>1. /\ versionFile' = BlankFile /\ pkg' = pkg
          /\ pc[p] = "record" /\ pc'[p] = "stamp"
        BY <1>3, <1>8 DEF OpenVersionFile, Goto
    <2>2. OnMedium' = OnMedium /\ OnDevice' = ZeroVersion
        BY <1>1, <2>1
           DEF OnDevice, OnMedium, fota_version_read_installed, BlankFile
    <2>3. Less(OnDevice, pkg[p].version) /\ Less(OnMedium, pkg[p].version)
        BY <2>1 DEF Lagging, Pending, Decided, AfterHeader, Point
    <2>4. Less(ZeroVersion, pkg[p].version)
        BY <1>4, <2>3, ZeroIsVersion, ZeroIsLeast, NotAboveIsBelow
    <2>. QED  BY <1>1, <2>1, <2>2, <2>3, <2>4 DEF Lagging
<1>9. CASE CloseVersionFile(p)
    <2>1. /\ versionFile' = FileOf(pkg[p].version)
          /\ pc[p] = "stamp" /\ pc'[p] = "hook"
          /\ UNCHANGED <<pkg, tree>>
        BY <1>3, <1>5, <1>9
           DEF CloseVersionFile, VersionFileSafe, Progress, Goto, locals
    <2>2. OnMedium' = OnMedium /\ OnDevice' = pkg[p].version
        BY <1>1, <2>1, RecordReadsBack DEF OnDevice, OnMedium
    <2>3. Less(OnMedium, pkg[p].version)
        BY <2>1 DEF Lagging, Pending
    <2>4. /\ ~Less(pkg[p].version, OnMedium)
          /\ ~Less(pkg[p].version, pkg[p].version)
        BY <1>4, <2>3, LessTrichotomy
    <2>. QED  BY <2>1, <2>2, <2>4 DEF Lagging, Pending, Decided, AfterHeader
<1>10. CASE \/ CheckHeader(p) \/ CheckSpace(p) \/ VerifySignature(p)
            \/ Decrypt(p) \/ Validate(p) \/ SkipEntry(p) \/ OpenFile(p)
            \/ FillFile(p) \/ EndLoop(p) \/ Fails(p, "record", 1)
            \/ Finish(p) \/ Kill(p)
    <2>1. UNCHANGED <<versionFile, pkg>>
        BY <1>10 DEF CheckHeader, CheckSpace, VerifySignature, Decrypt,
                     Validate, SkipEntry, OpenFile, FillFile, EndLoop, Finish,
                     Kill, Fails, InMemory, locals, fs
    <2>. DEFINE Quiet == /\ pc[p] # "stamp" /\ pc'[p] # "stamp"
                         /\ \/ pc'[p] \notin Pending \cup {"hook", "idle"}
                            \/ /\ pc[p] \in Pending
                               /\ pc'[p] \in Pending \cup {"idle"}
                            \/ pc'[p] = "idle" /\ idx'[p] = 0
                            \/ pc[p] = "hook" /\ pc'[p] = "idle"
    <2>2. Quiet
        <3>1. ASSUME NEW point, NEW code, Goto(p, point) \/ Return(p, code)
              PROVE  pc'[p] \in {point, "idle"}
            BY <1>3, <3>1 DEF Goto, Return
        <3>2. CASE CheckHeader(p)
            <4>1. pc[p] = "header" /\ idx'[p] = 0
                BY <1>3, <3>2 DEF CheckHeader, InMemory, locals, LoopIndex,
                                  Point, Writing
            <4>2. pc'[p] \in {"version", "idle"}
                BY <3>1, <3>2 DEF CheckHeader
            <4>. QED  BY <4>1, <4>2 DEF Pending, Decided
        <3>3. CASE CheckSpace(p) \/ VerifySignature(p) \/ Decrypt(p)
            BY <3>1, <3>3 DEF CheckSpace, VerifySignature, Decrypt, Fails,
                              Pending, Decided, AfterHeader, Point
        <3>4. CASE Validate(p) \/ EndLoop(p) \/ Fails(p, "record", 1)
            BY <3>1, <3>4 DEF Validate, EndLoop, Fails, Pending, Decided,
                              AfterHeader, Point
        <3>5. CASE SkipEntry(p) \/ OpenFile(p) \/ FillFile(p)
            <4>1. pc[p] \in {"write", "fill"} /\ pc'[p] \in {"write", "fill", "idle"}
                BY <3>1, <3>5 DEF SkipEntry, OpenFile, FillFile
            <4>. QED  BY <4>1 DEF Pending, Decided, AfterHeader, Point
        <3>6. CASE Finish(p)
            BY <3>1, <3>6 DEF Finish
        <3>7. CASE Kill(p)
            <4>1. pc'[p] = "idle" /\ idx' = idx
                BY <1>3, <3>7 DEF Kill, Return, InMemory, locals
            <4>2. pc[p] \in Point \ {"idle", "stamp"}
                BY <1>3, <1>5, <3>7, SettingAssumption DEF Kill, VersionFileSafe
            <4>3. pc[p] \in {"header", "version"} => idx[p] = 0
                BY <1>3 DEF LoopIndex, Writing, Point
            <4>. QED  BY <4>1, <4>2, <4>3 DEF Pending, Decided, AfterHeader
        <3>. QED  BY <1>10, <3>2, <3>3, <3>4, <3>5, <3>6, <3>7
    <2>. QED  BY <1>1, <1>3, <2>1, <2>2, QuietLag
<1>. QED  BY <1>6, <1>7, <1>8, <1>9, <1>10 DEF Step

\* What is written back of the version file is no newer than what is there.
LEMMA WriteBackLag ==
    ASSUME PowerInv, WriteBackVersion \/ \E n \in Node : WriteBackFile(n),
           NEW p \in Proc, Lagging(p)
    PROVE  Lagging(p)'
<1>1. /\ UNCHANGED vars
      /\ diskVersion' \in {diskVersion, versionFile, BlankFile, MalformedFile}
    BY DEF WriteBackVersion, WriteBackFile
<1>2. OnDevice' = OnDevice /\ OnMedium' \in {OnMedium, OnDevice, ZeroVersion}
    BY <1>1 DEF vars, OnDevice, OnMedium, fota_version_read_installed,
                BlankFile, MalformedFile
<1>3. /\ pkg[p].version \in Version /\ OnDevice \in Version
      /\ OnMedium \in Version
    BY VersionsTyped
<1>4. ~Less(OnDevice, OnMedium) => ~Less(OnDevice, OnMedium')
    BY <1>2, <1>3, ZeroIsLeast, LessTrichotomy
<1>5. Less(OnDevice, pkg[p].version) /\ Less(OnMedium, pkg[p].version) =>
         Less(OnMedium', pkg[p].version)
    BY <1>2, <1>3, ZeroIsVersion, ZeroIsLeast, NotAboveIsBelow
<1>6. ~Less(pkg[p].version, OnDevice) /\ ~Less(pkg[p].version, OnMedium) =>
         ~Less(pkg[p].version, OnMedium')
    BY <1>2, <1>3, ZeroIsLeast
<1>. QED  BY <1>1, <1>2, <1>4, <1>5, <1>6 DEF Lagging, vars

\* A run that has begun to write is pending, done, or over.
LEMMA StartedRun ==
    ASSUME PowerInv, NEW p \in Proc, idx[p] > 0
    PROVE  pc[p] \in Pending \cup {"hook", "idle"}
<1>1. pc[p] \in Point /\ LoopIndex(p)
    BY DEF PowerInv, IInv, TypeOK, LoopIndexInv
<1>2. pc[p] \notin {"header", "version"}
    BY <1>1 DEF LoopIndex, Writing, Point
<1>. QED  BY <1>1, <1>2 DEF Pending, Decided, AfterHeader

\* The package of such a run is not older than what the medium has.
LEMMA StartedNotOlder ==
    ASSUME PowerInv, NEW p \in Proc, idx[p] > 0, Lagging(p)
    PROVE  /\ ~Less(pkg[p].version, OnMedium)
           /\ pc[p] \notin {"hook", "idle"} => Less(OnMedium, pkg[p].version)
BY StartedRun, VersionsTyped, LessTrichotomy DEF Lagging

\* What was on the medium is on the device.
LEMMA PowerCutLag ==
    ASSUME PowerInv, PowerCut, NEW p \in Proc, Lagging(p)
    PROVE  Lagging(p)'
<1>1. /\ pc'[p] = "idle" /\ versionFile' = diskVersion
      /\ UNCHANGED <<pkg, idx, diskVersion>>
    BY PowerCutShape DEF PowerInv
<1>2. OnDevice' = OnMedium /\ OnMedium' = OnMedium
    BY <1>1 DEF OnDevice, OnMedium
<1>3. ~Less(OnMedium, OnMedium)
    BY VersionsTyped, LessTrichotomy
<1>4. idx[p] > 0 => ~Less(pkg[p].version, OnMedium)
    BY StartedNotOlder
<1>. QED  BY <1>1, <1>2, <1>3, <1>4
          DEF Lagging, Pending, Decided, AfterHeader

LEMMA PowerCutProgress ==
    ASSUME ProgressInv, IInv, PowerCut
    PROVE  ProgressInv'
BY PowerCutShape DEF ProgressInv, Progress

LEMMA StepLagInv ==
    ASSUME OneAtATime, CleanPackages
    PROVE  PowerInv /\ ProgressInv /\ LagInv /\ [PowerNext]_<<vars, medium>>
              => ProgressInv' /\ LagInv'
<1>. SUFFICES ASSUME PowerInv, ProgressInv, LagInv,
                     [PowerNext]_<<vars, medium>>
              PROVE  ProgressInv' /\ LagInv'
    OBVIOUS
<1>1. ProgressInv'
    BY PowerStep, StepAllProgress, PowerCutProgress DEF PowerInv
<1>2. setting' = setting
    <2>1. CASE PowerCut
        BY <2>1 DEF PowerCut, locals
    <2>. QED  BY <2>1, PowerStep, SettingStays
<1>3. NeverBack' <=> NeverBack
    BY <1>2 DEF NeverBack, VersionFileSafe
<1>4. ASSUME NeverBack, NEW p \in Proc
      PROVE  Lagging(p)'
    <2>1. Lagging(p)
        BY <1>4 DEF LagInv
    <2>2. CASE [Next]_vars /\ UNCHANGED medium
        BY <1>4, <2>1, <2>2, StepLag
    <2>3. CASE WriteBackVersion \/ \E n \in Node : WriteBackFile(n)
        BY <2>1, <2>3, WriteBackLag
    <2>4. CASE PowerCut
        BY <2>1, <2>4, PowerCutLag
    <2>. QED  BY <2>2, <2>3, <2>4 DEF PowerNext
<1>. QED  BY <1>1, <1>3, <1>4 DEF LagInv

\* Power may be lost at any moment, with any part of what was written on the
\* medium: if the version left there can be read, the last package can be run
\* again, unless its version was recorded; and every file of it is in place if
\* all was written back when the run was about to exit with 0.
THEOREM PowerCutRetryable ==
    ASSUME OneAtATime, CleanPackages
    PROVE  PowerSpec => PowerCutIsRetryable
<1>1. PowerInv /\ ProgressInv /\ LagInv =>
         [PowerCut /\ NeverBack =>
            \A p \in Proc : idx[p] > 0 /\ Readable(diskVersion) =>
                \/ Retry(p)' = "ALLOW"
                \/ /\ Retry(p)' = "UP_TO_DATE"
                   /\ pc[p] \in {"hook", "idle"}
                   /\ pc[p] = "hook" /\ disk = tree => FilesInstalled(pkg[p])'
         ]_<<vars, medium>>
    <2>. SUFFICES ASSUME PowerInv, ProgressInv, LagInv, PowerCut, NeverBack,
                         NEW p \in Proc, idx[p] > 0
                  PROVE  \/ Retry(p)' = "ALLOW"
                         \/ /\ Retry(p)' = "UP_TO_DATE"
                            /\ pc[p] \in {"hook", "idle"}
                            /\ pc[p] = "hook" /\ disk = tree =>
                                  FilesInstalled(pkg[p])'
        OBVIOUS
    <2>1. /\ versionFile' = diskVersion /\ tree' = disk
          /\ pkg' = pkg /\ secret' = secret
        BY PowerCutShape DEF PowerInv
    <2>2. Retry(p)' = fota_downgrade_check(pkg[p].version, OnMedium, secret[p], StoredHash)
        BY <2>1 DEF Retry, OnMedium
    <2>3. Lagging(p) /\ Progress(p)
        BY DEF LagInv, ProgressInv
    <2>4. /\ ~Less(pkg[p].version, OnMedium)
          /\ pc[p] \notin {"hook", "idle"} => Less(OnMedium, pkg[p].version)
        BY <2>3, StartedNotOlder
    <2>5. CASE Less(OnMedium, pkg[p].version)
        BY <2>2, <2>5, VersionsTyped, DowngradeDecision
    <2>6. CASE ~Less(OnMedium, pkg[p].version)
        <3>1. OnMedium = pkg[p].version
            BY <2>4, <2>6, VersionsTyped, LessTrichotomy
        <3>2. Retry(p)' = "UP_TO_DATE"
            BY <2>2, <3>1, VersionsTyped, DowngradeDecision
        <3>3. ASSUME pc[p] = "hook", disk = tree
              PROVE  FilesInstalled(pkg[p])'
            <4>1. Accepted(pkg[p]) /\ AllInPlace(pkg[p])
                BY <2>3, <3>3, WritingIsAccepted DEF PowerInv, Progress, Writing
            <4>2. FilesInstalled(pkg[p])
                BY <4>1, VersionsTyped, InPlaceIsInstalled
            <4>. QED  BY <2>1, <3>3, <4>2 DEF FilesInstalled
        <3>. QED  BY <2>4, <2>6, <3>2, <3>3
    <2>. QED  BY <2>5, <2>6
<1>2. PowerInit => ProgressInv
    BY InitProgressInv DEF PowerInit
<1>. QED  BY <1>1, <1>2, InitPowerInv, StepPowerInv, InitLagInv, StepLagInv,
             PTL DEF PowerSpec, PowerCutIsRetryable

=============================================================================
