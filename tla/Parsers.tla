------------------------------ MODULE Parsers ------------------------------
(***************************************************************************)
(* The functions that read bytes, each called once: octal fields of a tar  *)
(* header, version texts, manifest.json, the header and sections of a      *)
(* package.  Each answer is compared with what the bytes mean, or with     *)
(* what the packager or the updater itself had written.                    *)
(***************************************************************************)
EXTENDS TarField, VersionText, ManifestJson, Blob

CONSTANTS
    OctalField,      \* arguments of parse_octal_field
    VersionField,    \* arguments of fota_version_parse
    WrittenVersion,  \* versions that are written to the version file
    ManifestDict,    \* manifests for json.dumps
    Package,         \* arguments of build_header and assemble
    Received         \* blobs handed to the device

Byte == 0..255

\* Each byte of a field is of one of the kinds that TarField tells apart.
ASSUME FieldAssumption == OctalField \subseteq Seq(OctalDigit \cup {Pad, Odd})

\* So is each byte of a version text, of those that VersionText knows.
ASSUME VersionFieldAssumption == VersionField \subseteq Seq(Character)

ASSUME WrittenAssumption == WrittenVersion \subseteq Version

\* A manifest has texts, and for each file 64 digits (manifest.py 53-64).
Digest == {d \in Seq(Symbol) : /\ Characters(d) = 64
                               /\ Range(d) \cap {Quote, Backslash, Special} = {}}

ASSUME DictAssumption ==
    \A m \in ManifestDict :
        /\ m.platform \in Seq(Symbol) /\ m.fw_version \in Seq(Symbol)
        /\ m.files \in Seq([path : Seq(Symbol), sha256 : Digest])

\* Arguments are bytes; a platform tag comes from the command line, where no
\* NUL can be.
ASSUME PackageAssumption ==
    \A k \in Package :
        /\ k.platform \in Seq(Byte \ {0})
        /\ {k.fw_version, k.wrapped_key, k.signature, k.payload} \subseteq Seq(Byte)

ASSUME ReceivedAssumption == Received \subseteq Seq(Byte)

VARIABLES
    call,     \* the function and its argument
    answer    \* its result, once it has returned

vars == <<call, answer>>

Pending == [returned |-> FALSE, value |-> {}]

PackedBlob(k) ==
    UNION {assemble(h, k.wrapped_key, k.signature, k.payload) :
        h \in build_header(k.platform, k.fw_version, Zeros(IV_SIZE),
                           Len(k.wrapped_key))}

SignatureEnd(k) == HEADER_SIZE + Len(k.wrapped_key) + SIGNATURE_SIZE

\* The interesting places to cut a blob off.
Cuts(k) ==
    {0, HEADER_SIZE - 1, HEADER_SIZE} \cup
    (SignatureEnd(k) - 1)..(SignatureEnd(k) + Len(k.payload))

Init ==
    /\ answer = Pending
    /\ \/ \E f \in OctalField : call = [of |-> "parse_octal_field", on |-> f]
       \/ \E f \in VersionField : call = [of |-> "fota_version_parse", on |-> f]
       \/ \E v \in WrittenVersion :
            call = [of |-> "fota_version_read_installed", on |-> v]
       \/ \E m \in ManifestDict : \E n \in 0..Len(dumps(m)) :
            call = [of |-> "parse_manifest_files", on |-> m, cut |-> n]
       \/ \E k \in Package : \E n \in Cuts(k) :
            call = [of |-> "main", on |-> k, cut |-> n]
       \/ \E a, b \in Received : call = [of |-> "fota_verify_signature", on |-> <<a, b>>]

Answers(function, value) ==
    /\ ~answer.returned /\ call.of = function
    /\ answer' = [returned |-> TRUE, value |-> value]
    /\ UNCHANGED call

OctalAnswers ==
    call.of = "parse_octal_field"
    /\ Answers("parse_octal_field", parse_octal_field(call.on))

VersionAnswers ==
    call.of = "fota_version_parse"
    /\ Answers("fota_version_parse", fota_version_parse(call.on))

\* What the version file reads as after a write that was cut short anywhere.
FileAnswers ==
    call.of = "fota_version_read_installed"
    /\ Answers("fota_version_read_installed",
               {Reading(SubSeq(Line(call.on), 1, n)) : n \in 0..Len(Line(call.on))})

ManifestAnswers ==
    call.of = "parse_manifest_files"
    /\ Answers("parse_manifest_files",
               parse_manifest_files(SubSeq(dumps(call.on), 1, call.cut)))

SplitAnswers ==
    call.of = "main"
    /\ Answers("main",
               UNION {Sections(SubSeq(b, 1, call.cut)) : b \in PackedBlob(call.on)})

SignedAnswers ==
    call.of = "fota_verify_signature"
    /\ Answers("fota_verify_signature",
               Sections(call.on[1]) \X Sections(call.on[2]))

Next ==
    \/ OctalAnswers \/ VersionAnswers \/ FileAnswers
    \/ ManifestAnswers \/ SplitAnswers \/ SignedAnswers

Spec == Init /\ [][Next]_vars

-----------------------------------------------------------------------------
(* Properties.                                                             *)

Returned(function) == answer.returned /\ call.of = function

\* parse_octal_field accepts the fields that hold a number, and returns that
\* number; n bytes never make more than n digits can, so that with twelve
\* bytes no size overflows.
FieldHoldsNumber ==
    Returned("parse_octal_field") =>
        /\ answer.value = NumbersIn(call.on)
        /\ \A value \in answer.value : value < Place(8, Len(call.on))

\* fota_version_parse accepts exactly four numbers between three dots, none
\* above the bound, and returns them: no digit is lost, no number wraps.
VersionIsMeant ==
    Returned("fota_version_parse") => answer.value = VersionsIn(call.on)

\* A version file that was not written to its end reads as one of the things
\* ShortWrites says, and each of them can happen; a whole one reads back.
CutVersionReads ==
    Returned("fota_version_read_installed") =>
        /\ answer.value = ShortWrites(call.on)
        /\ Reading(Line(call.on)) = FileOf(call.on)

\* The device reads from a manifest exactly what the packager wrote, if no
\* file name has to be escaped as \uXXXX, and refuses it otherwise.
ManifestReadsBack ==
    Returned("parse_manifest_files") /\ call.cut = Len(dumps(call.on)) =>
        answer.value =
            IF /\ KeyIsFirst(call.on)
               /\ \A i \in DOMAIN call.on.files : Listable(call.on.files[i])
            THEN {call.on.files} ELSE {}

\* A manifest that was cut off is never read as a shorter list of files.
CutManifestIsNoticed ==
    Returned("parse_manifest_files") => answer.value \subseteq {call.on.files}

\* main() splits a package into the sections it was assembled from; of one
\* that was cut off it misses nothing but ciphertext, or refuses it.  The
\* platform tag matches no other tag.
PackedIsSplit ==
    Returned("main") =>
        IF \/ build_header(call.on.platform, call.on.fw_version, Zeros(IV_SIZE),
                           Len(call.on.wrapped_key)) = {}
           \/ Len(call.on.signature) # SIGNATURE_SIZE
           \/ call.cut < SignatureEnd(call.on)
        THEN answer.value = {}
        ELSE answer.value # {} /\ \A s \in answer.value :
            /\ s.wrapped_key = call.on.wrapped_key
            /\ s.signature = call.on.signature
            /\ s.ciphertext = SubSeq(call.on.payload, 1, call.cut - SignatureEnd(call.on))
            /\ s.header.fw_version = Padded(call.on.fw_version, FW_VERSION_SIZE)
            /\ s.header.iv = Zeros(IV_SIZE)
            /\ \A k \in Package :
                  platform_tag_matches(s.header.platform_tag, k.platform)
                      <=> k.platform = call.on.platform

\* The bytes that are signed fix the package: two packages over which the
\* same signature is checked have the same header, and so the same platform
\* and version, and the same wrapped key and ciphertext.
SignedDataFixesSections ==
    Returned("fota_verify_signature") =>
        \A pair \in answer.value :
            pair[1].signed_data = pair[2].signed_data =>
                /\ pair[1].header = pair[2].header
                /\ pair[1].wrapped_key = pair[2].wrapped_key
                /\ pair[1].ciphertext = pair[2].ciphertext

=============================================================================
