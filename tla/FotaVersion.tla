----------------------------- MODULE FotaVersion -----------------------------
(***************************************************************************)
(* Firmware versions and the downgrade decision: consumer/src/version.c.   *)
(*                                                                         *)
(* A version is the four numbers of "a.b.c.d".  The version file is        *)
(* modelled by what fota_version_read_installed can make of its text: no   *)
(* file, blank text, text that does not parse, or text that reads as a     *)
(* version.  The text itself is not modelled; how it can be cut short is   *)
(* (ShortWrites).                                                          *)
(***************************************************************************)
EXTENDS Integers, FotaDigest

CONSTANTS
    MaxPart,     \* largest value of one component: 0xFFFFFFFF in the code
    Secret,      \* downgrade secrets an operator may type
    NoSecret     \* no --downgrade-secret, or an empty one

ASSUME MaxPartAssumption == MaxPart \in Nat
ASSUME NoSecretAssumption == NoSecret \notin Secret

Part == 1..4

Version == [Part -> 0..MaxPart]

\* What fota_version_read_installed leaves in *out before it reads anything.
ZeroVersion == [i \in Part |-> 0]

\* Mutant: the comparison starts at the second component.
Less_SkipFirst(a, b) ==
    \E i \in 2..4 : a[i] < b[i] /\ \A j \in 2..(i - 1) : a[j] = b[j]

\* a is smaller at the first component in which a and b differ.
Less(a, b) ==
    \E i \in Part : a[i] < b[i] /\ \A j \in 1..(i - 1) : a[j] = b[j]

fota_version_compare(a, b) ==
    IF Less(a, b) THEN -1 ELSE IF Less(b, a) THEN 1 ELSE 0

-----------------------------------------------------------------------------
(* The version file.                                                       *)

VersionText == {"absent", "blank", "malformed", "version"}

\* v is the number the text reads as, ZeroVersion for a text with none.
VersionFile ==
    {f \in [text : VersionText, v : Version] :
        f.text # "version" => f.v = ZeroVersion}

NoVersionFile == [text |-> "absent", v |-> ZeroVersion]
BlankFile     == [text |-> "blank", v |-> ZeroVersion]
MalformedFile == [text |-> "malformed", v |-> ZeroVersion]

\* Mutant: the last component is not written, and still it would parse.
FileOf_ThreeParts(v) == [text |-> "version", v |-> [i \in 1..3 |-> v[i]]]

FileOf(v) == [text |-> "version", v |-> v]

\* fota_version_read_installed returns FOTA_VERSION_READ_OK.
Readable(f) == f.text # "malformed"

\* What it then stores in *out: a missing or blank file reads as 0.0.0.0.
fota_version_read_installed(f) ==
    IF f.text = "version" THEN f.v ELSE ZeroVersion

\* The last component is cut to its leading digits: 12 is left as 1.
Tens == {10, 100, 1000, 10000, 100000, 1000000, 10000000, 100000000,
         1000000000}

CutLast(v) ==
    {[v EXCEPT ![4] = v[4] \div t] : t \in {u \in Tens : u <= v[4]}}

\* What "a.b.c.d\n" leaves in the file when only part of it is written:
\* nothing, a text with too few components, a shorter last component, or
\* all but the newline.
ShortWrites(v) ==
    {BlankFile, MalformedFile, FileOf(v)} \cup {FileOf(w) : w \in CutLast(v)}

-----------------------------------------------------------------------------
(* The downgrade decision.                                                 *)

\* hash is a set: empty when no (or no usable) downgrade_secret.hash exists.
SecretMatches(secret, hash) ==
    /\ secret # NoSecret
    /\ EVP_sha256(secret) \in hash

\* Mutant: any secret will do.
fota_downgrade_check_AnySecret(new, installed, secret, hash) ==
    CASE Less(installed, new) -> "ALLOW"
      [] new = installed -> "UP_TO_DATE"
      [] OTHER -> IF secret # NoSecret THEN "ALLOW" ELSE "BLOCKED"


fota_downgrade_check(new, installed, secret, hash) ==
    CASE fota_version_compare(new, installed) > 0 -> "ALLOW"
      [] fota_version_compare(new, installed) = 0 -> "UP_TO_DATE"
      [] fota_version_compare(new, installed) < 0 ->
            IF SecretMatches(secret, hash) THEN "ALLOW" ELSE "BLOCKED"

=============================================================================
