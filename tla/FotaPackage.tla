---------------------------- MODULE FotaPackage ----------------------------
(***************************************************************************)
(* A package as the updater sees it, and what it takes to be let through:  *)
(* the checks of main() in consumer/src/main.c, without their order.       *)
(***************************************************************************)
EXTENDS FotaVersion, FotaInstaller

CONSTANT PlatformTag   \* FOTA_CONFIG_PLATFORM_TAG

\* A package is what the consumer can find out about a blob: each field is
\* the outcome of one check, entries the tarball it decrypts to.
IsPackage(k) ==
    /\ k.header \in BOOLEAN          \* fota_header_parse accepts it
    /\ k.version \in Version
    /\ k.versioned \in BOOLEAN       \* fw_version parses (as k.version)
    /\ k.whole \in BOOLEAN           \* data_len >= signature_end
    /\ k.len \in Nat                 \* ciphertext_len
    /\ k.signed \in BOOLEAN          \* the signature verifies
    /\ k.unwraps \in BOOLEAN         \* the wrapped key is for this device
    /\ k.decrypts \in BOOLEAN        \* the CBC padding is intact
    /\ k.unpack \in {"OK", "DECOMPRESS_FAILED", "DECOMPRESSED_TOO_LARGE",
                     "MALFORMED_TAR", "UNSAFE_PATH", "UNSUPPORTED_ENTRY"}
    /\ k.entries \in Seq(Entry)      \* the tar entries, if unpack is OK

-----------------------------------------------------------------------------

Parents(n) == {SubSeq(n, 1, i) : i \in 1..(Len(n) - 1)}

PathsOf(k) == UNION {{k.entries[i].path} \cup Parents(k.entries[i].path) :
                        i \in DOMAIN k.entries}

INT32_MAX == 2147483647

DecryptOk(k) == k.decrypts /\ k.len \in 1..INT32_MAX

\* What fota_installer_extract returns before it writes anything.
Validation(k) ==
    IF k.unpack = "OK" THEN fota_verify_manifest(k.entries) ELSE k.unpack

Accepted(k) ==
    /\ k.header /\ k.platform = PlatformTag /\ k.versioned /\ k.whole
    /\ k.signed /\ k.unwraps /\ DecryptOk(k)
    /\ Validation(k) = "OK"

=============================================================================
