-------------------------------- MODULE Blob --------------------------------
(***************************************************************************)
(* The fixed header and the sections of a package: build_header and        *)
(* assemble of packager/fota_secure/blob.py, fota_header_parse of          *)
(* consumer/src/header.c and the split in main().  A blob is a sequence of *)
(* bytes; sections are kept at their real sizes.                           *)
(***************************************************************************)
EXTENDS Integers, SequencesExt

MAGIC == <<70, 79, 84, 83>>   \* "FOTS"
FORMAT_VERSION == 1
PLATFORM_TAG_SIZE == 16
FW_VERSION_SIZE == 12
IV_SIZE == 16
SIGNATURE_SIZE == 256
HEADER_SIZE == 51
UINT16_MAX == 65535

Zeros(n) == [i \in 1..n |-> 0]

-----------------------------------------------------------------------------
(* The packager.  {} stands for a BlobFormatError.                         *)

Padded(value, size) == value \o Zeros(size - Len(value))

\* Mutant: the length is packed low byte first.
pack_uint16_Little(n) == <<n % 256, n \div 256>>

pack_uint16(n) == <<n \div 256, n % 256>>

\* The part of the header that says what the package is for.
Identity(platform_tag, fw_version) ==
    Append(MAGIC, FORMAT_VERSION)
        \o Padded(platform_tag, PLATFORM_TAG_SIZE)
        \o Padded(fw_version, FW_VERSION_SIZE)

build_header(platform_tag, fw_version, iv, wrapped_key_len) ==
    IF /\ Len(platform_tag) <= PLATFORM_TAG_SIZE
       /\ Len(fw_version) <= FW_VERSION_SIZE
       /\ Len(iv) = IV_SIZE
       /\ wrapped_key_len \in 0..UINT16_MAX
    THEN {Identity(platform_tag, fw_version) \o pack_uint16(wrapped_key_len) \o iv}
    ELSE {}

\* A signature has another size when the key is no key of 2048 bits.
assemble(header, wrapped_key, signature, payload) ==
    IF Len(header) = HEADER_SIZE /\ Len(signature) = SIGNATURE_SIZE
    THEN {header \o wrapped_key \o signature \o payload}
    ELSE {}

-----------------------------------------------------------------------------
(* The device.  {} stands for a malformed header or a truncated package.   *)

\* n bytes from an offset that starts at 0.
Bytes(data, offset, n) == SubSeq(data, offset + 1, offset + n)

fota_header_parse(data) ==
    IF /\ Len(data) >= HEADER_SIZE
       /\ Bytes(data, 0, 4) = MAGIC
       /\ data[5] = FORMAT_VERSION
    THEN {[platform_tag |-> Bytes(data, 5, PLATFORM_TAG_SIZE),
           fw_version |-> Bytes(data, 21, FW_VERSION_SIZE),
           wrapped_key_len |-> 256 * data[34] + data[35],
           iv |-> Bytes(data, 35, IV_SIZE)]}
    ELSE {}

platform_tag_matches(header_tag, configured) ==
    /\ Len(configured) <= PLATFORM_TAG_SIZE
    /\ header_tag = Padded(configured, PLATFORM_TAG_SIZE)

\* Mutant: the header is not part of what is signed.
SignedData_NoHeader(data, wrapped_key, ciphertext) == wrapped_key \o ciphertext

SignedData(data, wrapped_key, ciphertext) ==
    Bytes(data, 0, HEADER_SIZE) \o wrapped_key \o ciphertext

\* The sections of a package, and the bytes the signature is checked over.
Sections(data) ==
    {LET wrapped_key_end == HEADER_SIZE + h.wrapped_key_len
         signature_end == wrapped_key_end + SIGNATURE_SIZE
         wrapped_key == Bytes(data, HEADER_SIZE, h.wrapped_key_len)
         ciphertext == Bytes(data, signature_end, Len(data) - signature_end)
     IN  [header |-> h, wrapped_key |-> wrapped_key,
          signature |-> Bytes(data, wrapped_key_end, SIGNATURE_SIZE),
          ciphertext |-> ciphertext,
          signed_data |-> SignedData(data, wrapped_key, ciphertext)] :
        h \in {g \in fota_header_parse(data) :
            Len(data) >= HEADER_SIZE + g.wrapped_key_len + SIGNATURE_SIZE}}

=============================================================================
