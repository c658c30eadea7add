----------------------------- MODULE FotaDigest -----------------------------
(***************************************************************************)
(* libcrypto's SHA-256, as the consumer uses it: equal digests are taken   *)
(* to mean equal data, and a digest is never the data itself.              *)
(***************************************************************************)

EVP_sha256(data) == [sha256 |-> data]

=============================================================================
