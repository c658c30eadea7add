------------------------------ MODULE MCGunzip ------------------------------
(***************************************************************************)
(* Values for Gunzip: a chunk of 3 bytes, caps below it, at it, between    *)
(* two doublings and at one, and streams of every size up to past them.    *)
(***************************************************************************)
EXTENDS Gunzip

MCStream == [size : 0..14, end : {"whole", "truncated", "corrupt", "empty"}]

MCMaxOutputSize == {0, 2, 3, 8, 12}

=============================================================================
