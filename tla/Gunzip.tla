------------------------------- MODULE Gunzip -------------------------------
(***************************************************************************)
(* fota_gunzip of consumer/src/installer.c: a growing buffer that inflate  *)
(* fills until the stream ends or the buffer is at its cap.                *)
(*                                                                         *)
(* Bytes are counted, not kept.  A stream is the number of bytes that come *)
(* out of it and what is found after them; inflate is zlib's, modelled by  *)
(* what zlib.h lets it return: it goes on until the output is full or the  *)
(* input used up, and it may or may not notice the end of the stream in    *)
(* the call that fills the output.                                         *)
(***************************************************************************)
EXTENDS Integers

CONSTANTS
    FOTA_GUNZIP_CHUNK,  \* first capacity of the buffer
    Stream,             \* the compressed inputs
    MaxOutputSize       \* the caps the function is called with

IsStream(s) == s.size \in Nat /\ s.end \in {"whole", "truncated", "corrupt", "empty"}

ASSUME ChunkAssumption == FOTA_GUNZIP_CHUNK \in Nat \ {0}
ASSUME StreamAssumption == \A s \in Stream : IsStream(s)
ASSUME MaxOutputSizeAssumption == MaxOutputSize \subseteq Nat

VARIABLES
    gz_data,          \* the argument: a stream
    max_output_size,  \* the argument: the cap
    memory,           \* FALSE: an allocation may fail
    capacity,         \* size of the buffer, 0 before there is one
    total,            \* bytes of it that are filled
    result            \* what is returned, RUNNING before that

vars == <<gz_data, max_output_size, memory, capacity, total, result>>

arguments == <<gz_data, max_output_size, memory>>

Result == {"RUNNING", "OK", "INVALID_ARG", "DECOMPRESS_FAILED",
           "DECOMPRESSED_TOO_LARGE"}

Least(a, b) == IF a < b THEN a ELSE b

Init ==
    /\ gz_data \in Stream
    /\ max_output_size \in MaxOutputSize
    /\ memory \in BOOLEAN
    /\ capacity = 0 /\ total = 0
    /\ result = "RUNNING"

Return(r) == result' = r /\ UNCHANGED <<arguments, capacity, total>>

\* Mutant: the first buffer is a whole chunk whatever the cap.
Begin_WholeChunk ==
    /\ result = "RUNNING" /\ capacity = 0
    /\ \/ /\ gz_data.end = "empty" \/ max_output_size = 0
          /\ Return("INVALID_ARG")
       \/ /\ gz_data.end # "empty" /\ max_output_size > 0
          /\ \/ ~memory /\ Return("DECOMPRESS_FAILED")
             \/ /\ capacity' = FOTA_GUNZIP_CHUNK
                /\ UNCHANGED <<arguments, total, result>>

\* Up to the loop: the arguments, inflateInit2 and the first malloc.
Begin ==
    /\ result = "RUNNING" /\ capacity = 0
    /\ \/ /\ gz_data.end = "empty" \/ max_output_size = 0
          /\ Return("INVALID_ARG")
       \/ /\ gz_data.end # "empty" /\ max_output_size > 0
          /\ \/ ~memory /\ Return("DECOMPRESS_FAILED")
             \/ /\ capacity' = Least(FOTA_GUNZIP_CHUNK, max_output_size)
                /\ UNCHANGED <<arguments, total, result>>

\* Mutant: gives up when doubling would pass the cap.
Grow_OnlyDoubles ==
    /\ result = "RUNNING" /\ capacity > 0 /\ total = capacity
    /\ \/ capacity * 2 > max_output_size /\ Return("DECOMPRESSED_TOO_LARGE")
       \/ /\ capacity * 2 <= max_output_size
          /\ \/ ~memory /\ Return("DECOMPRESS_FAILED")
             \/ /\ capacity' = capacity * 2
                /\ UNCHANGED <<arguments, total, result>>

\* The head of an iteration that finds the buffer full.
Grow ==
    /\ result = "RUNNING" /\ capacity > 0 /\ total = capacity
    /\ \/ capacity >= max_output_size /\ Return("DECOMPRESSED_TOO_LARGE")
       \/ /\ capacity < max_output_size
          /\ \/ ~memory /\ Return("DECOMPRESS_FAILED")
             \/ /\ capacity' = Least(capacity * 2, max_output_size)
                /\ UNCHANGED <<arguments, total, result>>

\* What inflate does when given room: it writes produced bytes, returns zret
\* and leaves input unread or not.
inflate(room, produced, zret, avail_in) ==
    LET left == gz_data.size - total
    IN  \/ room <= left /\ produced = room /\ zret = "OK"
        \/ /\ left <= room /\ produced = left
           /\ \/ gz_data.end = "whole" /\ zret = "STREAM_END"
              \/ gz_data.end = "corrupt" /\ zret = "DATA_ERROR"
              \/ gz_data.end = "truncated" /\ zret = "OK" /\ ~avail_in
              \/ gz_data.end = "truncated" /\ left = 0 /\ zret = "BUF_ERROR"
        \/ ~memory /\ produced = 0 /\ zret = "MEM_ERROR"

\* Mutant: running out of input ends the loop like the end of the stream.
Verdict_InputIsEnd(zret, avail_in, avail_out) ==
    CASE zret \notin {"OK", "STREAM_END"} -> "DECOMPRESS_FAILED"
      [] zret = "OK" /\ ~avail_in /\ avail_out > 0 -> "OK"
      [] zret = "STREAM_END" -> "OK"
      [] OTHER -> "RUNNING"

\* Mutant: a truncated stream is not noticed.
Verdict_NoProgress(zret, avail_in, avail_out) ==
    CASE zret \notin {"OK", "STREAM_END", "BUF_ERROR"} -> "DECOMPRESS_FAILED"
      [] zret = "STREAM_END" -> "OK"
      [] OTHER -> "RUNNING"

\* What the loop makes of an answer of inflate.
Verdict(zret, avail_in, avail_out) ==
    CASE zret \notin {"OK", "STREAM_END"} -> "DECOMPRESS_FAILED"
      [] zret = "OK" /\ ~avail_in /\ avail_out > 0 -> "DECOMPRESS_FAILED"
      [] zret = "STREAM_END" -> "OK"
      [] OTHER -> "RUNNING"

\* The rest of an iteration.
Inflate ==
    /\ result = "RUNNING" /\ total < capacity
    /\ \E produced \in 0..(capacity - total), avail_in \in BOOLEAN,
          zret \in {"OK", "STREAM_END", "DATA_ERROR", "BUF_ERROR", "MEM_ERROR"} :
        /\ inflate(capacity - total, produced, zret, avail_in)
        /\ total' = total + produced
        /\ result' = Verdict(zret, avail_in, capacity - total - produced)
    /\ UNCHANGED <<arguments, capacity>>

Next == Begin \/ Grow \/ Inflate

Spec == Init /\ [][Next]_vars /\ WF_vars(Next)

-----------------------------------------------------------------------------

\* Type invariant, the cap included: "aborting ... before allocating past
\* max_output_size" (installer.h), and never writing past the buffer.
TypeOK ==
    /\ gz_data \in Stream
    /\ max_output_size \in MaxOutputSize
    /\ memory \in BOOLEAN
    /\ capacity \in 0..max_output_size
    /\ total \in 0..capacity
    /\ result \in Result

\* What is returned as decompressed is the whole of a stream that is whole.
OkMeansWhole ==
    result = "OK" => gz_data.end = "whole" /\ total = gz_data.size

\* A stream is turned away only for a reason: it is as large as the cap or
\* larger, or it is damaged, or memory ran out.  A whole stream below the cap
\* gets through however the buffer has to grow.
FailureIsJustified ==
    /\ result = "DECOMPRESSED_TOO_LARGE" => gz_data.size >= max_output_size
    /\ result = "DECOMPRESS_FAILED" => gz_data.end # "whole" \/ ~memory

\* The loop ends for every stream, truncated ones included.
EveryStreamEnds == <>(result # "RUNNING")

=============================================================================
