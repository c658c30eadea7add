---------------------------- MODULE GunzipProofs ----------------------------
(***************************************************************************)
(* The decompression buffer, for every chunk, cap and stream.              *)
(***************************************************************************)
EXTENDS Gunzip, TLAPS

\* What the counts mean: nothing comes out of a stream that is not in it, a
\* buffer exists once the arguments are accepted, and each verdict has its
\* reason.
IInv ==
    /\ TypeOK
    /\ total <= gz_data.size
    /\ capacity = 0 => total = 0
    /\ OkMeansWhole
    /\ FailureIsJustified

LEMMA InitIInv == Init => IInv
BY StreamAssumption, MaxOutputSizeAssumption
   DEF Init, IInv, TypeOK, OkMeansWhole, FailureIsJustified, Result,
       IsStream

\* One answer of inflate: it stays within the room and the stream, and the
\* verdict on it has a reason.
LEMMA InflateIsJustified ==
    ASSUME IInv, NEW produced \in Nat, NEW avail_in \in BOOLEAN, NEW zret,
           total < capacity, inflate(capacity - total, produced, zret, avail_in)
    PROVE  /\ total + produced <= gz_data.size
           /\ total + produced <= capacity
           /\ LET r == Verdict(zret, avail_in, capacity - total - produced)
              IN  /\ r \in {"RUNNING", "OK", "DECOMPRESS_FAILED"}
                  /\ r = "OK" => /\ gz_data.end = "whole"
                                 /\ total + produced = gz_data.size
                  /\ r = "DECOMPRESS_FAILED" => gz_data.end # "whole" \/ ~memory
<1>1. /\ gz_data.size \in Nat /\ capacity \in Nat /\ total \in Nat
      /\ total <= gz_data.size
    BY StreamAssumption, MaxOutputSizeAssumption DEF IInv, TypeOK, IsStream
<1>. QED  BY <1>1 DEF inflate, Verdict

LEMMA StepIInv == IInv /\ [Next]_vars => IInv'
<1>. SUFFICES ASSUME IInv, [Next]_vars
              PROVE  IInv'
    OBVIOUS
<1>1. /\ gz_data \in Stream /\ gz_data.size \in Nat
      /\ max_output_size \in MaxOutputSize /\ max_output_size \in Nat
      /\ capacity \in Nat /\ total \in Nat /\ FOTA_GUNZIP_CHUNK \in Nat \ {0}
    BY StreamAssumption, MaxOutputSizeAssumption, ChunkAssumption
       DEF IInv, TypeOK, IsStream
<1>2. CASE Begin
    BY <1>1, <1>2 DEF Begin, Return, arguments, Least, Result, IInv, TypeOK,
                      OkMeansWhole, FailureIsJustified
<1>3. CASE Grow
    BY <1>1, <1>3 DEF Grow, Return, arguments, Least, Result, IInv, TypeOK,
                      OkMeansWhole, FailureIsJustified
<1>4. CASE Inflate
    <2>1. PICK produced \in 0..(capacity - total), avail_in \in BOOLEAN,
               zret \in {"OK", "STREAM_END", "DATA_ERROR", "BUF_ERROR",
                         "MEM_ERROR"} :
            /\ inflate(capacity - total, produced, zret, avail_in)
            /\ total' = total + produced
            /\ result' = Verdict(zret, avail_in, capacity - total - produced)
        BY <1>4 DEF Inflate
    <2>2. total < capacity /\ UNCHANGED <<arguments, capacity>>
        BY <1>4 DEF Inflate
    <2>3. produced \in Nat
        BY <1>1, <2>1
    <2>4. /\ total' <= gz_data.size /\ total' \in 0..capacity
          /\ result' \in {"RUNNING", "OK", "DECOMPRESS_FAILED"}
          /\ result' = "OK" => gz_data.end = "whole" /\ total' = gz_data.size
          /\ result' = "DECOMPRESS_FAILED" => gz_data.end # "whole" \/ ~memory
        BY <1>1, <2>1, <2>2, <2>3, InflateIsJustified
    <2>. QED  BY <1>1, <2>2, <2>4
              DEF arguments, Result, IInv, TypeOK, OkMeansWhole,
                  FailureIsJustified
<1>5. CASE UNCHANGED vars
    BY <1>5 DEF vars, IInv, TypeOK, OkMeansWhole, FailureIsJustified
<1>. QED  BY <1>2, <1>3, <1>4, <1>5 DEF Next

\* The buffer never grows past the cap, nor is written past its end.
THEOREM CapIsKept == Spec => []TypeOK
<1>1. IInv => TypeOK
    BY DEF IInv
<1>. QED  BY <1>1, InitIInv, StepIInv, PTL DEF Spec

\* What is returned as decompressed is the whole of a whole stream.
THEOREM OkIsWhole == Spec => []OkMeansWhole
<1>1. IInv => OkMeansWhole
    BY DEF IInv
<1>. QED  BY <1>1, InitIInv, StepIInv, PTL DEF Spec

\* No stream is turned away without a reason.
THEOREM Justified == Spec => []FailureIsJustified
<1>1. IInv => FailureIsJustified
    BY DEF IInv
<1>. QED  BY <1>1, InitIInv, StepIInv, PTL DEF Spec

=============================================================================
