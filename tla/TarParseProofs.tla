--------------------------- MODULE TarParseProofs ---------------------------
(***************************************************************************)
(* The table of entries, for buffers of any length over any blocks.        *)
(***************************************************************************)
EXTENDS PackedTar, SequenceLemmas, FiniteSetTheorems

\* Whatever block it reaches, the loop has accounted for all blocks before.
Covered == \A k \in Nat : k * BLOCK_SIZE < offset => Accounted(k * BLOCK_SIZE)

\* The entries end where the next header is read: this is what keeps a new
\* entry apart from all earlier ones.
EntriesEnd ==
    \A i \in DOMAIN out : out[i].data + out[i].size <= offset

IInv ==
    /\ TypeOK
    /\ offset <= tar_len(tar_data)
    /\ EntriesEnd
    /\ EntriesAreApart
    /\ \A i \in DOMAIN out : fota_tar_path_is_safe(out[i].path)
    /\ result \in {"RUNNING", "OK"} => Covered
    /\ result = "OK" => /\ offset + BLOCK_SIZE <= tar_len(tar_data)
                        /\ Header.zero

\* Whole blocks up to an offset at which another one fits.
LEMMA BlockIndex ==
    ASSUME NEW at \in Nat, NEW len \in Nat, NEW partial \in 0..511,
           at % 512 = 0, at + 512 <= 512 * len + partial
    PROVE  at \div 512 \in 0..(len - 1)
OBVIOUS

\* A size rounded up to blocks.
LEMMA RoundUp ==
    ASSUME NEW size \in Nat
    PROVE  LET q == (size + 511) \div 512
           IN  q \in Nat /\ size <= q * 512 /\ q * 512 < size + 512
OBVIOUS

LEMMA LengthIsNat ==
    ASSUME NEW a, IsBuffer(a)
    PROVE  tar_len(a) \in Nat
<1>. DEFINE len == Len(a.blocks)
            partial == a.partial
<1>1. len \in Nat /\ partial \in Nat
    <2>1. len \in Nat
        BY DEF IsBuffer
    <2>2. partial \in Nat
        <3>1. a.partial \in 0..(BLOCK_SIZE - 1)
            BY DEF IsBuffer
        <3>. QED  BY <3>1 DEF BLOCK_SIZE
    <2>. QED  BY <2>1, <2>2
<1>. HIDE DEF len, partial
<1>2. 512 * len + partial \in Nat
    BY <1>1
<1>. QED  BY <1>2 DEF tar_len, len, partial, BLOCK_SIZE

\* A header that is read lies in the buffer.
LEMMA HeaderIsBlock ==
    ASSUME TypeOK, offset + BLOCK_SIZE <= tar_len(tar_data)
    PROVE  /\ offset \div BLOCK_SIZE \in 0..(Len(tar_data.blocks) - 1)
           /\ Header \in Block /\ IsBlock(Header)
<1>1. /\ offset \in Nat /\ offset % 512 = 0 /\ Len(tar_data.blocks) \in Nat
      /\ tar_data.partial \in 0..511 /\ tar_data.blocks \in Seq(Block)
    BY DEF TypeOK, IsBuffer, BLOCK_SIZE
<1>2. offset + 512 <= 512 * Len(tar_data.blocks) + tar_data.partial
    BY DEF tar_len, BLOCK_SIZE
<1>3. offset \div 512 \in 0..(Len(tar_data.blocks) - 1)
    BY <1>1, <1>2, BlockIndex, ZenonT(20)
<1>4. Header \in Block
    BY <1>1, <1>3 DEF Header, BLOCK_SIZE
<1>. QED  BY <1>3, <1>4, BlockAssumption DEF BLOCK_SIZE

\* Where the loop goes on after an entry, if nothing is wrong with its size:
\* none of the sums and the product wraps.
LEMMA NextOffsetIs ==
    ASSUME TypeOK, InHeader, EntrySize(Header) \in 0..SizeLimit
    PROVE  LET size == EntrySize(Header)
               q == (size + 511) \div 512
           IN  /\ q \in Nat /\ size <= q * 512 /\ q * 512 < size + 512
               /\ next_offset(offset, Header) = offset + 512 + q * 512
<1>. DEFINE size == EntrySize(Header)
            q == (size + 511) \div 512
<1>1. /\ size \in 0..SizeLimit /\ SizeLimit \in Nat /\ SizeMax \in Nat
    BY SizeAssumption
<1>2. /\ offset \in Nat /\ tar_len(tar_data) \in Nat
      /\ offset + 512 <= tar_len(tar_data)
      /\ tar_len(tar_data) + SizeLimit + 1024 <= SizeMax
    <2>1. tar_len(tar_data) \in Nat
        BY LengthIsNat DEF TypeOK
    <2>. QED  BY <2>1 DEF TypeOK, IsBuffer, InHeader, BLOCK_SIZE
<1>3. q \in Nat /\ size <= q * 512 /\ q * 512 < size + 512
    BY <1>1, RoundUp
<1>4. data_blocks(size) = q
    BY <1>1, <1>2 DEF data_blocks, Wrap, BLOCK_SIZE
<1>5. next_offset(offset, Header) = offset + 512 + q * 512
    BY <1>1, <1>2, <1>3, <1>4 DEF next_offset, Wrap, BLOCK_SIZE
<1>. QED  BY <1>3, <1>5

\* It is past the entry's data, at most one block past, and within the buffer.
LEMMA NextOffset ==
    ASSUME TypeOK, InHeader, Refusal(Header, offset) = "NONE"
    PROVE  LET next == next_offset(offset, Header)
               size == EntrySize(Header)
           IN  /\ size \in Nat
               /\ next \in Nat /\ next % BLOCK_SIZE = 0
               /\ offset + BLOCK_SIZE + size <= next
               /\ next < offset + BLOCK_SIZE + size + BLOCK_SIZE
               /\ next <= tar_len(tar_data)
<1>. DEFINE size == EntrySize(Header)
            q == (size + 511) \div 512
<1>1. IsBlock(Header)
    BY HeaderIsBlock DEF InHeader
<1>2. size \in 0..SizeLimit /\ SizeLimit \in Nat
    <2>1. Header.size # NoValue
        BY DEF Refusal
    <2>2. Header.size \in 0..(SizeLimit - 1) /\ SizeLimit \in Nat
        BY <1>1, <2>1, SizeAssumption DEF IsBlock
    <2>. QED  BY <2>2 DEF EntrySize
<1>3. /\ offset \in Nat /\ offset % 512 = 0 /\ tar_len(tar_data) \in Nat
    BY LengthIsNat DEF TypeOK, BLOCK_SIZE
<1>4. /\ q \in Nat /\ size <= q * 512 /\ q * 512 < size + 512
      /\ next_offset(offset, Header) = offset + 512 + q * 512
    BY <1>2, NextOffsetIs
<1>. HIDE DEF size, q
<1>5. next_offset(offset, Header) <= tar_len(tar_data)
    <2>1. ~(next_offset(offset, Header) > tar_len(tar_data))
        BY DEF Refusal
    <2>. QED  BY <1>3, <1>4, <2>1
<1>. QED  BY <1>2, <1>3, <1>4, <1>5 DEF BLOCK_SIZE, size

LEMMA InitIInv == Init => IInv
BY ArchiveAssumption, LengthIsNat
   DEF Init, IInv, TypeOK, EntriesEnd, EntriesAreApart, Covered, Result,
       BLOCK_SIZE, EntryRecord

\* Returning with an error leaves nothing to be shown of the entries.
LEMMA ReturnKeeps ==
    ASSUME IInv, NEW r \in Result \ {"RUNNING", "OK"}, Return(r)
    PROVE  IInv'
BY DEF Return, IInv, TypeOK, EntriesEnd, EntriesAreApart, tar_len, Result,
       EntryRecord, IsBuffer

LEMMA TakeEntryKeeps == IInv /\ TakeEntry => IInv'
<1>. SUFFICES ASSUME IInv, TakeEntry
              PROVE  IInv'
    OBVIOUS
<1>. DEFINE next == next_offset(offset, Header)
            size == EntrySize(Header)
            e == [path |-> Header.path, type |-> EntryType(Header),
                  data |-> offset + BLOCK_SIZE, size |-> size]
            n == Len(out)
<1>1. /\ InHeader /\ Refusal(Header, offset) = "NONE"
      /\ out' = Append(out, e) /\ offset' = next
      /\ tar_data' = tar_data /\ result' = "RUNNING" /\ result = "RUNNING"
    BY DEF TakeEntry, InHeader
<1>2. IsBlock(Header) /\ fota_tar_path_is_safe(Header.path)
    BY <1>1, HeaderIsBlock DEF InHeader, Refusal, IInv
<1>3. /\ size \in Nat /\ next \in Nat /\ next % 512 = 0
      /\ offset + 512 + size <= next
      /\ next < offset + 512 + size + 512
      /\ next <= tar_len(tar_data)
    BY <1>1, NextOffset DEF IInv, BLOCK_SIZE
<1>4. /\ offset \in Nat /\ offset % 512 = 0 /\ n \in Nat
      /\ out \in Seq(EntryRecord)
    BY DEF IInv, TypeOK, BLOCK_SIZE
<1>5. e \in EntryRecord
    BY <1>2, <1>3, <1>4 DEF EntryRecord, IsBlock, EntryType, BLOCK_SIZE
<1>6. /\ Len(out') = n + 1 /\ out'[n + 1] = e /\ DOMAIN out' = 1..(n + 1)
      /\ \A i \in 1..n : out'[i] = out[i] /\ out[i] \in EntryRecord
      /\ DOMAIN out = 1..n
    BY <1>1, <1>4, <1>5
<1>6a. /\ e.data = offset + 512 /\ e.size = size /\ e.path = Header.path
       /\ \A i \in 1..n : out[i].data \in Nat /\ out[i].size \in Nat
       /\ tar_len(tar_data) \in Nat
    BY <1>6, LengthIsNat DEF EntryRecord, BLOCK_SIZE, IInv, TypeOK
<1>. HIDE DEF e, size, next
<1>7. TypeOK'
    BY <1>1, <1>3, <1>4, <1>5
       DEF IInv, TypeOK, BLOCK_SIZE, Result, IsBuffer, tar_len
<1>8. EntriesEnd'
    <2>1. ASSUME NEW i \in 1..(n + 1)
          PROVE  out'[i].data + out'[i].size <= next
        <3>1. CASE i = n + 1
            BY <1>3, <1>4, <1>6, <1>6a, <3>1
        <3>2. CASE i \in 1..n
            <4>1. /\ out[i].data + out[i].size <= offset
                  /\ out[i].data \in Nat /\ out[i].size \in Nat
                BY <1>6, <1>6a, <3>2 DEF IInv, EntriesEnd
            <4>2. offset <= next
                BY <1>3, <1>4
            <4>. QED  BY <1>3, <1>4, <1>6, <3>2, <4>1, <4>2, SMTT(20)
        <3>. QED  BY <1>4, <3>1, <3>2
    <2>. QED  BY <1>1, <1>6, <2>1 DEF EntriesEnd
<1>9. EntriesAreApart'
    <2>1. ASSUME NEW i \in 1..(n + 1)
          PROVE  out'[i].data + out'[i].size <= tar_len(tar_data)
        <3>1. CASE i = n + 1
            <4>1. out'[i].data = offset + 512 /\ out'[i].size = size
                BY <1>6, <1>6a, <3>1
            <4>2. tar_len(tar_data) \in Nat
                BY LengthIsNat DEF IInv, TypeOK
            <4>3. offset + 512 + size <= tar_len(tar_data)
                BY <1>3, <1>4, <4>2
            <4>. QED  BY <4>1, <4>3
        <3>2. CASE i \in 1..n
            BY <1>6, <3>2 DEF IInv, EntriesAreApart
        <3>. QED  BY <1>4, <3>1, <3>2
    <2>2. ASSUME NEW i \in 1..(n + 1), NEW j \in (i + 1)..(n + 1)
          PROVE  out'[i].data + out'[i].size + 512 <= out'[j].data
        <3>1. i \in 1..n
            BY <1>4
        <3>2. CASE j = n + 1
            <4>1. /\ out[i].data + out[i].size <= offset
                  /\ out[i].data \in Nat /\ out[i].size \in Nat
                BY <1>6, <1>6a, <3>1 DEF IInv, EntriesEnd
            <4>2. out'[i] = out[i] /\ out'[j].data = offset + 512
                BY <1>6, <1>6a, <3>1, <3>2
            <4>. QED  BY <1>4, <4>1, <4>2
        <3>3. CASE j # n + 1
            <4>1. j \in (i + 1)..n /\ i \in DOMAIN out
                BY <1>4, <1>6, <3>1, <3>3
            <4>2. out'[i] = out[i] /\ out'[j] = out[j]
                BY <1>4, <1>6, <3>1, <4>1
            <4>3. out[i].data + out[i].size + 512 <= out[j].data
                BY <4>1 DEF IInv, EntriesAreApart, BLOCK_SIZE
            <4>. QED  BY <4>2, <4>3
        <3>. QED  BY <3>2, <3>3
    <2>. QED  BY <1>1, <1>6, <2>1, <2>2 DEF EntriesAreApart, BLOCK_SIZE
<1>10. \A i \in DOMAIN out' : fota_tar_path_is_safe(out'[i].path)
    BY <1>2, <1>4, <1>6, <1>6a DEF IInv
<1>11. Covered'
    <2>. SUFFICES ASSUME NEW k \in Nat, k * 512 < next
                  PROVE  \E i \in DOMAIN out' :
                            \/ k * 512 = out'[i].data - 512
                            \/ /\ out'[i].data <= k * 512
                               /\ k * 512 < out'[i].data + out'[i].size
        BY <1>1 DEF Covered, Accounted, BLOCK_SIZE
    <2>1. CASE k * 512 < offset
        <3>1. PICK i \in 1..n : \/ k * 512 = out[i].data - 512
                                \/ /\ out[i].data <= k * 512
                                   /\ k * 512 < out[i].data + out[i].size
            BY <1>1, <1>6, <2>1 DEF IInv, Covered, Accounted, BLOCK_SIZE
        <3>. QED  BY <1>4, <1>6, <3>1
    <2>2. CASE k * 512 >= offset
        <3>1. \/ k * 512 = offset
              \/ offset + 512 <= k * 512 /\ k * 512 < offset + 512 + size
            BY <1>3, <1>4, <2>2
        <3>2. /\ n + 1 \in DOMAIN out'
              /\ out'[n + 1].data = offset + 512 /\ out'[n + 1].size = size
            BY <1>4, <1>6, <1>6a
        <3>3. \/ k * 512 = out'[n + 1].data - 512
              \/ /\ out'[n + 1].data <= k * 512
                 /\ k * 512 < out'[n + 1].data + out'[n + 1].size
            BY <1>3, <1>4, <3>1, <3>2
        <3>. QED  BY <3>2, <3>3
    <2>. QED  BY <1>4, <2>1, <2>2
<1>. QED  BY <1>1, <1>3, <1>7, <1>8, <1>9, <1>10, <1>11 DEF IInv, tar_len

LEMMA StepIInv == IInv /\ [Next]_vars => IInv'
<1>. SUFFICES ASSUME IInv, [Next]_vars
              PROVE  IInv'
    OBVIOUS
<1>1. CASE RunOut
    BY <1>1, ReturnKeeps DEF RunOut, Result
<1>2. CASE EndOfArchive
    BY <1>2 DEF EndOfArchive, InHeader, Return, IInv, TypeOK, EntriesEnd,
                EntriesAreApart, Covered, Accounted, Header, Result, tar_len,
                IsBuffer
<1>3. CASE Refuse
    <2>1. Refusal(Header, offset) \in Result \ {"RUNNING", "OK"}
        BY <1>3 DEF Refuse, Refusal, Result
    <2>. QED  BY <1>3, <2>1, ReturnKeeps DEF Refuse
<1>4. CASE NoTable
    BY <1>4, ReturnKeeps DEF NoTable, Result
<1>5. CASE TakeEntry
    BY <1>5, TakeEntryKeeps
<1>6. CASE UNCHANGED vars
    BY <1>6 DEF vars, IInv, TypeOK, EntriesEnd, EntriesAreApart, Covered,
                Accounted, Header, tar_len, IsBuffer
<1>. QED  BY <1>1, <1>2, <1>3, <1>4, <1>5, <1>6 DEF Next

\* The type invariant of the tar parser.
THEOREM TypeCorrect == Spec => []TypeOK
<1>1. IInv => TypeOK
    BY DEF IInv
<1>. QED  BY <1>1, InitIInv, StepIInv, PTL DEF Spec

\* The data of every entry lies in the buffer, apart from every other's.
THEOREM EntriesApart == Spec => []EntriesAreApart
<1>1. IInv => EntriesAreApart
    BY DEF IInv
<1>. QED  BY <1>1, InitIInv, StepIInv, PTL DEF Spec

\* A successful parse accounts for every block before the end marker.
THEOREM NothingSkipped == Spec => []NothingIsSkipped
<1>1. IInv => NothingIsSkipped
    <2>. SUFFICES ASSUME IInv, result = "OK"
                  PROVE  NothingIsSkipped
        BY DEF NothingIsSkipped
    <2>1. /\ offset \in Nat
          /\ offset \div 512 \in 0..(Len(tar_data.blocks) - 1)
          /\ Header.zero /\ Len(tar_data.blocks) \in Nat
        BY HeaderIsBlock DEF IInv, TypeOK, BLOCK_SIZE, IsBuffer
    <2>2. \A k \in 0..(offset \div 512 - 1) : k * 512 < offset
        BY <2>1
    <2>. QED  BY <2>1, <2>2
              DEF IInv, Covered, NothingIsSkipped, Header, BLOCK_SIZE
<1>. QED  BY <1>1, InitIInv, StepIInv, PTL DEF Spec

\* A path that the lexical test lets through never leads above its root.
LEMMA SafeStaysInside ==
    ASSUME NEW path \in Seq(STRING), fota_tar_path_is_safe(path)
    PROVE  StaysInside(path)
<1>. DEFINE Up(n) == {i \in 1..n : path[i] = ".."}
            Down(n) == {i \in 1..n : path[i] \notin {"..", ".", ""}}
<1>1. ASSUME NEW n \in DOMAIN path
      PROVE  Cardinality(Up(n)) <= Cardinality(Down(n))
    <2>0. n \in Nat /\ 1..n \subseteq DOMAIN path
        BY Len(path) \in Nat, DOMAIN path = 1..Len(path)
    <2>1. Up(n) = {}
        BY <2>0 DEF fota_tar_path_is_safe
    <2>2. Cardinality({}) = 0
        BY FS_EmptySet
    <2>3. IsFiniteSet(Down(n))
        <3>1. IsFiniteSet(1..n)
            BY <2>0, FS_Interval
        <3>2. Down(n) \subseteq 1..n
            OBVIOUS
        <3>. QED  BY <3>1, <3>2, FS_Subset
    <2>4. Cardinality(Down(n)) \in Nat
        BY <2>3, FS_CardinalityType
    <2>. HIDE DEF Up, Down
    <2>. QED  BY <2>1, <2>2, <2>4
<1>. QED  BY <1>1 DEF StaysInside, fota_tar_path_is_safe

\* No entry leads out of the install directory.
THEOREM StayInside == Spec => []EntriesStayInside
<1>1. IInv => EntriesStayInside
    <2>1. ASSUME IInv, NEW i \in DOMAIN out
          PROVE  StaysInside(out[i].path)
        <3>1. out[i].path \in Seq(STRING) /\ fota_tar_path_is_safe(out[i].path)
            <4>1. out[i] \in EntryRecord
                BY <2>1 DEF IInv, TypeOK
            <4>. QED  BY <2>1, <4>1 DEF IInv, EntryRecord
        <3>. QED  BY <3>1, SafeStaysInside
    <2>. QED  BY <2>1 DEF EntriesStayInside
<1>. QED  BY <1>1, InitIInv, StepIInv, PTL DEF Spec

-----------------------------------------------------------------------------
(* What the packager has written.                                          *)

Added(b) == Append(b.files, b.manifest)

\* The blocks of an archive: the header of the i-th file is at[i] blocks from
\* the start, its data behind it, and the end marker behind the last.
Layout(b, at) ==
    LET all == Added(b)
        n == Len(all)
        blocks == Packed[b]
    IN  /\ at \in [1..(n + 1) -> Nat] /\ at[1] = 0
        /\ Len(blocks) = at[n + 1] + 2
        /\ blocks[at[n + 1] + 1] = ZeroBlock
        /\ \A i \in 1..n :
              /\ at[i + 1] = at[i] + 1 + Len(all[i].blocks)
              /\ at[i + 1] <= at[n + 1]
              /\ blocks[at[i] + 1] = HeaderOf(all[i])
              /\ \A j \in 1..Len(all[i].blocks) :
                    blocks[at[i] + 1 + j] = all[i].blocks[j]

LEMMA AddedFiles ==
    ASSUME NEW b \in Bundle
    PROVE  /\ Added(b) \in Seq(InputFile)
           /\ Len(Added(b)) = Len(b.files) + 1
           /\ Len(Added(b)) \in Nat /\ Len(Added(b)) > 0
           /\ \A i \in 1..Len(Added(b)) : Added(b)[i] \in InputFile
<1>1. b.files \in Seq(InputFile) /\ b.manifest \in InputFile
    BY BundleAssumption
<1>. QED  BY <1>1 DEF Added

LEMMA PlainMember ==
    ASSUME NEW file \in InputFile,
           NEW T, Block \subseteq T, HeaderOf(file) \in T
    PROVE  /\ Member(file) \in Seq(T)
           /\ file.blocks \in Seq(Block) /\ Len(file.blocks) \in Nat
           /\ Len(Member(file)) = 1 + Len(file.blocks)
           /\ Member(file)[1] = HeaderOf(file)
           /\ \A j \in 1..Len(file.blocks) : Member(file)[1 + j] = file.blocks[j]
<1>. DEFINE first == <<HeaderOf(file)>>
            data == file.blocks
<1>1. file.kind = "regular" /\ data \in Seq(Block) /\ Len(data) \in Nat
    BY InputFileAssumption DEF IsPlainFile
<1>2. first \in Seq(T) /\ Len(first) = 1 /\ first[1] = HeaderOf(file)
    OBVIOUS
<1>3. data \in Seq(T)
    BY <1>1, SeqMonotonic
<1>4. Member(file) = first \o data
    BY <1>1 DEF Member
<1>. HIDE DEF first, data
<1>5. /\ first \o data \in Seq(T) /\ Len(first \o data) = Len(first) + Len(data)
      /\ \A j \in 1..Len(first) : (first \o data)[j] = first[j]
      /\ \A j \in 1..Len(data) : (first \o data)[Len(first) + j] = data[j]
    <2>1. first \in Seq(T) /\ data \in Seq(T)
        BY <1>2, <1>3
    <2>. QED  BY <2>1, Joined
<1>. DEFINE m == first \o data
<1>6. /\ m \in Seq(T) /\ Len(m) = 1 + Len(data)
      /\ \A j \in 1..1 : m[j] = first[j]
      /\ \A j \in 1..Len(data) : m[1 + j] = data[j]
    BY <1>2, <1>5
<1>. HIDE DEF m
<1>7. m[1] = HeaderOf(file)
    BY <1>2, <1>6
<1>8. Member(file) = m
    BY <1>4 DEF m
<1>. QED  BY <1>1, <1>6, <1>7, <1>8 DEF data

LEMMA LaidOut ==
    ASSUME NEW b \in Bundle
    PROVE  \E at : Layout(b, at)
<1>. DEFINE all == Added(b)
            n == Len(all)
            T == Block \cup {HeaderOf(f) : f \in InputFile} \cup {ZeroBlock}
            s == [i \in DOMAIN all |-> Member(all[i])]
            flat == FlattenSeq(s)
            end == <<ZeroBlock, ZeroBlock>>
<1>1. /\ all \in Seq(InputFile) /\ n \in Nat /\ n > 0
      /\ \A i \in 1..n : all[i] \in InputFile
    BY AddedFiles
<1>2. Packed[b] = flat \o end
    BY DEF Packed, stage_and_compress, Added
<1>3. end \in Seq(T) /\ Len(end) = 2 /\ end[1] = ZeroBlock
    OBVIOUS
<1>4. DOMAIN all = 1..n
    BY <1>1
<1>. HIDE DEF all
<1>5. \A i \in 1..n : Block \subseteq T /\ HeaderOf(all[i]) \in T
    BY <1>1
<1>. HIDE DEF T
<1>6. \A i \in 1..n :
         /\ Member(all[i]) \in Seq(T) /\ Len(all[i].blocks) \in Nat
         /\ Len(Member(all[i])) = 1 + Len(all[i].blocks)
         /\ Member(all[i])[1] = HeaderOf(all[i])
         /\ \A j \in 1..Len(all[i].blocks) :
               Member(all[i])[1 + j] = all[i].blocks[j]
    BY <1>1, <1>5, PlainMember
<1>. HIDE DEF n
<1>7. /\ s \in Seq(Seq(T)) /\ Len(s) = n /\ Len(s) > 0
      /\ \A i \in 1..n : s[i] = Member(all[i])
    BY <1>1, <1>4, <1>6
<1>. HIDE DEF s
<1>8. PICK at \in [1..(n + 1) -> Nat] :
          /\ at[1] = 0 /\ at[n + 1] = Len(flat)
          /\ \A i \in 1..n :
                /\ at[i + 1] = at[i] + Len(s[i])
                /\ \A j \in 1..Len(s[i]) :
                      at[i] + j \in 1..Len(flat) /\ flat[at[i] + j] = s[i][j]
    <2>1. \E at \in [1..(Len(s) + 1) -> Nat] :
             /\ at[1] = 0 /\ at[Len(s) + 1] = Len(flat)
             /\ \A i \in 1..Len(s) :
                   /\ at[i + 1] = at[i] + Len(s[i])
                   /\ \A j \in 1..Len(s[i]) :
                         at[i] + j \in 1..Len(flat) /\ flat[at[i] + j] = s[i][j]
        BY <1>7, FlattenLayout, ZenonT(30)
    <2>. QED  BY <1>7, <2>1, Zenon
<1>9. flat \in Seq(T)
    BY <1>7, FlattenLayout, Zenon
<1>. HIDE DEF flat, end
<1>10. /\ Len(Packed[b]) = Len(flat) + Len(end)
       /\ \A j \in 1..Len(flat) : Packed[b][j] = flat[j]
       /\ \A j \in 1..Len(end) : Packed[b][Len(flat) + j] = end[j]
    <2>1. end \in Seq(T)
        BY <1>3
    <2>2. flat \in Seq(T)
        BY <1>9
    <2>. QED  BY <1>2, <2>1, <2>2, Joined
\* The header of the i-th file, and its data, are in what was joined.
<1>11. ASSUME NEW i \in 1..n, NEW j \in 1..(1 + Len(all[i].blocks))
       PROVE  /\ at[i] + j \in 1..at[n + 1]
              /\ Packed[b][at[i] + j] = Member(all[i])[j]
    <2>1. j \in 1..Len(s[i])
        BY <1>6, <1>7
    <2>2. at[i] + j \in 1..Len(flat) /\ flat[at[i] + j] = s[i][j]
        BY <1>8, <2>1
    <2>. QED  BY <1>7, <1>8, <1>10, <2>2
<1>12. ASSUME NEW i \in 1..n
       PROVE  /\ at[i + 1] = at[i] + 1 + Len(all[i].blocks)
              /\ at[i + 1] <= at[n + 1]
              /\ Packed[b][at[i] + 1] = HeaderOf(all[i])
              /\ \A j \in 1..Len(all[i].blocks) :
                    Packed[b][at[i] + 1 + j] = all[i].blocks[j]
    <2>. DEFINE m == Len(all[i].blocks)
    <2>1. m \in Nat /\ at[i] \in Nat /\ at[n + 1] \in Nat
        BY <1>1, <1>6, <1>8
    <2>2. at[i + 1] = at[i] + (1 + m)
        <3>1. at[i + 1] = at[i] + Len(s[i])
            BY <1>8
        <3>2. s[i] = Member(all[i])
            BY <1>7
        <3>3. Len(Member(all[i])) = 1 + m
            BY <1>6
        <3>. QED  BY <3>1, <3>2, <3>3
    <2>. HIDE DEF m
    <2>3. 1 \in 1..(1 + m) /\ 1 + m \in 1..(1 + m)
        BY <2>1
    <2>4. at[i] + (1 + m) \in 1..at[n + 1]
        BY <1>11, <2>3 DEF m
    <2>5. Packed[b][at[i] + 1] = HeaderOf(all[i])
        BY <1>6, <1>11, <2>3 DEF m
    <2>6. ASSUME NEW j \in 1..m
          PROVE  Packed[b][at[i] + 1 + j] = all[i].blocks[j]
        <3>1. 1 + j \in 1..(1 + m) /\ at[i] + (1 + j) = at[i] + 1 + j
            BY <2>1
        <3>2. Packed[b][at[i] + (1 + j)] = Member(all[i])[1 + j]
            BY <1>11, <3>1 DEF m
        <3>3. Member(all[i])[1 + j] = all[i].blocks[j]
            BY <1>6 DEF m
        <3>. QED  BY <3>1, <3>2, <3>3
    <2>7. at[i + 1] = at[i] + 1 + m /\ at[i + 1] <= at[n + 1]
        BY <2>1, <2>2, <2>4
    <2>. QED  BY <2>5, <2>6, <2>7, Zenon DEF m
<1>13. Len(Packed[b]) = at[n + 1] + 2 /\ Packed[b][at[n + 1] + 1] = ZeroBlock
    BY <1>3, <1>8, <1>10
<1>14. Layout(b, at)
    BY <1>8, <1>12, <1>13 DEF Layout, all, n
<1>. QED  BY <1>14

IsPacked(b) == tar_data = [blocks |-> Packed[b], partial |-> 0]

\* What has been read so far are the first files, each at its place, and the
\* next header is that of the next file.
ParsedSoFar(b, at) ==
    LET all == Added(b)
        k == Len(out)
    IN  /\ result \in {"RUNNING", "OK", "IO"}
        /\ result # "IO" =>
              /\ k <= Len(all)
              /\ offset = BLOCK_SIZE * at[k + 1]
              /\ \A i \in 1..k :
                    out[i] = [path |-> all[i].path, type |-> "FILE",
                              data |-> BLOCK_SIZE * at[i] + BLOCK_SIZE,
                              size |-> all[i].size]
        /\ result = "OK" => k = Len(all)

PackedInv ==
    \A b \in Bundle : \A at :
        IsPacked(b) /\ Layout(b, at) => ParsedSoFar(b, at)

\* What the loop finds in a packed archive: the next file's header, or behind
\* the last file the end marker.
LEMMA NextHeader ==
    ASSUME NEW b \in Bundle, NEW at, IsPacked(b), Layout(b, at), TypeOK,
           result = "RUNNING", ParsedSoFar(b, at)
    PROVE  LET all == Added(b)
               n == Len(all)
               k == Len(out)
           IN  /\ k \in 0..n
               /\ InHeader
               /\ offset = BLOCK_SIZE * at[k + 1]
               /\ tar_len(tar_data) = BLOCK_SIZE * (at[n + 1] + 2)
               /\ Header = IF k = n THEN ZeroBlock ELSE HeaderOf(all[k + 1])
<1>. DEFINE all == Added(b)
            n == Len(all)
            k == Len(out)
<1>1. n \in Nat /\ k \in 0..n
    BY AddedFiles DEF ParsedSoFar, TypeOK
<1>2. offset = 512 * at[k + 1]
    BY DEF ParsedSoFar, BLOCK_SIZE
<1>3. /\ at \in [1..(n + 1) -> Nat]
      /\ Len(Packed[b]) = at[n + 1] + 2
      /\ Packed[b][at[n + 1] + 1] = ZeroBlock
      /\ \A i \in 1..n : /\ at[i + 1] <= at[n + 1]
                         /\ at[i + 1] = at[i] + 1 + Len(all[i].blocks)
                         /\ Len(all[i].blocks) \in Nat
                         /\ Packed[b][at[i] + 1] = HeaderOf(all[i])
    <2>1. \A i \in 1..n : Len(all[i].blocks) \in Nat
        BY AddedFiles, InputFileAssumption DEF IsPlainFile
    <2>. QED  BY <2>1 DEF Layout
<1>4. tar_data.blocks = Packed[b] /\ tar_data.partial = 0
    BY DEF IsPacked
<1>5. tar_len(tar_data) = 512 * (at[n + 1] + 2)
    BY <1>1, <1>3, <1>4 DEF tar_len, BLOCK_SIZE
<1>. HIDE DEF n, k
<1>6. at[k + 1] \in Nat /\ at[n + 1] \in Nat
    <2>1. k + 1 \in 1..(n + 1) /\ n + 1 \in 1..(n + 1)
        BY <1>1
    <2>. QED  BY <1>3, <2>1
<1>7. at[k + 1] <= at[n + 1]
    <2>1. CASE k = n
        BY <1>6, <2>1
    <2>2. CASE k # n
        <3>1. k + 1 \in 1..n
            BY <1>1, <2>2
        <3>2. at[k + 2] \in Nat
            <4>1. k + 2 \in 1..(n + 1)
                BY <3>1, <1>1
            <4>. QED  BY <1>3, <4>1
        <3>3. (k + 1) + 1 = k + 2
            BY <1>1
        <3>4. /\ at[k + 2] <= at[n + 1]
              /\ at[k + 2] = at[k + 1] + 1 + Len(all[k + 1].blocks)
              /\ Len(all[k + 1].blocks) \in Nat
            BY <1>3, <3>1, <3>3
        <3>5. \A x, y, z, m \in Nat : y = x + 1 + m /\ y <= z => x <= z
            OBVIOUS
        <3>. QED  BY <1>6, <3>2, <3>4, <3>5
    <2>. QED  BY <2>1, <2>2
<1>8. InHeader
    <2>1. offset + 512 <= tar_len(tar_data)
        BY <1>2, <1>5, <1>6, <1>7
    <2>. QED  BY <2>1 DEF InHeader, BLOCK_SIZE
<1>9. Header = Packed[b][at[k + 1] + 1]
    <2>1. \A x \in Nat : (512 * x) \div 512 = x
        OBVIOUS
    <2>2. offset \div 512 = at[k + 1]
        BY <1>2, <1>6, <2>1
    <2>. QED  BY <1>4, <2>2 DEF Header, BLOCK_SIZE
<1>10. k # n => Packed[b][at[k + 1] + 1] = HeaderOf(all[k + 1])
    <2>1. k # n => k + 1 \in 1..n
        BY <1>1
    <2>. QED  BY <1>3, <2>1
<1>11. k = n => Packed[b][at[k + 1] + 1] = ZeroBlock
    BY <1>3
<1>. QED  BY <1>1, <1>2, <1>5, <1>8, <1>9, <1>10, <1>11 DEF n, k, BLOCK_SIZE

\* Whole blocks hold a size that is rounded up to them.
LEMMA HeldBlocks ==
    ASSUME NEW size \in Nat, NEW len \in Nat, len = (size + 511) \div 512,
           NEW from \in Nat
    PROVE  512 * from + 512 + ((size + 511) \div 512) * 512
             = 512 * (from + 1 + len)
OBVIOUS

\* Nothing is wrong with the header of a plain file, and behind its data is
\* the next header.
LEMMA FileAccepted ==
    ASSUME NEW b \in Bundle, NEW at, IsPacked(b), Layout(b, at), TypeOK,
           result = "RUNNING", ParsedSoFar(b, at), Len(out) # Len(Added(b))
    PROVE  LET k == Len(out)
               file == Added(b)[k + 1]
           IN  /\ EntryType(Header) = "FILE" /\ EntrySize(Header) = file.size
               /\ Header.path = file.path
               /\ ~Header.zero
               /\ next_offset(offset, Header) = BLOCK_SIZE * at[k + 2]
               /\ Refusal(Header, offset) = "NONE"
<1>. DEFINE all == Added(b)
            n == Len(all)
            k == Len(out)
            file == all[k + 1]
<1>1. /\ k \in 0..n /\ k # n /\ n \in Nat /\ InHeader
      /\ offset = 512 * at[k + 1]
      /\ tar_len(tar_data) = 512 * (at[n + 1] + 2)
      /\ Header = HeaderOf(file)
    BY NextHeader, AddedFiles DEF BLOCK_SIZE
<1>2. k + 1 \in 1..n /\ (k + 1) + 1 = k + 2
    BY <1>1
<1>3. IsPlainFile(file)
    BY <1>2, AddedFiles, InputFileAssumption
<1>4. /\ Header.path = file.path /\ Header.typeflag = "0"
      /\ Header.size = file.size /\ Header.sums /\ ~Header.zero
      /\ ~Header.prefix
    BY <1>1, <1>3 DEF IsPlainFile, HeaderOf, Typeflag
<1>5. EntryType(Header) = "FILE" /\ EntrySize(Header) = file.size
    BY <1>4 DEF EntryType, EntrySize
<1>6. /\ file.size \in 0..(SizeLimit - 1) /\ SizeLimit \in Nat
      /\ Len(file.blocks) \in Nat
      /\ Len(file.blocks) = (file.size + 511) \div 512
    <2>1. (file.size + 512 - 1) = file.size + 511
        BY <1>3, SizeAssumption DEF IsPlainFile
    <2>. QED  BY <1>3, <2>1, SizeAssumption DEF IsPlainFile, BLOCK_SIZE
<1>7. /\ at[k + 1] \in Nat /\ at[k + 2] \in Nat /\ at[n + 1] \in Nat
      /\ at[k + 2] = at[k + 1] + 1 + Len(file.blocks)
      /\ at[k + 2] <= at[n + 1]
    <2>1. k + 1 \in 1..(n + 1) /\ k + 2 \in 1..(n + 1) /\ n + 1 \in 1..(n + 1)
        BY <1>1
    <2>. QED  BY <1>2, <2>1 DEF Layout
<1>. HIDE DEF n, k, file
<1>8. next_offset(offset, Header)
        = offset + 512 + ((file.size + 511) \div 512) * 512
    <2>1. EntrySize(Header) \in 0..SizeLimit
        BY <1>5, <1>6
    <2>. QED  BY <1>1, <1>5, <2>1, NextOffsetIs
<1>9. next_offset(offset, Header) = 512 * at[k + 2]
    <2>. DEFINE q == (file.size + 511) \div 512
    <2>1. file.size \in Nat /\ Len(file.blocks) = q
        BY <1>6
    <2>2. 512 * at[k + 1] + 512 + q * 512
            = 512 * (at[k + 1] + 1 + Len(file.blocks))
        BY <1>6, <1>7, <2>1, HeldBlocks
    <2>. HIDE DEF q
    <2>. QED  BY <1>1, <1>7, <1>8, <2>2 DEF q
<1>10. /\ ~(next_offset(offset, Header) < offset)
       /\ ~(next_offset(offset, Header) > tar_len(tar_data))
    <2>1. \A a, c, last, m \in Nat :
             c = a + 1 + m /\ c <= last =>
             ~(512 * c < 512 * a) /\ ~(512 * c > 512 * (last + 2))
        OBVIOUS
    <2>. DEFINE a == at[k + 1]
                c == at[k + 2]
                last == at[n + 1]
                m == Len(file.blocks)
    <2>2. /\ a \in Nat /\ c \in Nat /\ last \in Nat /\ m \in Nat
          /\ c = a + 1 + m /\ c <= last
        BY <1>6, <1>7
    <2>3. /\ next_offset(offset, Header) = 512 * c /\ offset = 512 * a
          /\ tar_len(tar_data) = 512 * (last + 2)
        BY <1>1, <1>9
    <2>. HIDE DEF a, c, last, m
    <2>4. ~(512 * c < 512 * a) /\ ~(512 * c > 512 * (last + 2))
        BY <2>1, <2>2
    <2>. QED  BY <2>3, <2>4
<1>11. Refusal(Header, offset) = "NONE"
    <2>1. fota_tar_path_is_safe(Header.path) /\ Header.size # NoValue
        BY <1>3, <1>4, <1>6 DEF IsPlainFile, NoValue
    <2>. QED  BY <1>4, <1>10, <2>1 DEF Refusal
<1>. QED  BY <1>4, <1>5, <1>9, <1>11 DEF k, file, BLOCK_SIZE

LEMMA InitPacked == Init => PackedInv
<1>. SUFFICES ASSUME Init, NEW b \in Bundle, NEW at, Layout(b, at)
              PROVE  ParsedSoFar(b, at)
    BY DEF PackedInv
<1>1. Len(Added(b)) \in Nat /\ at[1] = 0 /\ Len(out) = 0
    BY AddedFiles DEF Init, Layout
<1>2. offset = 0 /\ result = "RUNNING"
    BY DEF Init
<1>. QED  BY <1>1, <1>2 DEF ParsedSoFar, BLOCK_SIZE

LEMMA StepPacked == IInv /\ PackedInv /\ [Next]_vars => PackedInv'
<1>. SUFFICES ASSUME IInv, PackedInv, [Next]_vars,
                     NEW b \in Bundle, NEW at, IsPacked(b)', Layout(b, at)
              PROVE  ParsedSoFar(b, at)'
    BY DEF PackedInv, Layout, Added
<1>1. CASE UNCHANGED vars
    <2>1. ParsedSoFar(b, at)
        BY <1>1 DEF PackedInv, IsPacked, vars
    <2>. QED  BY <1>1, <2>1 DEF ParsedSoFar, Added, vars
<1>2. CASE Next
    <2>1. tar_data' = tar_data /\ result = "RUNNING"
        BY <1>2 DEF Next, RunOut, EndOfArchive, Refuse, NoTable, TakeEntry,
                    Return, InHeader
    <2>2. IsPacked(b) /\ ParsedSoFar(b, at) /\ TypeOK
        BY <2>1 DEF PackedInv, IsPacked, IInv
    <2>. DEFINE all == Added(b)
                n == Len(all)
                k == Len(out)
    <2>3. /\ n \in Nat /\ k \in 0..n /\ InHeader
          /\ offset = BLOCK_SIZE * at[k + 1]
          /\ Header = IF k = n THEN ZeroBlock ELSE HeaderOf(all[k + 1])
        BY <2>1, <2>2, NextHeader, AddedFiles
    <2>4. k # n =>
             LET file == all[k + 1]
             IN  /\ EntryType(Header) = "FILE" /\ EntrySize(Header) = file.size
                 /\ Header.path = file.path
                 /\ ~Header.zero
                 /\ next_offset(offset, Header) = BLOCK_SIZE * at[k + 2]
                 /\ Refusal(Header, offset) = "NONE"
        BY <2>1, <2>2, FileAccepted
    <2>5. Header.zero => k = n
        BY <2>4
    <2>6. k = n => Header.zero
        BY <2>3 DEF ZeroBlock
    <2>7. CASE RunOut
        <3>1. offset \in Nat /\ tar_len(tar_data) \in Nat
            BY <2>2, LengthIsNat DEF TypeOK
        <3>. QED  BY <2>3, <2>7, <3>1 DEF RunOut, InHeader, BLOCK_SIZE
    <2>8. CASE EndOfArchive
        <3>1. /\ result' = "OK" /\ out' = out /\ offset' = offset /\ k = n
            BY <2>5, <2>8 DEF EndOfArchive, Return
        <3>. QED  BY <2>1, <2>2, <3>1 DEF ParsedSoFar, Added
    <2>9. CASE Refuse
        BY <2>4, <2>6, <2>9 DEF Refuse
    <2>10. CASE NoTable
        BY <2>10 DEF NoTable, Return, ParsedSoFar
    <2>11. CASE TakeEntry
        <3>. DEFINE e == [path |-> Header.path, type |-> EntryType(Header),
                          data |-> offset + BLOCK_SIZE,
                          size |-> EntrySize(Header)]
                    f(i) == [path |-> all[i].path, type |-> "FILE",
                             data |-> BLOCK_SIZE * at[i] + BLOCK_SIZE,
                             size |-> all[i].size]
        <3>1. /\ out' = Append(out, e) /\ result' = "RUNNING" /\ k # n
              /\ offset' = next_offset(offset, Header)
            BY <2>1, <2>6, <2>11 DEF TakeEntry
        <3>2. e = f(k + 1)
            BY <2>3, <2>4, <3>1
        <3>3. offset' = BLOCK_SIZE * at[k + 2]
            BY <2>4, <3>1
        <3>4. \A i \in 1..k : out[i] = f(i)
            BY <2>1, <2>2 DEF ParsedSoFar
        <3>5. out \in Seq(EntryRecord)
            BY <2>2 DEF TypeOK
        <3>. HIDE DEF e, f, n
        <3>6. /\ Len(out') = k + 1
              /\ \A i \in 1..k : out'[i] = out[i]
              /\ out'[k + 1] = e
            BY <3>1, <3>5
        <3>. HIDE DEF k
        <3>7. \A i \in 1..(k + 1) : out'[i] = f(i)
            <4>1. \A i \in 1..(k + 1) : i \in 1..k \/ i = k + 1
                BY <2>3
            <4>. QED  BY <3>2, <3>4, <3>6, <4>1
        <3>8. /\ k + 1 <= n /\ offset' = BLOCK_SIZE * at[(k + 1) + 1]
            <4>1. (k + 1) + 1 = k + 2
                BY <2>3
            <4>. QED  BY <2>3, <3>1, <3>3, <4>1
        <3>. QED  BY <3>1, <3>6, <3>7, <3>8 DEF ParsedSoFar, Added, f, n
    <2>. QED  BY <1>2, <2>7, <2>8, <2>9, <2>10, <2>11 DEF Next
<1>. QED  BY <1>1, <1>2

\* Every member of an archive that the packager has written is found, as it
\* was put in, however long the archive is and whatever its blocks hold.
THEOREM PackedParsed == Spec => []PackedIsParsed
<1>1. PackedInv => PackedIsParsed
    <2>. SUFFICES ASSUME PackedInv, result # "RUNNING", tar_data \in PackedTarball,
                         NEW b \in Bundle, tar_data.blocks = Packed[b],
                         result # "IO"
                  PROVE  result = "OK" /\ IsTableOf(Added(b))
        BY DEF PackedIsParsed, Added
    <2>. DEFINE all == Added(b)
                n == Len(all)
    <2>1. IsPacked(b)
        BY DEF PackedTarball, IsPacked
    <2>2. PICK at : Layout(b, at)
        BY LaidOut
    <2>3. ParsedSoFar(b, at)
        BY <2>1, <2>2 DEF PackedInv
    <2>4. /\ result = "OK" /\ Len(out) = n
          /\ \A i \in 1..n :
                out[i] = [path |-> all[i].path, type |-> "FILE",
                          data |-> BLOCK_SIZE * at[i] + BLOCK_SIZE,
                          size |-> all[i].size]
        BY <2>3 DEF ParsedSoFar
    <2>5. n \in Nat /\ DOMAIN all = 1..n
        BY AddedFiles
    <2>4a. ASSUME NEW i \in 1..n
           PROVE  /\ out[i].path = all[i].path /\ out[i].type = "FILE"
                  /\ out[i].size = all[i].size
                  /\ out[i].data = 512 * at[i] + 512
        <3>1. out[i] = [path |-> all[i].path, type |-> "FILE",
                        data |-> BLOCK_SIZE * at[i] + BLOCK_SIZE,
                        size |-> all[i].size]
            BY <2>4
        <3>. HIDE DEF all
        <3>. QED  BY <3>1 DEF BLOCK_SIZE
    <2>6. ASSUME NEW i \in 1..n
          PROVE  LET first == out[i].data \div BLOCK_SIZE + 1
                 IN  SubSeq(tar_data.blocks, first,
                            first + Len(all[i].blocks) - 1) = all[i].blocks
        <3>. DEFINE blocks == tar_data.blocks
                    data == all[i].blocks
                    first == out[i].data \div BLOCK_SIZE + 1
                    from == at[i] + 1
        <3>1. /\ at[i] \in Nat /\ data \in Seq(Block)
              /\ \A j \in 1..Len(data) : blocks[at[i] + 1 + j] = data[j]
            <4>1. all[i] \in InputFile
                BY AddedFiles
            <4>2. data \in Seq(Block)
                BY <4>1, InputFileAssumption DEF IsPlainFile
            <4>3. i \in 1..(n + 1) /\ at \in [1..(n + 1) -> Nat]
                BY <2>2, <2>5 DEF Layout
            <4>4. \A j \in 1..Len(data) : Packed[b][at[i] + 1 + j] = data[j]
                BY <2>2 DEF Layout
            <4>. QED  BY <4>2, <4>3, <4>4
        <3>2. first = from + 1
            <4>1. \A x \in Nat : (512 * x + 512) \div 512 + 1 = x + 2
                OBVIOUS
            <4>2. out[i].data = 512 * at[i] + 512
                BY <2>4a
            <4>3. first = at[i] + 2
                BY <3>1, <4>1, <4>2 DEF BLOCK_SIZE
            <4>. QED  BY <3>1, <4>3
        <3>. HIDE DEF first, data, blocks
        <3>3. from \in Nat /\ Len(data) \in Nat
            BY <3>1
        <3>3a. \A j \in 1..Len(data) : blocks[from + j] = data[j]
            BY <3>1
        <3>. HIDE DEF from
        <3>4. first + Len(data) - 1 = from + Len(data)
            BY <3>2, <3>3
        <3>5. SubSeq(blocks, from + 1, from + Len(data)) = data
            <4>1. data \in Seq(Block)
                BY <3>1
            <4>. QED  BY <3>3, <3>3a, <4>1, PartIs
        <3>. QED  BY <3>2, <3>4, <3>5 DEF first, from, data, blocks
    <2>. HIDE DEF all, n
    <2>. QED  BY <2>4, <2>4a, <2>5, <2>6 DEF IsTableOf, all, n
<1>. QED  BY <1>1, InitIInv, StepIInv, InitPacked, StepPacked, PTL DEF Spec

=============================================================================
