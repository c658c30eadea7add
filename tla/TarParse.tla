------------------------------ MODULE TarParse ------------------------------
(***************************************************************************)
(* fota_tar_parse of consumer/src/installer.c: from the decompressed bytes *)
(* to the table of entries, one step per header.                           *)
(*                                                                         *)
(* The buffer is a sequence of blocks and perhaps part of another.  What a *)
(* block says when it is read as a header is a record; any block may be    *)
(* read so, the data of a file included.  A path is the sequence of what   *)
(* stands between its slashes, so "" is <<"">> and "/a" is <<"", "a">>.    *)
(***************************************************************************)
EXTENDS Integers, Sequences, FiniteSets

CONSTANTS
    Block,      \* what a block can hold
    Archive,    \* the buffers to be parsed
    SizeLimit,  \* no size field has a value of SizeLimit or more
    SizeMax     \* size_t goes from 0 to SizeMax

BLOCK_SIZE == 512

\* What parse_octal_field makes of a field that it refuses.
NoValue == -1

IsBlock(b) ==
    /\ b.zero \in BOOLEAN          \* nothing but NUL bytes
    /\ b.sums \in BOOLEAN          \* the checksum field is the checksum
    /\ b.prefix \in BOOLEAN        \* some byte of the prefix field is not NUL
    /\ b.path \in Seq(STRING) /\ b.path # <<>>
    /\ b.typeflag \in STRING
    /\ b.size \in 0..(SizeLimit - 1) \cup {NoValue}

ASSUME BlockAssumption == \A b \in Block : IsBlock(b)

ASSUME SizeAssumption == SizeLimit \in Nat /\ SizeMax \in Nat

tar_len(a) == BLOCK_SIZE * Len(a.blocks) + a.partial

\* size_t is wide enough for a buffer in memory and a field's value.
IsBuffer(a) ==
    /\ a.blocks \in Seq(Block)
    /\ a.partial \in 0..(BLOCK_SIZE - 1)
    /\ tar_len(a) + SizeLimit + 2 * BLOCK_SIZE <= SizeMax

ASSUME ArchiveAssumption == \A a \in Archive : IsBuffer(a)

VARIABLES
    tar_data,  \* the argument: a buffer
    offset,    \* where the next header is read
    out,       \* the entries, data being an offset
    result     \* what is returned, RUNNING before that

vars == <<tar_data, offset, out, result>>

Result == {"RUNNING", "OK", "MALFORMED_TAR", "UNSAFE_PATH",
           "UNSUPPORTED_ENTRY", "IO"}

\* Mutant: only the first component is looked at.
fota_tar_path_is_safe_First(path) == path[1] \notin {"", ".."}

\* A path that begins with the empty component is empty or absolute.
fota_tar_path_is_safe(path) ==
    path[1] # "" /\ \A i \in DOMAIN path : path[i] # ".."

EntryType(header) ==
    IF header.typeflag = "5" THEN "DIRECTORY" ELSE "FILE"

\* Directories carry no data blocks.
EntrySize(header) ==
    IF EntryType(header) = "DIRECTORY" THEN 0 ELSE header.size

\* The sum or product of two values of size_t, less than twice the range.
Wrap(n) == IF n > SizeMax THEN n - SizeMax - 1 ELSE n

\* Mutant: the last block counts only if it is full.
data_blocks_Down(size) == size \div BLOCK_SIZE

data_blocks(size) == Wrap(size + BLOCK_SIZE - 1) \div BLOCK_SIZE

\* Mutant: sizes are not rounded up to blocks.
next_offset_Unaligned(at, header) ==
    Wrap(Wrap(at + BLOCK_SIZE) + EntrySize(header))

next_offset(at, header) ==
    Wrap(Wrap(at + BLOCK_SIZE) + Wrap(data_blocks(EntrySize(header)) * BLOCK_SIZE))

Return(r) == /\ result' = r
             /\ out' = IF r = "OK" THEN out ELSE <<>>
             /\ UNCHANGED <<tar_data, offset>>

Init ==
    /\ tar_data \in Archive
    /\ offset = 0
    /\ out = <<>>
    /\ result = "RUNNING"

InHeader ==
    result = "RUNNING" /\ offset + BLOCK_SIZE <= tar_len(tar_data)

Header == tar_data.blocks[offset \div BLOCK_SIZE + 1]

\* Mutant: the end of the buffer will do for an end-of-archive marker.
RunOut_Ok ==
    /\ result = "RUNNING" /\ offset + BLOCK_SIZE > tar_len(tar_data)
    /\ Return(IF offset = tar_len(tar_data) THEN "OK" ELSE "MALFORMED_TAR")

\* The buffer ends within a header, or before any end-of-archive marker.
RunOut ==
    /\ result = "RUNNING" /\ offset + BLOCK_SIZE > tar_len(tar_data)
    /\ Return("MALFORMED_TAR")

EndOfArchive == InHeader /\ Header.zero /\ Return("OK")

\* Mutant: a declared size is not compared with the buffer.
Refusal_NoEnd(header, at) ==
    IF ~header.sums THEN "MALFORMED_TAR"
    ELSE IF header.prefix THEN "UNSUPPORTED_ENTRY"
    ELSE IF ~fota_tar_path_is_safe(header.path) THEN "UNSAFE_PATH"
    ELSE IF header.typeflag \notin {"0", "", "5"} THEN "UNSUPPORTED_ENTRY"
    ELSE IF header.size = NoValue THEN "MALFORMED_TAR"
    ELSE "NONE"

\* The first thing that is wrong with a header, in the order of the code.
Refusal(header, at) ==
    IF ~header.sums THEN "MALFORMED_TAR"
    ELSE IF header.prefix THEN "UNSUPPORTED_ENTRY"
    ELSE IF ~fota_tar_path_is_safe(header.path) THEN "UNSAFE_PATH"
    ELSE IF header.typeflag \notin {"0", "", "5"} THEN "UNSUPPORTED_ENTRY"
    ELSE IF header.size = NoValue THEN "MALFORMED_TAR"
    ELSE IF \/ next_offset(at, header) < at
            \/ next_offset(at, header) > tar_len(tar_data) THEN "MALFORMED_TAR"
    ELSE "NONE"

Refuse ==
    /\ InHeader /\ ~Header.zero
    /\ Refusal(Header, offset) # "NONE"
    /\ Return(Refusal(Header, offset))

\* The table is full and realloc fails; it has room for 16, then 32 and so on.
NoTable ==
    /\ InHeader /\ ~Header.zero
    /\ Refusal(Header, offset) = "NONE"
    /\ Len(out) \in {0} \cup {16 * 2^k : k \in 0..Len(out)}
    /\ Return("IO")

\* Mutant: stays on the header it has just read.
TakeEntry_Stuck ==
    /\ InHeader /\ ~Header.zero
    /\ Refusal(Header, offset) = "NONE"
    /\ out' = <<[path |-> Header.path, type |-> EntryType(Header),
                 data |-> offset + BLOCK_SIZE, size |-> EntrySize(Header)]>>
    /\ UNCHANGED <<offset, tar_data, result>>

TakeEntry ==
    /\ InHeader /\ ~Header.zero
    /\ Refusal(Header, offset) = "NONE"
    /\ out' = Append(out, [path |-> Header.path, type |-> EntryType(Header),
                           data |-> offset + BLOCK_SIZE,
                           size |-> EntrySize(Header)])
    /\ offset' = next_offset(offset, Header)
    /\ UNCHANGED <<tar_data, result>>

Next == RunOut \/ EndOfArchive \/ Refuse \/ NoTable \/ TakeEntry

Spec == Init /\ [][Next]_vars /\ WF_vars(Next)

-----------------------------------------------------------------------------

EntryRecord ==
    [path : Seq(STRING) \ {<<>>}, type : {"FILE", "DIRECTORY"},
     data : Nat, size : Nat]

\* Type invariant; headers are only read at block boundaries.
TypeOK ==
    /\ IsBuffer(tar_data)
    /\ offset \in Nat /\ offset % BLOCK_SIZE = 0
    /\ out \in Seq(EntryRecord)
    /\ result \in Result

\* The data of every entry is within the buffer, and before the header of the
\* next one: no byte belongs to two entries or to an entry and a header.
EntriesAreApart ==
    \A i \in DOMAIN out :
        /\ out[i].data + out[i].size <= tar_len(tar_data)
        /\ \A j \in (i + 1)..Len(out) :
               out[i].data + out[i].size + BLOCK_SIZE <= out[j].data

\* The block at at is the header of an entry, or part of the data of one.
Accounted(at) ==
    \E i \in DOMAIN out : \/ at = out[i].data - BLOCK_SIZE
                          \/ out[i].data <= at /\ at < out[i].data + out[i].size

\* A parse that succeeds has reached an end-of-archive marker, and every
\* block before it is the header of an entry or holds data of one: no member
\* of the archive is passed over.
NothingIsSkipped ==
    result = "OK" =>
        LET marker == offset \div BLOCK_SIZE
        IN  /\ marker < Len(tar_data.blocks)
            /\ tar_data.blocks[marker + 1].zero
            /\ \A k \in 0..(marker - 1) : Accounted(k * BLOCK_SIZE)

\* How a path moves among directories: never above the one it starts from.
StaysInside(path) ==
    LET Up(n) == {i \in 1..n : path[i] = ".."}
        Down(n) == {i \in 1..n : path[i] \notin {"..", ".", ""}}
    IN  /\ path[1] # ""
        /\ \A n \in DOMAIN path : Cardinality(Up(n)) <= Cardinality(Down(n))

\* No entry is ever handed on whose path leads out of the install directory.
EntriesStayInside == \A i \in DOMAIN out : StaysInside(out[i].path)

\* The loop ends on every buffer.
EveryParseEnds == <>(result # "RUNNING")

=============================================================================
