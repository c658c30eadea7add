--------------------------- MODULE ParsersProofs ---------------------------
(***************************************************************************)
(* What a package is split into, for sections of any length and any bytes, *)
(* what number an octal field holds, which version a text is, what a       *)
(* version file that was cut short reads as, and which files the device    *)
(* finds in a manifest, or in the first part of one.                       *)
(***************************************************************************)
EXTENDS Parsers, SequenceLemmas

-----------------------------------------------------------------------------
(* Sequences of bytes.                                                     *)

LEMMA Slice ==
    ASSUME NEW s \in Seq(Byte), NEW offset \in Nat, NEW n \in Nat,
           offset + n <= Len(s)
    PROVE  /\ Bytes(s, offset, n) \in Seq(Byte)
           /\ Len(Bytes(s, offset, n)) = n
           /\ \A i \in 1..n : Bytes(s, offset, n)[i] = s[offset + i]
<1> DEFINE first == offset + 1
           last == offset + n
<1>1. first \in Int /\ last \in Int /\ Len(s) \in Nat
  OBVIOUS
<1>2. \A i \in first..last : s[i] \in Byte
  <2> TAKE i \in first..last
  <2>1. i \in 1..Len(s)
    BY <1>1
  <2> QED BY <2>1, ElementOfSeq
<1>3. /\ SubSeq(s, first, last) \in Seq(Byte)
      /\ Len(SubSeq(s, first, last)) = IF first <= last THEN last - first + 1 ELSE 0
      /\ \A i \in 1..(last - first + 1) : SubSeq(s, first, last)[i] = s[first + i - 1]
  BY <1>1, <1>2, SubSeqProperties
<1>4. last - first + 1 = n /\ \A i \in 1..n : first + i - 1 = offset + i
  OBVIOUS
<1>5. Len(SubSeq(s, first, last)) = n
  BY <1>3, <1>4
<1> QED BY <1>3, <1>4, <1>5 DEF Bytes

LEMMA Prefix ==
    ASSUME NEW s \in Seq(Byte), NEW n \in Nat, n <= Len(s)
    PROVE  /\ SubSeq(s, 1, n) \in Seq(Byte)
           /\ Len(SubSeq(s, 1, n)) = n
           /\ \A i \in 1..n : SubSeq(s, 1, n)[i] = s[i]
OBVIOUS

LEMMA TwoBytes ==
    ASSUME NEW n \in Nat
    PROVE  256 * (n \div 256) + (n % 256) = n
OBVIOUS

\* Concatenation under a name, so that provers do not expand it.
Joint(s, t) == s \o t

LEMMA JointParts ==
    ASSUME NEW s \in Seq(Byte), NEW t \in Seq(Byte)
    PROVE  /\ Joint(s, t) \in Seq(Byte)
           /\ Len(Joint(s, t)) = Len(s) + Len(t)
           /\ \A i \in 1..Len(s) : Joint(s, t)[i] = s[i]
           /\ \A i \in 1..Len(t) : Joint(s, t)[Len(s) + i] = t[i]
BY Joined DEF Joint

Longer(s, e) == Append(s, e)

LEMMA LongerParts ==
    ASSUME NEW s \in Seq(Byte), NEW e \in Byte
    PROVE  /\ Longer(s, e) \in Seq(Byte)
           /\ Len(Longer(s, e)) = Len(s) + 1
           /\ \A i \in 1..Len(s) : Longer(s, e)[i] = s[i]
           /\ Longer(s, e)[Len(s) + 1] = e
BY AppendProperties DEF Longer

LEMMA ZerosAreBytes ==
    ASSUME NEW n \in Nat
    PROVE  /\ Zeros(n) \in Seq(Byte) /\ Len(Zeros(n)) = n
           /\ \A i \in 1..n : Zeros(n)[i] = 0
BY DEF Zeros, Byte

LEMMA PaddedBytes ==
    ASSUME NEW s \in Seq(Byte), NEW size \in Nat, Len(s) <= size
    PROVE  /\ Padded(s, size) \in Seq(Byte)
           /\ Len(Padded(s, size)) = size
           /\ \A i \in 1..Len(s) : Padded(s, size)[i] = s[i]
           /\ \A i \in (Len(s) + 1)..size : Padded(s, size)[i] = 0
<1> DEFINE rest == size - Len(s)
<1>1. Len(s) \in Nat /\ rest \in Nat
  OBVIOUS
<1>2. /\ Zeros(rest) \in Seq(Byte) /\ Len(Zeros(rest)) = rest
      /\ \A i \in 1..rest : Zeros(rest)[i] = 0
  BY <1>1, ZerosAreBytes
<1>3. /\ s \o Zeros(rest) \in Seq(Byte)
      /\ Len(s \o Zeros(rest)) = Len(s) + rest
      /\ \A i \in 1..Len(s) : (s \o Zeros(rest))[i] = s[i]
      /\ \A i \in 1..rest : (s \o Zeros(rest))[Len(s) + i] = Zeros(rest)[i]
  BY <1>2, Joined
<1>4. ASSUME NEW i \in (Len(s) + 1)..size
      PROVE  (s \o Zeros(rest))[i] = 0
  <2>1. i - Len(s) \in 1..rest /\ Len(s) + (i - Len(s)) = i
    BY <1>1
  <2> QED BY <1>2, <1>3, <2>1
<1>5. Len(s) + rest = size
  BY <1>1
<1> QED BY <1>3, <1>4, <1>5 DEF Padded

\* A tag without a NUL can be told from every other.
LEMMA PaddedIsInjective ==
    ASSUME NEW s \in Seq(Byte \ {0}), NEW t \in Seq(Byte \ {0}),
           NEW size \in Nat, Len(s) <= size, Len(t) <= size,
           Padded(s, size) = Padded(t, size)
    PROVE  s = t
<1>1. /\ s \in Seq(Byte) /\ t \in Seq(Byte)
      /\ Len(s) \in Nat /\ Len(t) \in Nat
  BY SeqMonotonic
<1>2. /\ \A i \in 1..Len(s) : Padded(s, size)[i] = s[i]
      /\ \A i \in (Len(s) + 1)..size : Padded(s, size)[i] = 0
      /\ \A i \in 1..Len(t) : Padded(s, size)[i] = t[i]
      /\ \A i \in (Len(t) + 1)..size : Padded(s, size)[i] = 0
  BY <1>1, PaddedBytes
<1>3. /\ \A i \in 1..Len(s) : s[i] # 0
      /\ \A i \in 1..Len(t) : t[i] # 0
  BY ElementOfSeq
<1>4. ~(Len(s) < Len(t))
  <2> SUFFICES ASSUME Len(s) < Len(t)
               PROVE  FALSE
    OBVIOUS
  <2>1. Len(s) + 1 \in 1..Len(t) /\ Len(s) + 1 \in (Len(s) + 1)..size
    BY <1>1
  <2> QED BY <1>2, <1>3, <2>1
<1>5. ~(Len(t) < Len(s))
  <2> SUFFICES ASSUME Len(t) < Len(s)
               PROVE  FALSE
    OBVIOUS
  <2>1. Len(t) + 1 \in 1..Len(s) /\ Len(t) + 1 \in (Len(t) + 1)..size
    BY <1>1
  <2> QED BY <1>2, <1>3, <2>1
<1>6. Len(s) = Len(t)
  BY <1>1, <1>4, <1>5
<1>7. \A i \in 1..Len(s) : s[i] = t[i]
  BY <1>2, <1>6
<1> QED BY <1>6, <1>7, SeqEqual

-----------------------------------------------------------------------------
(* The header.                                                             *)

LEMMA HeaderFits ==
    ASSUME NEW p, NEW v, NEW iv, NEW size, NEW h, h \in build_header(p, v, iv, size)
    PROVE  /\ Len(p) <= PLATFORM_TAG_SIZE /\ Len(v) <= FW_VERSION_SIZE
           /\ Len(iv) = IV_SIZE /\ size \in 0..UINT16_MAX
           /\ h = Joint(Joint(Identity(p, v), pack_uint16(size)), iv)
BY DEF build_header, Joint

\* What build_header puts where.
LEMMA HeaderLayout ==
    ASSUME NEW p \in Seq(Byte), NEW v \in Seq(Byte), NEW iv \in Seq(Byte),
           NEW size \in Nat, NEW h, h \in build_header(p, v, iv, size)
    PROVE  /\ h \in Seq(Byte) /\ Len(h) = HEADER_SIZE
           /\ size \in 0..UINT16_MAX
           /\ Len(p) <= PLATFORM_TAG_SIZE /\ Len(v) <= FW_VERSION_SIZE
           /\ Len(iv) = IV_SIZE
           /\ \A i \in 1..4 : h[i] = MAGIC[i]
           /\ h[5] = FORMAT_VERSION
           /\ \A i \in 1..PLATFORM_TAG_SIZE :
                h[5 + i] = Padded(p, PLATFORM_TAG_SIZE)[i]
           /\ \A i \in 1..FW_VERSION_SIZE :
                h[21 + i] = Padded(v, FW_VERSION_SIZE)[i]
           /\ h[34] = size \div 256 /\ h[35] = size % 256
           /\ \A i \in 1..IV_SIZE : h[35 + i] = iv[i]
<1> DEFINE a == Longer(MAGIC, FORMAT_VERSION)
           b == Joint(a, Padded(p, PLATFORM_TAG_SIZE))
           c == Joint(b, Padded(v, FW_VERSION_SIZE))
           d == Joint(c, pack_uint16(size))
           e == Joint(d, iv)
<1>1. /\ Len(p) <= PLATFORM_TAG_SIZE /\ Len(v) <= FW_VERSION_SIZE
      /\ Len(iv) = IV_SIZE /\ size \in 0..UINT16_MAX
  BY HeaderFits
<1>11. h = e
  <2>1. Identity(p, v) = c
    BY Zenon DEF Identity, Joint, Longer
  <2> QED BY <2>1, HeaderFits
<1>2. /\ MAGIC \in Seq(Byte) /\ Len(MAGIC) = 4
      /\ FORMAT_VERSION \in Byte /\ FORMAT_VERSION = 1
  BY DEF MAGIC, FORMAT_VERSION, Byte
<1> HIDE DEF a, b, c, d, e
<1>3. /\ size \div 256 \in Byte /\ size % 256 \in Byte
  <2>1. size \in Nat /\ size <= 65535
    BY SMTT(20), <1>1 DEF UINT16_MAX
  <2> HIDE <1>1
  <2> QED BY <2>1 DEF Byte
<1>4. /\ pack_uint16(size) \in Seq(Byte) /\ Len(pack_uint16(size)) = 2
      /\ pack_uint16(size)[1] = size \div 256
      /\ pack_uint16(size)[2] = size % 256
  BY <1>3 DEF pack_uint16
<1>5. /\ Padded(p, PLATFORM_TAG_SIZE) \in Seq(Byte)
      /\ Len(Padded(p, PLATFORM_TAG_SIZE)) = 16
      /\ Padded(v, FW_VERSION_SIZE) \in Seq(Byte)
      /\ Len(Padded(v, FW_VERSION_SIZE)) = 12
  <2>1. /\ PLATFORM_TAG_SIZE \in Nat /\ PLATFORM_TAG_SIZE = 16
        /\ FW_VERSION_SIZE \in Nat /\ FW_VERSION_SIZE = 12
    BY DEF PLATFORM_TAG_SIZE, FW_VERSION_SIZE
  <2> QED BY <1>1, <2>1, PaddedBytes
<1>6. /\ a \in Seq(Byte) /\ Len(a) = 5
      /\ \A i \in 1..4 : a[i] = MAGIC[i]
      /\ a[5] = 1
  <2>1. /\ a \in Seq(Byte) /\ Len(a) = Len(MAGIC) + 1
        /\ \A i \in 1..Len(MAGIC) : a[i] = MAGIC[i]
        /\ a[Len(MAGIC) + 1] = FORMAT_VERSION
    BY <1>2, LongerParts DEF a
  <2> QED BY <1>2, <2>1
<1>7. /\ b \in Seq(Byte) /\ Len(b) = 21
      /\ \A i \in 1..5 : b[i] = a[i]
      /\ \A i \in 1..16 : b[5 + i] = Padded(p, PLATFORM_TAG_SIZE)[i]
  <2>1. /\ b \in Seq(Byte)
        /\ Len(b) = Len(a) + Len(Padded(p, PLATFORM_TAG_SIZE))
        /\ \A i \in 1..Len(a) : b[i] = a[i]
        /\ \A i \in 1..Len(Padded(p, PLATFORM_TAG_SIZE)) : b[Len(a) + i] = Padded(p, PLATFORM_TAG_SIZE)[i]
    BY <1>5, <1>6, JointParts DEF b
  <2> QED BY <1>5, <1>6, <2>1
<1>8. /\ c \in Seq(Byte) /\ Len(c) = 33
      /\ \A i \in 1..21 : c[i] = b[i]
      /\ \A i \in 1..12 : c[21 + i] = Padded(v, FW_VERSION_SIZE)[i]
  <2>1. /\ c \in Seq(Byte)
        /\ Len(c) = Len(b) + Len(Padded(v, FW_VERSION_SIZE))
        /\ \A i \in 1..Len(b) : c[i] = b[i]
        /\ \A i \in 1..Len(Padded(v, FW_VERSION_SIZE)) : c[Len(b) + i] = Padded(v, FW_VERSION_SIZE)[i]
    BY <1>5, <1>7, JointParts DEF c
  <2> QED BY <1>5, <1>7, <2>1
<1>9. /\ d \in Seq(Byte) /\ Len(d) = 35
      /\ \A i \in 1..33 : d[i] = c[i]
      /\ \A i \in 1..2 : d[33 + i] = pack_uint16(size)[i]
  <2>1. /\ d \in Seq(Byte)
        /\ Len(d) = Len(c) + Len(pack_uint16(size))
        /\ \A i \in 1..Len(c) : d[i] = c[i]
        /\ \A i \in 1..Len(pack_uint16(size)) : d[Len(c) + i] = pack_uint16(size)[i]
    BY <1>4, <1>8, JointParts, ZenonT(20) DEF d
  <2> QED BY <1>4, <1>8, <2>1
<1>10. /\ e \in Seq(Byte) /\ Len(e) = 51
       /\ \A i \in 1..35 : e[i] = d[i]
       /\ \A i \in 1..16 : e[35 + i] = iv[i]
  <2>1. /\ e \in Seq(Byte)
        /\ Len(e) = Len(d) + Len(iv)
        /\ \A i \in 1..Len(d) : e[i] = d[i]
        /\ \A i \in 1..Len(iv) : e[Len(d) + i] = iv[i]
    BY <1>1, <1>9, JointParts, ZenonT(20) DEF e
  <2> QED BY <1>1, <1>9, <2>1 DEF IV_SIZE
<1>12. ASSUME NEW i \in 1..4
       PROVE  e[i] = MAGIC[i]
  <2>1. i \in 1..5 /\ i \in 1..21 /\ i \in 1..33 /\ i \in 1..35
    OBVIOUS
  <2>2. e[i] = d[i]
    BY <1>10, <2>1
  <2>3. d[i] = c[i]
    BY <1>9, <2>1
  <2>4. c[i] = b[i]
    BY <1>8, <2>1
  <2>5. b[i] = a[i]
    BY <1>7, <2>1
  <2>6. a[i] = MAGIC[i]
    BY <1>6
  <2> QED BY <2>2, <2>3, <2>4, <2>5, <2>6
<1>13. e[5] = 1
  BY <1>6, <1>7, <1>8, <1>9, <1>10
<1>14. ASSUME NEW i \in 1..16
       PROVE  e[5 + i] = Padded(p, PLATFORM_TAG_SIZE)[i]
  <2>1. 5 + i \in 1..21 /\ 5 + i \in 1..33 /\ 5 + i \in 1..35
    OBVIOUS
  <2>2. e[5 + i] = d[5 + i]
    BY <1>10, <2>1
  <2>3. d[5 + i] = c[5 + i]
    BY <1>9, <2>1
  <2>4. c[5 + i] = b[5 + i]
    BY <1>8, <2>1
  <2>5. b[5 + i] = Padded(p, PLATFORM_TAG_SIZE)[i]
    BY <1>7
  <2> QED BY <2>2, <2>3, <2>4, <2>5
<1>15. ASSUME NEW i \in 1..12
       PROVE  e[21 + i] = Padded(v, FW_VERSION_SIZE)[i]
  <2>1. 21 + i \in 1..33 /\ 21 + i \in 1..35
    OBVIOUS
  <2>2. e[21 + i] = d[21 + i]
    BY <1>10, <2>1
  <2>3. d[21 + i] = c[21 + i]
    BY <1>9, <2>1
  <2>4. c[21 + i] = Padded(v, FW_VERSION_SIZE)[i]
    BY <1>8
  <2> QED BY <2>2, <2>3, <2>4
<1>16. e[34] = size \div 256 /\ e[35] = size % 256
  <2>1. e[34] = d[34] /\ e[35] = d[35]
    BY <1>10
  <2>2. d[33 + 1] = pack_uint16(size)[1] /\ d[33 + 2] = pack_uint16(size)[2]
    BY <1>9
  <2>3. 33 + 1 = 34 /\ 33 + 2 = 35
    OBVIOUS
  <2> QED BY <1>4, <2>1, <2>2, <2>3
<1> QED BY <1>1, <1>10, <1>11, <1>12, <1>13, <1>14, <1>15, <1>16
        DEF HEADER_SIZE, PLATFORM_TAG_SIZE, FW_VERSION_SIZE, IV_SIZE, FORMAT_VERSION

\* Every header has the size that assemble wants.
LEMMA HeaderLength ==
    ASSUME NEW p \in Seq(Byte), NEW v \in Seq(Byte), NEW iv \in Seq(Byte),
           NEW size \in Nat, NEW h, h \in build_header(p, v, iv, size)
    PROVE  Len(h) = HEADER_SIZE
BY HeaderLayout

\* What fota_header_parse reads from where.
LEMMA HeaderRead ==
    ASSUME NEW data, NEW g \in fota_header_parse(data)
    PROVE  /\ Len(data) >= HEADER_SIZE
           /\ g.platform_tag = Bytes(data, 5, PLATFORM_TAG_SIZE)
           /\ g.fw_version = Bytes(data, 21, FW_VERSION_SIZE)
           /\ g.wrapped_key_len = 256 * data[34] + data[35]
           /\ g.iv = Bytes(data, 35, IV_SIZE)
BY DEF fota_header_parse

-----------------------------------------------------------------------------
(* The sections.                                                           *)

LEMMA SectionsRead ==
    ASSUME NEW data, NEW s \in Sections(data)
    PROVE  \E g \in fota_header_parse(data) :
              LET signature_end == HEADER_SIZE + g.wrapped_key_len + SIGNATURE_SIZE
              IN  /\ Len(data) >= signature_end
                  /\ s.header = g
                  /\ s.wrapped_key = Bytes(data, HEADER_SIZE, g.wrapped_key_len)
                  /\ s.signature = Bytes(data, HEADER_SIZE + g.wrapped_key_len,
                                         SIGNATURE_SIZE)
                  /\ s.ciphertext = Bytes(data, signature_end,
                                          Len(data) - signature_end)
                  /\ s.signed_data = SignedData(data, s.wrapped_key, s.ciphertext)
BY DEF Sections

LEMMA SectionsExist ==
    ASSUME NEW data, NEW g \in fota_header_parse(data),
           Len(data) >= HEADER_SIZE + g.wrapped_key_len + SIGNATURE_SIZE
    PROVE  Sections(data) # {}
BY DEF Sections

\* Bytes copied out are what was copied in.
LEMMA SliceIs ==
    ASSUME NEW s \in Seq(Byte), NEW t \in Seq(Byte), NEW offset \in Nat,
           offset + Len(t) <= Len(s),
           \A i \in 1..Len(t) : s[offset + i] = t[i]
    PROVE  Bytes(s, offset, Len(t)) = t
<1> SUFFICES ASSUME NEW n \in Nat, n = Len(t)
             PROVE  Bytes(s, offset, n) = t
  OBVIOUS
<1>1. /\ Bytes(s, offset, n) \in Seq(Byte)
      /\ Len(Bytes(s, offset, n)) = n
      /\ \A i \in 1..n : Bytes(s, offset, n)[i] = s[offset + i]
  <2>1. offset + n <= Len(s)
    OBVIOUS
  <2> QED BY <2>1, Slice
<1> QED BY <1>1, SeqEqual

IsMadeOf(blob, h, w, sig, c) ==
    /\ blob \in Seq(Byte)
    /\ Len(blob) = Len(h) + Len(w) + Len(sig) + Len(c)
    /\ \A i \in 1..Len(h) : blob[i] = h[i]
    /\ \A i \in 1..Len(w) : blob[Len(h) + i] = w[i]
    /\ \A i \in 1..Len(sig) : blob[Len(h) + Len(w) + i] = sig[i]
    /\ \A i \in 1..Len(c) : blob[Len(h) + Len(w) + Len(sig) + i] = c[i]

LEMMA PackageLayout ==
    ASSUME NEW h \in Seq(Byte), NEW w \in Seq(Byte), NEW sig \in Seq(Byte),
           NEW c \in Seq(Byte), NEW blob \in assemble(h, w, sig, c)
    PROVE  IsMadeOf(blob, h, w, sig, c)
<1> DEFINE a == Joint(h, w)
           b == Joint(a, sig)
           d == Joint(b, c)
<1>1. blob = d
  <2>1. blob \in {h \o w \o sig \o c}
    BY Zenon DEF assemble
  <2> QED BY <2>1, Zenon DEF Joint
<1> HIDE DEF a, b, d
<1>. Len(h) \in Nat /\ Len(w) \in Nat /\ Len(sig) \in Nat /\ Len(c) \in Nat
  OBVIOUS
<1>2. /\ a \in Seq(Byte) /\ Len(a) = Len(h) + Len(w)
      /\ \A i \in 1..Len(h) : a[i] = h[i]
      /\ \A i \in 1..Len(w) : a[Len(h) + i] = w[i]
  BY JointParts DEF a
<1>3. /\ b \in Seq(Byte) /\ Len(b) = Len(a) + Len(sig)
      /\ \A i \in 1..Len(a) : b[i] = a[i]
      /\ \A i \in 1..Len(sig) : b[Len(a) + i] = sig[i]
  BY <1>2, JointParts DEF b
<1>4. /\ d \in Seq(Byte) /\ Len(d) = Len(b) + Len(c)
      /\ \A i \in 1..Len(b) : d[i] = b[i]
      /\ \A i \in 1..Len(c) : d[Len(b) + i] = c[i]
  BY <1>3, JointParts DEF d
<1>5. ASSUME NEW i \in 1..Len(h)
      PROVE  d[i] = h[i]
  <2>1. i \in 1..Len(a) /\ i \in 1..Len(b)
    BY <1>2, <1>3
  <2>2. d[i] = b[i] /\ b[i] = a[i] /\ a[i] = h[i]
    BY <1>2, <1>3, <1>4, <2>1
  <2> QED BY <2>2
<1>6. ASSUME NEW i \in 1..Len(w)
      PROVE  d[Len(h) + i] = w[i]
  <2>1. Len(h) + i \in 1..Len(a) /\ Len(h) + i \in 1..Len(b)
    BY <1>2, <1>3
  <2>2. d[Len(h) + i] = b[Len(h) + i]
    BY <1>4, <2>1
  <2>3. b[Len(h) + i] = a[Len(h) + i]
    BY <1>3, <2>1
  <2> QED BY <1>2, <2>2, <2>3
<1>7. ASSUME NEW i \in 1..Len(sig)
      PROVE  d[Len(h) + Len(w) + i] = sig[i]
  <2>1. Len(a) + i \in 1..Len(b)
    BY <1>2, <1>3
  <2>2. d[Len(a) + i] = b[Len(a) + i]
    BY <1>4, <2>1
  <2> QED BY <1>2, <1>3, <2>2
<1>8. Len(b) = Len(h) + Len(w) + Len(sig)
  BY <1>2, <1>3
<1> QED BY <1>1, <1>4, <1>5, <1>6, <1>7, <1>8 DEF IsMadeOf

\* What the sections of n bytes of a package have to be, as one predicate.
IsSplit(data, n, p, v, iv, w, sig, c) ==
    LET end == HEADER_SIZE + Len(w) + SIGNATURE_SIZE
    IN  /\ n < end => Sections(data) = {}
        /\ n >= end => Sections(data) # {}
        /\ \A s \in Sections(data) :
              /\ s.wrapped_key = w
              /\ s.signature = sig
              /\ s.ciphertext = SubSeq(c, 1, n - end)
              /\ s.header.platform_tag = Padded(p, PLATFORM_TAG_SIZE)
              /\ s.header.fw_version = Padded(v, FW_VERSION_SIZE)
              /\ s.header.iv = iv

\* What main() makes of a package of which the first n bytes have arrived.
LEMMA CutIsSplit ==
    ASSUME NEW p \in Seq(Byte), NEW v \in Seq(Byte), NEW iv \in Seq(Byte),
           NEW w \in Seq(Byte), NEW sig \in Seq(Byte), NEW c \in Seq(Byte),
           Len(sig) = SIGNATURE_SIZE,
           NEW h, h \in build_header(p, v, iv, Len(w)),
           NEW blob, blob \in assemble(h, w, sig, c),
           NEW n \in Nat, n <= HEADER_SIZE + Len(w) + SIGNATURE_SIZE + Len(c)
    PROVE  IsSplit(SubSeq(blob, 1, n), n, p, v, iv, w, sig, c)
<1> DEFINE size == Len(w)
           data == SubSeq(blob, 1, n)
           end == HEADER_SIZE + Len(w) + SIGNATURE_SIZE
<1>. size \in Nat /\ Len(c) \in Nat
  OBVIOUS
<1> HIDE DEF data, end
<1>1. /\ h \in Seq(Byte) /\ Len(h) = 51
      /\ Len(p) <= PLATFORM_TAG_SIZE /\ Len(v) <= FW_VERSION_SIZE
      /\ Len(iv) = 16
      /\ \A i \in 1..4 : h[i] = MAGIC[i]
      /\ h[5] = FORMAT_VERSION
      /\ \A i \in 1..16 : h[5 + i] = Padded(p, PLATFORM_TAG_SIZE)[i]
      /\ \A i \in 1..12 : h[21 + i] = Padded(v, FW_VERSION_SIZE)[i]
      /\ h[34] = size \div 256 /\ h[35] = size % 256
      /\ \A i \in 1..16 : h[35 + i] = iv[i]
  BY HeaderLayout, SMTT(20) DEF HEADER_SIZE, PLATFORM_TAG_SIZE, FW_VERSION_SIZE, IV_SIZE
<1> HIDE DEF size
<1>2. /\ blob \in Seq(Byte)
      /\ Len(blob) = 51 + size + 256 + Len(c)
      /\ \A i \in 1..51 : blob[i] = h[i]
      /\ \A i \in 1..size : blob[51 + i] = w[i]
      /\ \A i \in 1..256 : blob[51 + size + i] = sig[i]
      /\ \A i \in 1..Len(c) : blob[51 + size + 256 + i] = c[i]
  <2>1. Len(sig) = 256
    BY DEF SIGNATURE_SIZE
  <2>2. h \in Seq(Byte)
    BY <1>1
  <2>3. IsMadeOf(blob, h, w, sig, c)
    BY <2>2, PackageLayout
  <2>4. Len(h) = 51 /\ Len(w) = size
    BY <1>1 DEF size
  <2>5. /\ blob \in Seq(Byte)
        /\ Len(blob) = Len(h) + Len(w) + Len(sig) + Len(c)
        /\ \A i \in 1..Len(h) : blob[i] = h[i]
        /\ \A i \in 1..Len(w) : blob[Len(h) + i] = w[i]
        /\ \A i \in 1..Len(sig) : blob[Len(h) + Len(w) + i] = sig[i]
        /\ \A i \in 1..Len(c) : blob[Len(h) + Len(w) + Len(sig) + i] = c[i]
    BY <2>3, Zenon DEF IsMadeOf
  <2>6. Len(blob) = 51 + size + 256 + Len(c)
    BY <2>1, <2>4, <2>5
  <2>7. \A i \in 1..51 : blob[i] = h[i]
    BY <2>4, <2>5
  <2>8. \A i \in 1..size : blob[51 + i] = w[i]
    BY <2>4, <2>5
  <2>9. \A i \in 1..256 : blob[51 + size + i] = sig[i]
    <3>1. Len(h) + Len(w) = 51 + size
      BY <2>4
    <3>2. \A i \in 1..Len(sig) : blob[51 + size + i] = sig[i]
      BY <2>5, <3>1, Zenon
    <3> QED BY <2>1, <3>2
  <2>10. \A i \in 1..Len(c) : blob[51 + size + 256 + i] = c[i]
    <3>1. Len(h) + Len(w) + Len(sig) = 51 + size + 256
      BY <2>1, <2>4
    <3> QED BY <2>5, <3>1, Zenon
  <2> QED BY <2>5, <2>6, <2>7, <2>8, <2>9, <2>10
<1>3. /\ data \in Seq(Byte) /\ Len(data) = n
      /\ \A i \in 1..n : data[i] = blob[i]
  <2>1. n <= Len(blob)
    BY <1>2 DEF HEADER_SIZE, SIGNATURE_SIZE, size
  <2> QED BY <1>2, <2>1, Prefix DEF data
<1>4. end = 51 + size + 256
  BY DEF HEADER_SIZE, SIGNATURE_SIZE, size, end
<1>5. ASSUME n >= 51
      PROVE  /\ Bytes(data, 0, 4) = MAGIC
             /\ data[5] = FORMAT_VERSION
             /\ Bytes(data, 5, PLATFORM_TAG_SIZE) = Padded(p, PLATFORM_TAG_SIZE)
             /\ Bytes(data, 21, FW_VERSION_SIZE) = Padded(v, FW_VERSION_SIZE)
             /\ Bytes(data, 35, IV_SIZE) = iv
             /\ 256 * data[34] + data[35] = size
  <2>1. \A i \in 1..51 : data[i] = h[i]
    <3> TAKE i \in 1..51
    <3>1. i \in 1..n
      BY <1>5
    <3> QED BY <1>2, <1>3, <3>1
  <2>2. Bytes(data, 0, 4) = MAGIC
    <3>1. MAGIC \in Seq(Byte) /\ Len(MAGIC) = 4
      BY DEF MAGIC, Byte
    <3>2. \A i \in 1..Len(MAGIC) : data[0 + i] = MAGIC[i]
      <4> TAKE i \in 1..Len(MAGIC)
      <4>1. 0 + i = i /\ i \in 1..4 /\ i \in 1..51
        BY <3>1
      <4> QED BY <1>1, <2>1, <4>1
    <3>3. 0 + Len(MAGIC) <= Len(data)
      BY <1>3, <1>5, <3>1
    <3> QED BY <1>3, <3>1, <3>2, <3>3, SliceIs
  <2>3. data[5] = FORMAT_VERSION
    BY <1>1, <2>1
  <2>4. Bytes(data, 5, PLATFORM_TAG_SIZE) = Padded(p, PLATFORM_TAG_SIZE)
    <3> DEFINE tag == Padded(p, PLATFORM_TAG_SIZE)
    <3>1. tag \in Seq(Byte) /\ Len(tag) = PLATFORM_TAG_SIZE /\ PLATFORM_TAG_SIZE = 16
      <4>1. PLATFORM_TAG_SIZE \in Nat /\ PLATFORM_TAG_SIZE = 16
        BY DEF PLATFORM_TAG_SIZE
      <4>2. Len(p) <= PLATFORM_TAG_SIZE
        BY <1>1
      <4> QED BY <4>1, <4>2, PaddedBytes
    <3> HIDE DEF tag
    <3>2. \A i \in 1..Len(tag) : data[5 + i] = tag[i]
      <4> TAKE i \in 1..Len(tag)
      <4>1. i \in 1..16 /\ 5 + i \in 1..51
        BY <3>1
      <4>2. data[5 + i] = h[5 + i]
        BY <2>1, <4>1
      <4> QED BY <1>1, <4>1, <4>2 DEF tag
    <3>3. 5 + Len(tag) <= Len(data)
      BY <1>3, <1>5, <3>1
    <3>4. Bytes(data, 5, Len(tag)) = tag
      BY <1>3, <3>1, <3>2, <3>3, SliceIs
    <3> QED BY <3>1, <3>4 DEF tag
  <2>5. Bytes(data, 21, FW_VERSION_SIZE) = Padded(v, FW_VERSION_SIZE)
    <3> DEFINE text == Padded(v, FW_VERSION_SIZE)
    <3>1. text \in Seq(Byte) /\ Len(text) = FW_VERSION_SIZE /\ FW_VERSION_SIZE = 12
      <4>1. FW_VERSION_SIZE \in Nat /\ FW_VERSION_SIZE = 12
        BY DEF FW_VERSION_SIZE
      <4>2. Len(v) <= FW_VERSION_SIZE
        BY <1>1
      <4> QED BY <4>1, <4>2, PaddedBytes
    <3> HIDE DEF text
    <3>2. \A i \in 1..Len(text) : data[21 + i] = text[i]
      <4> TAKE i \in 1..Len(text)
      <4>1. i \in 1..12 /\ 21 + i \in 1..51
        BY <3>1
      <4>2. data[21 + i] = h[21 + i]
        BY <2>1, <4>1
      <4> QED BY <1>1, <4>1, <4>2 DEF text
    <3>3. 21 + Len(text) <= Len(data)
      BY <1>3, <1>5, <3>1
    <3>4. Bytes(data, 21, Len(text)) = text
      BY <1>3, <3>1, <3>2, <3>3, SliceIs
    <3> QED BY <3>1, <3>4 DEF text
  <2>6. Bytes(data, 35, IV_SIZE) = iv
    <3>1. Len(iv) = IV_SIZE /\ IV_SIZE = 16
      BY <1>1 DEF IV_SIZE
    <3>2. \A i \in 1..Len(iv) : data[35 + i] = iv[i]
      <4> TAKE i \in 1..Len(iv)
      <4>1. i \in 1..16 /\ 35 + i \in 1..51
        BY <3>1
      <4>2. data[35 + i] = h[35 + i]
        BY <2>1, <4>1
      <4> QED BY <1>1, <4>1, <4>2
    <3>3. 35 + Len(iv) <= Len(data)
      BY <1>3, <1>5, <3>1
    <3> QED BY <1>3, <3>1, <3>2, <3>3, SliceIs, ZenonT(20)
  <2>7. 256 * data[34] + data[35] = size
    <3>1. data[34] = size \div 256 /\ data[35] = size % 256
      <4>1. data[34] = h[34] /\ data[35] = h[35]
        BY <2>1
      <4> QED BY <1>1, <4>1
    <3>2. 256 * (size \div 256) + (size % 256) = size
      BY TwoBytes
    <3> QED BY <3>1, <3>2
  <2> QED BY <2>2, <2>3, <2>4, <2>5, <2>6, <2>7
<1>6. ASSUME NEW g \in fota_header_parse(data)
      PROVE  /\ n >= 51
             /\ g.wrapped_key_len = size
             /\ g.platform_tag = Padded(p, PLATFORM_TAG_SIZE)
             /\ g.fw_version = Padded(v, FW_VERSION_SIZE)
             /\ g.iv = iv
  <2>1. n >= 51
    BY <1>3, HeaderRead DEF HEADER_SIZE
  <2> QED BY <1>5, <2>1, HeaderRead
<1>8. ASSUME n < end
      PROVE  Sections(data) = {}
  <2> SUFFICES ASSUME NEW s \in Sections(data)
               PROVE  FALSE
    OBVIOUS
  <2>1. PICK g \in fota_header_parse(data) :
            Len(data) >= HEADER_SIZE + g.wrapped_key_len + SIGNATURE_SIZE
    BY SectionsRead
  <2>2. g.wrapped_key_len = size
    BY <1>6
  <2> QED BY <1>3, <1>4, <1>8, <2>1, <2>2 DEF HEADER_SIZE, SIGNATURE_SIZE
<1>9. ASSUME n >= end
      PROVE  Sections(data) # {}
  <2>1. n >= 51
    BY <1>4, <1>9
  <2>2. fota_header_parse(data) # {}
    <3>1. Len(data) >= HEADER_SIZE
      BY <1>3, <2>1 DEF HEADER_SIZE
    <3> QED BY <1>5, <2>1, <3>1 DEF fota_header_parse
  <2>3. PICK g \in fota_header_parse(data) : TRUE
    BY <2>2
  <2>4. g.wrapped_key_len = size
    BY <1>6
  <2>5. Len(data) >= HEADER_SIZE + g.wrapped_key_len + SIGNATURE_SIZE
    BY <1>3, <1>4, <1>9, <2>4 DEF HEADER_SIZE, SIGNATURE_SIZE
  <2> QED BY <2>5, SectionsExist
<1>10. ASSUME NEW s \in Sections(data)
       PROVE  /\ s.wrapped_key = w
              /\ s.signature = sig
              /\ s.ciphertext = SubSeq(c, 1, n - end)
              /\ s.header.platform_tag = Padded(p, PLATFORM_TAG_SIZE)
              /\ s.header.fw_version = Padded(v, FW_VERSION_SIZE)
              /\ s.header.iv = iv
  <2>1. PICK g \in fota_header_parse(data) :
          /\ s.header = g
          /\ Len(data) >= HEADER_SIZE + g.wrapped_key_len + SIGNATURE_SIZE
          /\ s.wrapped_key = Bytes(data, HEADER_SIZE, g.wrapped_key_len)
          /\ s.signature = Bytes(data, HEADER_SIZE + g.wrapped_key_len, SIGNATURE_SIZE)
          /\ s.ciphertext =
                Bytes(data, HEADER_SIZE + g.wrapped_key_len + SIGNATURE_SIZE,
                      Len(data) - (HEADER_SIZE + g.wrapped_key_len + SIGNATURE_SIZE))
    BY SectionsRead
  <2>2. g.wrapped_key_len = size
    BY <1>6
  <2>3. /\ n >= end
        /\ s.wrapped_key = Bytes(data, 51, size)
        /\ s.signature = Bytes(data, 51 + size, 256)
        /\ s.ciphertext = Bytes(data, end, n - end)
    BY <1>3, <1>4, <2>1, <2>2 DEF HEADER_SIZE, SIGNATURE_SIZE
  <2>4. s.wrapped_key = w
    <3>1. \A i \in 1..Len(w) : data[51 + i] = w[i]
      <4> TAKE i \in 1..Len(w)
      <4>1. i \in 1..size /\ 51 + i \in 1..n
        BY <1>4, <2>3 DEF size
      <4>2. data[51 + i] = blob[51 + i]
        BY <1>3, <4>1
      <4> QED BY <1>2, <4>1, <4>2
    <3>2. 51 + Len(w) <= Len(data)
      BY <1>3, <1>4, <2>3 DEF size
    <3>3. Bytes(data, 51, Len(w)) = w
      BY <1>3, <3>1, <3>2, SliceIs
    <3> QED BY <2>3, <3>3 DEF size
  <2>5. s.signature = sig
    <3>1. Len(sig) = 256
      BY DEF SIGNATURE_SIZE
    <3>2. \A i \in 1..Len(sig) : data[51 + size + i] = sig[i]
      <4> TAKE i \in 1..Len(sig)
      <4>1. i \in 1..256 /\ 51 + size + i \in 1..n
        <5>1. n >= 51 + size + 256
          BY <1>4, <2>3
        <5> QED BY <3>1, <5>1
      <4>2. data[51 + size + i] = blob[51 + size + i]
        BY <1>3, <4>1
      <4> QED BY <1>2, <4>1, <4>2
    <3>3. 51 + size \in Nat /\ 51 + size + Len(sig) <= Len(data)
      BY <1>3, <1>4, <2>3, <3>1
    <3>4. Bytes(data, 51 + size, Len(sig)) = sig
      BY <1>3, <3>2, <3>3, SliceIs
    <3> QED BY <2>3, <3>1, <3>4
  <2>6. s.ciphertext = SubSeq(c, 1, n - end)
    <3> DEFINE rest == n - end
    <3>1. rest \in Nat /\ rest <= Len(c) /\ end \in Nat /\ end + rest = n
      <4>1. n <= 51 + size + 256 + Len(c)
        BY DEF HEADER_SIZE, SIGNATURE_SIZE, size
      <4> QED BY <1>4, <2>3, <4>1
    <3> HIDE DEF rest
    <3>2. /\ Bytes(data, end, rest) \in Seq(Byte) /\ Len(Bytes(data, end, rest)) = rest
          /\ \A i \in 1..rest : Bytes(data, end, rest)[i] = data[end + i]
      <4>1. end + rest <= Len(data)
        BY <1>3, <3>1
      <4> QED BY <1>3, <3>1, <4>1, Slice, ZenonT(20)
    <3>4. /\ SubSeq(c, 1, rest) \in Seq(Byte) /\ Len(SubSeq(c, 1, rest)) = rest
          /\ \A i \in 1..rest : SubSeq(c, 1, rest)[i] = c[i]
      BY <3>1, Prefix
    <3>5. ASSUME NEW i \in 1..rest
          PROVE  data[end + i] = c[i]
      <4>1. /\ i \in 1..Len(c) /\ end + i \in 1..n
            /\ end + i = 51 + size + 256 + i
        BY <1>4, <3>1
      <4>2. data[end + i] = blob[end + i]
        BY <1>3, <4>1
      <4>3. blob[51 + size + 256 + i] = c[i]
        BY <1>2, <4>1
      <4> QED BY <4>1, <4>2, <4>3
    <3>6. Bytes(data, end, rest) = SubSeq(c, 1, rest)
      BY <3>2, <3>4, <3>5, SeqEqual, ZenonT(20)
    <3> QED BY <2>3, <3>6 DEF rest
  <2>7. /\ s.header.platform_tag = Padded(p, PLATFORM_TAG_SIZE)
        /\ s.header.fw_version = Padded(v, FW_VERSION_SIZE)
        /\ s.header.iv = iv
    BY <1>6, <2>1
  <2> QED BY <2>4, <2>5, <2>6, <2>7
<1>11. IsSplit(data, n, p, v, iv, w, sig, c)
  BY <1>8, <1>9, <1>10 DEF IsSplit, end
<1> QED BY <1>11 DEF data

-----------------------------------------------------------------------------
(* What is signed.                                                         *)

LEMMA JointCancels ==
    ASSUME NEW s \in Seq(Byte), NEW t \in Seq(Byte),
           NEW u \in Seq(Byte), NEW v \in Seq(Byte),
           Joint(s, t) = Joint(u, v), Len(s) = Len(u)
    PROVE  s = u /\ t = v
<1>. Len(s) \in Nat /\ Len(t) \in Nat /\ Len(u) \in Nat /\ Len(v) \in Nat
  OBVIOUS
<1>1. /\ Len(Joint(s, t)) = Len(s) + Len(t)
      /\ \A i \in 1..Len(s) : Joint(s, t)[i] = s[i]
      /\ \A i \in 1..Len(t) : Joint(s, t)[Len(s) + i] = t[i]
  BY JointParts
<1>2. /\ Len(Joint(s, t)) = Len(u) + Len(v)
      /\ \A i \in 1..Len(u) : Joint(s, t)[i] = u[i]
      /\ \A i \in 1..Len(v) : Joint(s, t)[Len(u) + i] = v[i]
  <2>1. /\ Len(Joint(u, v)) = Len(u) + Len(v)
        /\ \A i \in 1..Len(u) : Joint(u, v)[i] = u[i]
        /\ \A i \in 1..Len(v) : Joint(u, v)[Len(u) + i] = v[i]
    BY JointParts
  <2> QED BY <2>1
<1>3. \A i \in 1..Len(s) : s[i] = u[i]
  BY <1>1, <1>2
<1>4. Len(t) = Len(v)
  BY <1>1, <1>2
<1>5. \A i \in 1..Len(t) : t[i] = v[i]
  BY <1>1, <1>2, <1>4
<1> QED BY <1>3, <1>4, <1>5, SeqEqual

LEMMA SameSlice ==
    ASSUME NEW s \in Seq(Byte), NEW t \in Seq(Byte),
           51 <= Len(s), 51 <= Len(t),
           NEW offset \in Nat, NEW n \in Nat, offset + n <= 51
    PROVE  (\A i \in 1..51 : s[i] = t[i])
                => Bytes(s, offset, n) = Bytes(t, offset, n)
<1>1. offset + n <= Len(s) /\ offset + n <= Len(t)
  <2>1. Len(s) \in Nat /\ Len(t) \in Nat
    BY LenProperties
  <2> QED BY <2>1
<1>2. /\ Bytes(s, offset, n) \in Seq(Byte) /\ Len(Bytes(s, offset, n)) = n
      /\ \A i \in 1..n : Bytes(s, offset, n)[i] = s[offset + i]
  BY <1>1, Slice
<1>3. /\ Bytes(t, offset, n) \in Seq(Byte) /\ Len(Bytes(t, offset, n)) = n
      /\ \A i \in 1..n : Bytes(t, offset, n)[i] = t[offset + i]
  BY <1>1, Slice
<1>4. \A i \in 1..n : offset + i \in 1..51
  OBVIOUS
<1> HAVE \A i \in 1..51 : s[i] = t[i]
<1>5. \A i \in 1..n : s[offset + i] = t[offset + i]
  BY <1>4
<1> QED BY <1>2, <1>3, <1>5, SeqEqual

\* A header is what its 51 bytes say.
LEMMA SameHeader ==
    ASSUME NEW a \in Seq(Byte), NEW b \in Seq(Byte),
           NEW g \in fota_header_parse(a), NEW h \in fota_header_parse(b),
           \A i \in 1..51 : a[i] = b[i]
    PROVE  g = h
<1>1. 51 <= Len(a) /\ 51 <= Len(b)
  BY HeaderRead DEF HEADER_SIZE
<1>2. /\ Bytes(a, 5, 16) = Bytes(b, 5, 16)
      /\ Bytes(a, 21, 12) = Bytes(b, 21, 12)
      /\ Bytes(a, 35, 16) = Bytes(b, 35, 16)
  <2>1. ASSUME NEW offset \in Nat, NEW n \in Nat, offset + n <= 51
        PROVE  Bytes(a, offset, n) = Bytes(b, offset, n)
    BY <1>1, <2>1, SameSlice
  <2>2. /\ 5 \in Nat /\ 16 \in Nat /\ 5 + 16 <= 51
        /\ 21 \in Nat /\ 12 \in Nat /\ 21 + 12 <= 51
        /\ 35 \in Nat /\ 35 + 16 <= 51
    OBVIOUS
  <2> QED BY Zenon, <2>1, <2>2
<1>3. a[34] = b[34] /\ a[35] = b[35]
  OBVIOUS
<1> QED BY <1>2, <1>3
        DEF fota_header_parse, PLATFORM_TAG_SIZE, FW_VERSION_SIZE, IV_SIZE

LEMMA SignedParts ==
    ASSUME NEW data \in Seq(Byte), NEW s \in Sections(data)
    PROVE  /\ s.header \in fota_header_parse(data)
           /\ 51 <= Len(data)
           /\ s.wrapped_key \in Seq(Byte) /\ s.ciphertext \in Seq(Byte)
           /\ Len(s.wrapped_key) = s.header.wrapped_key_len
           /\ s.signed_data =
                Joint(Joint(SubSeq(data, 1, 51), s.wrapped_key), s.ciphertext)
<1>1. PICK g \in fota_header_parse(data) :
        LET signature_end == HEADER_SIZE + g.wrapped_key_len + SIGNATURE_SIZE
        IN  /\ Len(data) >= signature_end
            /\ s.header = g
            /\ s.wrapped_key = Bytes(data, HEADER_SIZE, g.wrapped_key_len)
            /\ s.ciphertext = Bytes(data, signature_end, Len(data) - signature_end)
            /\ s.signed_data = SignedData(data, s.wrapped_key, s.ciphertext)
  BY SectionsRead
<1>2. Len(data) \in Nat /\ 51 <= Len(data)
  BY HeaderRead DEF HEADER_SIZE
<1>3. g.wrapped_key_len \in Nat
  <2>1. g.wrapped_key_len = 256 * data[34] + data[35]
    BY HeaderRead
  <2>2. data[34] \in Byte /\ data[35] \in Byte
    <3>1. 34 \in 1..Len(data) /\ 35 \in 1..Len(data)
      BY <1>2
    <3> QED BY <3>1, ElementOfSeq
  <2>3. data[34] \in Nat /\ data[35] \in Nat
    <3>1. \A x \in Byte : x \in Nat
      BY DEF Byte
    <3> QED BY <2>2, <3>1
  <2> QED BY <2>1, <2>3
<1> DEFINE size == g.wrapped_key_len
           end == 51 + size + 256
           rest == Len(data) - end
<1>4. /\ size \in Nat /\ end \in Nat /\ rest \in Nat
      /\ 51 + size <= Len(data) /\ end + rest <= Len(data)
  BY <1>1, <1>2, <1>3 DEF HEADER_SIZE, SIGNATURE_SIZE
<1>5. /\ s.wrapped_key = Bytes(data, 51, size)
      /\ s.ciphertext = Bytes(data, end, rest)
  BY <1>1 DEF HEADER_SIZE, SIGNATURE_SIZE
<1> HIDE DEF size, end, rest
<1>6. Bytes(data, 51, size) \in Seq(Byte) /\ Len(Bytes(data, 51, size)) = size
  BY <1>4, Slice
<1>7. Bytes(data, end, rest) \in Seq(Byte)
  BY <1>4, Slice
<1>8. s.signed_data = Joint(Joint(SubSeq(data, 1, 51), s.wrapped_key), s.ciphertext)
  <2>1. s.signed_data = SignedData(data, s.wrapped_key, s.ciphertext)
    BY <1>1
  <2>2. Bytes(data, 0, HEADER_SIZE) = SubSeq(data, 1, 51)
    BY DEF Bytes, HEADER_SIZE
  <2> QED BY Zenon, <2>1, <2>2 DEF SignedData, Joint
<1> QED BY <1>1, <1>2, <1>5, <1>6, <1>7, <1>8 DEF size

LEMMA SignedIsAll ==
    ASSUME NEW a \in Seq(Byte), NEW b \in Seq(Byte),
           NEW s \in Sections(a), NEW t \in Sections(b),
           s.signed_data = t.signed_data
    PROVE  /\ s.header = t.header
           /\ s.wrapped_key = t.wrapped_key
           /\ s.ciphertext = t.ciphertext
<1> DEFINE ha == SubSeq(a, 1, 51)
           hb == SubSeq(b, 1, 51)
<1>1. /\ s.header \in fota_header_parse(a) /\ 51 <= Len(a)
      /\ s.wrapped_key \in Seq(Byte) /\ s.ciphertext \in Seq(Byte)
      /\ Len(s.wrapped_key) = s.header.wrapped_key_len
      /\ s.signed_data = Joint(Joint(ha, s.wrapped_key), s.ciphertext)
  BY SignedParts
<1>2. /\ t.header \in fota_header_parse(b) /\ 51 <= Len(b)
      /\ t.wrapped_key \in Seq(Byte) /\ t.ciphertext \in Seq(Byte)
      /\ Len(t.wrapped_key) = t.header.wrapped_key_len
      /\ t.signed_data = Joint(Joint(hb, t.wrapped_key), t.ciphertext)
  BY SignedParts
<1>3. /\ ha \in Seq(Byte) /\ Len(ha) = 51 /\ \A i \in 1..51 : ha[i] = a[i]
  BY <1>1, Prefix
<1>4. /\ hb \in Seq(Byte) /\ Len(hb) = 51 /\ \A i \in 1..51 : hb[i] = b[i]
  BY <1>2, Prefix
<1> HIDE DEF ha, hb
<1> DEFINE ja == Joint(ha, s.wrapped_key)
           jb == Joint(hb, t.wrapped_key)
<1>5. /\ ja \in Seq(Byte) /\ Len(ja) = 51 + Len(s.wrapped_key)
      /\ \A i \in 1..51 : ja[i] = ha[i]
  <2>1. /\ ja \in Seq(Byte) /\ Len(ja) = Len(ha) + Len(s.wrapped_key)
        /\ \A i \in 1..Len(ha) : ja[i] = ha[i]
    BY <1>1, <1>3, JointParts
  <2> QED BY <1>3, <2>1
<1>6. /\ jb \in Seq(Byte) /\ Len(jb) = 51 + Len(t.wrapped_key)
      /\ \A i \in 1..51 : jb[i] = hb[i]
  <2>1. /\ jb \in Seq(Byte) /\ Len(jb) = Len(hb) + Len(t.wrapped_key)
        /\ \A i \in 1..Len(hb) : jb[i] = hb[i]
    BY <1>2, <1>4, JointParts
  <2> QED BY <1>4, <2>1
<1>7. Joint(ja, s.ciphertext) = Joint(jb, t.ciphertext)
  BY <1>1, <1>2
<1> HIDE DEF ja, jb
<1>8. \A i \in 1..51 : a[i] = b[i]
  <2> TAKE i \in 1..51
  <2>1. Len(s.wrapped_key) \in Nat /\ Len(t.wrapped_key) \in Nat
    BY <1>1, <1>2
  <2>2. i \in 1..Len(ja) /\ i \in 1..Len(jb)
    <3>1. Len(ja) = 51 + Len(s.wrapped_key) /\ Len(jb) = 51 + Len(t.wrapped_key)
      BY <1>5, <1>6
    <3> QED BY <2>1, <3>1
  <2>3. Joint(ja, s.ciphertext)[i] = ja[i]
    BY <1>1, <1>5, <2>2, JointParts, ZenonT(20)
  <2>4. Joint(jb, t.ciphertext)[i] = jb[i]
    BY <1>2, <1>6, <2>2, JointParts, ZenonT(20)
  <2> QED BY <1>3, <1>4, <1>5, <1>6, <1>7, <2>3, <2>4
<1>9. s.header = t.header
  <2>1. /\ s.header \in fota_header_parse(a)
        /\ t.header \in fota_header_parse(b)
    BY <1>1, <1>2
  <2> QED BY <1>8, <2>1, SameHeader
<1>10. Len(s.wrapped_key) = Len(t.wrapped_key)
  BY <1>1, <1>2, <1>9
<1>11. ja = jb /\ s.ciphertext = t.ciphertext
  <2>1. Len(ja) = Len(jb)
    BY <1>5, <1>6, <1>10
  <2>2. ja \in Seq(Byte) /\ jb \in Seq(Byte)
    BY <1>5, <1>6
  <2>3. s.ciphertext \in Seq(Byte) /\ t.ciphertext \in Seq(Byte)
    BY <1>1, <1>2
  <2> QED BY <1>7, <2>1, <2>2, <2>3, JointCancels
<1>12. s.wrapped_key = t.wrapped_key
  <2>1. Len(ha) = Len(hb)
    BY <1>3, <1>4
  <2>2. ha \in Seq(Byte) /\ hb \in Seq(Byte)
    BY <1>3, <1>4
  <2>3. s.wrapped_key \in Seq(Byte) /\ t.wrapped_key \in Seq(Byte)
    BY <1>1, <1>2
  <2>4. Joint(ha, s.wrapped_key) = Joint(hb, t.wrapped_key)
    BY <1>11 DEF ja, jb
  <2> QED BY <2>1, <2>2, <2>3, <2>4, JointCancels
<1> QED BY <1>9, <1>11, <1>12

-----------------------------------------------------------------------------
(* The number that digits stand for.                                       *)

\* The steps of Place.
LEMMA PlaceSteps ==
    ASSUME NEW base \in Nat
    PROVE  /\ Place(base, 0) = 1
           /\ \A n \in Nat : /\ Place(base, n) \in Nat
                             /\ Place(base, n + 1) = base * Place(base, n)
<1> DEFINE Is(f) == f = [i \in Nat |-> IF i = 0 THEN 1 ELSE base * f[i - 1]]
           place == CHOOSE f : Is(f)
           D == [p \in Nat \X Nat |-> base * p[1]]
<1>1. D \in [Nat \X Nat -> Nat] /\ \A a, i \in Nat : D[<<a, i>>] = base * a
  OBVIOUS
<1> HIDE DEF D
<1>2. PICK f \in [Nat -> Nat] :
         f[0] = 1 /\ \A n \in Nat : f[n + 1] = D[<<f[n], n + 1>>]
  <2>1. \E f \in [Nat -> Nat] : AllSteps(f, 1, D)
    BY <1>1, Recursion
  <2> QED BY <2>1 DEF AllSteps
<1>3. \A n \in Nat : f[n + 1] = base * f[n]
  <2> TAKE n \in Nat
  <2>1. f[n] \in Nat /\ n + 1 \in Nat
    BY <1>2
  <2>2. D[<<f[n], n + 1>>] = base * f[n]
    BY <1>1, <2>1
  <2> QED BY <1>2, <2>2
<1>4. \A i \in Nat : f[i] = IF i = 0 THEN 1 ELSE base * f[i - 1]
  <2> SUFFICES ASSUME NEW i \in Nat, i # 0
               PROVE  f[i] = base * f[i - 1]
    BY <1>2
  <2>1. i - 1 \in Nat /\ (i - 1) + 1 = i
    OBVIOUS
  <2> QED BY <1>3, <2>1
<1>5. Is(f)
  BY <1>4
<1>6. Is(place)
  BY <1>5
<1>7. \A n \in Nat : Place(base, n) = place[n]
  BY DEF Place
<1> HIDE DEF place
<1>8. \A n \in Nat : place[n] = f[n]
  <2> DEFINE Same == {n \in Nat : place[n] = f[n]}
  <2>1. 0 \in Same
    BY <1>2, <1>6
  <2>2. ASSUME NEW n \in Nat, n \in Same
        PROVE  n + 1 \in Same
    <3>1. place[n + 1] = base * place[(n + 1) - 1]
      BY <1>6
    <3>2. (n + 1) - 1 = n
      OBVIOUS
    <3>3. place[n + 1] = f[n + 1]
      BY <1>3, <2>2, <3>1, <3>2
    <3> QED BY <3>3
  <2> HIDE DEF Same
  <2>3. Nat \subseteq Same
    BY <2>1, <2>2, Induction
  <2> QED BY <2>3 DEF Same
<1> QED BY <1>2, <1>3, <1>7, <1>8

\* The sum, one digit after another from the last.
LEMMA SumSteps ==
    ASSUME NEW base \in Nat, NEW digits \in Seq(Nat)
    PROVE  \E f \in [0..Len(digits) -> Nat] :
              /\ f[0] = 0
              /\ \A i \in 1..Len(digits) :
                    f[i] = f[i - 1]
                             + digits[Len(digits) + 1 - i] * Place(base, i - 1)
              /\ NumberOf(digits, base) = f[Len(digits)]
<1> DEFINE n == Len(digits)
           term == [i \in 1..n |-> digits[n + 1 - i] * Place(base, i - 1)]
           Is(f) == f = [i \in 0..n |-> IF i = 0 THEN 0
                             ELSE f[i - 1] + digits[n + 1 - i] * Place(base, i - 1)]
           sum == CHOOSE f : Is(f)
           D == [p \in Nat \X Nat |-> IF p[2] \in 1..n THEN p[1] + term[p[2]] ELSE p[1]]
<1>1. n \in Nat
  OBVIOUS
<1>2. NumberOf(digits, base) = sum[n]
  BY Zenon DEF NumberOf
<1>3. \A i \in 1..n : term[i] = digits[n + 1 - i] * Place(base, i - 1)
  OBVIOUS
<1>4. \A i \in 1..n : term[i] \in Nat
  <2> TAKE i \in 1..n
  <2>1. n + 1 - i \in 1..n /\ i - 1 \in Nat
    BY <1>1
  <2>2. digits[n + 1 - i] \in Nat
    BY <2>1
  <2>2a. Place(base, i - 1) \in Nat
    BY <2>1, PlaceSteps
  <2>3. \A x, y \in Nat : x * y \in Nat
    OBVIOUS
  <2> QED BY <1>3, <2>2, <2>2a, <2>3
<1> HIDE DEF term, n
<1>5. /\ D \in [Nat \X Nat -> Nat]
      /\ \A a \in Nat, i \in 1..n : D[<<a, i>>] = a + term[i]
  BY <1>1, <1>4
<1> HIDE DEF D
<1>6. PICK f \in [0..n -> Nat] : Steps(f, n, 0, D)
  BY <1>1, <1>5, StepsExist
<1>7. /\ f[0] = 0
      /\ \A i \in 1..n : f[i] = f[i - 1] + term[i]
  <2>1. f[0] = 0
    BY <1>6 DEF Steps
  <2>2. ASSUME NEW i \in 1..n
        PROVE  f[i] = f[i - 1] + term[i]
    <3>1. i - 1 \in 0..n
      BY <1>1
    <3> QED BY <1>5, <1>6, <3>1 DEF Steps
  <2> QED BY <2>1, <2>2
<1>8. \A i \in 1..n : f[i] = f[i - 1] + digits[n + 1 - i] * Place(base, i - 1)
  BY <1>3, <1>7
<1> DEFINE step(g, i) == g[i - 1] + digits[n + 1 - i] * Place(base, i - 1)
<1>9. Is(f)
  <2>1. \A i \in 0..n : f[i] = IF i = 0 THEN 0 ELSE step(f, i)
    <3>1. \A i \in 0..n : i # 0 => i \in 1..n
      BY <1>1
    <3>2. \A i \in 1..n : f[i] = step(f, i)
      BY <1>8
    <3> HIDE DEF step
    <3> QED BY <1>7, <3>1, <3>2
  <2> HIDE DEF step
  <2>2. f = [i \in 0..n |-> IF i = 0 THEN 0 ELSE step(f, i)]
    BY <1>6, <2>1
  <2> QED BY <2>2 DEF step
<1>10. Is(sum)
  BY <1>9, Zenon
<1> HIDE DEF sum
<1>11. /\ sum[0] = 0
       /\ \A i \in 1..n : sum[i] = sum[i - 1] + term[i]
  <2>1. sum = [i \in 0..n |-> IF i = 0 THEN 0 ELSE step(sum, i)]
    BY <1>10
  <2>2. \A i \in 1..n : step(sum, i) = sum[i - 1] + term[i]
    BY <1>3
  <2> HIDE DEF step
  <2>3. 0 \in 0..n /\ \A i \in 1..n : i \in 0..n /\ i # 0
    BY <1>1
  <2>4. sum[0] = 0
    BY <2>1, <2>3
  <2>5. \A i \in 1..n : sum[i] = step(sum, i)
    BY <2>1, <2>3
  <2> QED BY <2>2, <2>4, <2>5
<1>12. \A k \in Nat : k <= n => sum[k] = f[k]
  <2> DEFINE Same == {k \in Nat : k <= n => sum[k] = f[k]}
  <2>1. 0 \in Same
    BY <1>7, <1>11
  <2>2. ASSUME NEW k \in Nat, k \in Same
        PROVE  k + 1 \in Same
    <3> SUFFICES ASSUME k + 1 <= n
                 PROVE  sum[k + 1] = f[k + 1]
      OBVIOUS
    <3>1. k + 1 \in 1..n /\ (k + 1) - 1 = k /\ k <= n
      BY <1>1
    <3>2. sum[k] = f[k]
      BY <2>2, <3>1
    <3> QED BY <1>7, <1>11, <3>1, <3>2
  <2> HIDE DEF Same
  <2>3. Nat \subseteq Same
    BY <2>1, <2>2, Induction
  <2> QED BY <2>3 DEF Same
<1>13. sum[n] = f[n]
  BY <1>1, <1>12
<1> QED BY <1>2, <1>6, <1>7, <1>8, <1>13 DEF n

\* No digits, and one digit more.
LEMMA NumberOfNone ==
    ASSUME NEW base \in Nat
    PROVE  NumberOf(<<>>, base) = 0
<1> DEFINE none == <<>>
<1>1. none \in Seq(Nat) /\ Len(none) = 0
  OBVIOUS
<1> HIDE DEF none
<1>2. PICK f \in [0..Len(none) -> Nat] :
         f[0] = 0 /\ NumberOf(none, base) = f[Len(none)]
  BY <1>1, SumSteps, Zenon
<1> QED BY <1>1, <1>2 DEF none

LEMMA Scaled ==
    ASSUME NEW base \in Nat, NEW f \in Nat, NEW x \in Nat, NEW place \in Nat,
           NEW d \in Nat
    PROVE  base * f + d + x * (base * place) = base * (f + x * place) + d
OBVIOUS

LEMMA NumberOfAppend ==
    ASSUME NEW base \in Nat, NEW s \in Seq(Nat), NEW d \in Nat
    PROVE  /\ NumberOf(s, base) \in Nat
           /\ NumberOf(Append(s, d), base) = base * NumberOf(s, base) + d
<1> DEFINE n == Len(s)
           t == Append(s, d)
<1>1. /\ n \in Nat /\ t \in Seq(Nat) /\ Len(t) = n + 1 /\ t[n + 1] = d
      /\ \A i \in 1..n : t[i] = s[i] /\ s[i] \in Nat
  OBVIOUS
<1>2. PICK f \in [0..n -> Nat] :
         /\ f[0] = 0
         /\ \A i \in 1..n : f[i] = f[i - 1] + s[n + 1 - i] * Place(base, i - 1)
         /\ NumberOf(s, base) = f[n]
  BY SumSteps
<1> HIDE DEF n, t
<1>3. PICK g \in [0..(n + 1) -> Nat] :
         /\ g[0] = 0
         /\ \A i \in 1..(n + 1) :
               g[i] = g[i - 1] + t[(n + 1) + 1 - i] * Place(base, i - 1)
         /\ NumberOf(t, base) = g[n + 1]
  <2> DEFINE m == n + 1
  <2>1. Len(t) = m
    BY <1>1
  <2> HIDE DEF m
  <2>2. \E g \in [0..m -> Nat] :
           /\ g[0] = 0
           /\ \A i \in 1..m : g[i] = g[i - 1] + t[m + 1 - i] * Place(base, i - 1)
           /\ NumberOf(t, base) = g[m]
    BY <1>1, <2>1, SumSteps
  <2> QED BY <2>2 DEF m
<1>4. \A k \in Nat : k <= n => g[k + 1] = base * f[k] + d
  <2> DEFINE Shifted == {k \in Nat : k <= n => g[k + 1] = base * f[k] + d}
  <2>1. 0 \in Shifted
    <3>1. 1 \in 1..(n + 1) /\ 1 - 1 = 0 /\ (n + 1) + 1 - 1 = n + 1
      BY <1>1
    <3>2. g[1] = g[0] + t[n + 1] * Place(base, 0)
      BY <1>3, <3>1
    <3>3. g[1] = d
      BY <1>1, <1>3, <3>2, PlaceSteps
    <3> QED BY <1>2, <3>3
  <2>2. ASSUME NEW k \in Nat, k \in Shifted
        PROVE  k + 1 \in Shifted
    <3> SUFFICES ASSUME k + 1 <= n
                 PROVE  g[(k + 1) + 1] = base * f[k + 1] + d
      OBVIOUS
    <3> DEFINE x == s[n - k]
               place == Place(base, k)
    <3>1. /\ k + 1 \in 1..n /\ (k + 1) - 1 = k /\ k <= n /\ k \in 0..n
          /\ n + 1 - (k + 1) = n - k /\ n - k \in 1..n
          /\ (k + 1) + 1 \in 1..(n + 1) /\ ((k + 1) + 1) - 1 = k + 1
          /\ (n + 1) + 1 - ((k + 1) + 1) = n - k
      BY <1>1
    <3>2. f[k + 1] = f[k] + x * place
      BY <1>2, <3>1
    <3>3. g[(k + 1) + 1] = g[k + 1] + t[n - k] * Place(base, k + 1)
      BY <1>3, <3>1
    <3>4. t[n - k] = x /\ x \in Nat /\ f[k] \in Nat
      BY <1>1, <1>2, <3>1
    <3>5. place \in Nat /\ Place(base, k + 1) = base * place
      BY PlaceSteps
    <3>6. g[k + 1] = base * f[k] + d
      BY <2>2, <3>1
    <3> HIDE DEF x, place
    <3>7. base * f[k] + d + x * (base * place) = base * (f[k] + x * place) + d
      BY <3>4, <3>5, Scaled
    <3> QED BY <3>2, <3>3, <3>4, <3>5, <3>6, <3>7
  <2> HIDE DEF Shifted
  <2>3. Nat \subseteq Shifted
    BY <2>1, <2>2, Induction
  <2> QED BY <2>3 DEF Shifted
<1>5. g[n + 1] = base * f[n] + d
  BY <1>1, <1>4
<1>6. f[n] \in Nat
  BY <1>1, <1>2
<1> QED BY <1>2, <1>3, <1>5, <1>6 DEF t

\* A part that is longer by one.
LEMMA OneMore ==
    ASSUME NEW T, NEW s \in Seq(T), NEW from \in 1..Len(s),
           NEW to \in from..Len(s)
    PROVE  /\ SubSeq(s, from, to - 1) \in Seq(T)
           /\ SubSeq(s, from, to) = Append(SubSeq(s, from, to - 1), s[to])
<1> DEFINE part == SubSeq(s, from, to - 1)
           whole == SubSeq(s, from, to)
           n == to - from
<1>1. /\ Len(s) \in Nat /\ n \in Nat /\ from \in Int /\ to \in Int
      /\ to - 1 \in Int
      /\ \A i \in from..to : s[i] \in T
      /\ \A i \in from..(to - 1) : s[i] \in T
  OBVIOUS
<1>2. /\ part \in Seq(T)
      /\ Len(part) = n
      /\ \A i \in 1..n : part[i] = s[from + i - 1]
  <2>1. /\ part \in Seq(T)
        /\ Len(part) = IF from <= to - 1 THEN (to - 1) - from + 1 ELSE 0
        /\ \A i \in 1..((to - 1) - from + 1) : part[i] = s[from + i - 1]
    BY <1>1, SubSeqProperties
  <2>2. (to - 1) - from + 1 = n /\ (~(from <= to - 1) => n = 0)
    BY <1>1
  <2> QED BY <2>1, <2>2
<1>3. /\ whole \in Seq(T)
      /\ Len(whole) = n + 1
      /\ \A i \in 1..(n + 1) : whole[i] = s[from + i - 1]
  <2>1. /\ whole \in Seq(T)
        /\ Len(whole) = IF from <= to THEN to - from + 1 ELSE 0
        /\ \A i \in 1..(to - from + 1) : whole[i] = s[from + i - 1]
    BY <1>1, SubSeqProperties
  <2> QED BY <1>1, <2>1
<1>4. s[to] \in T /\ s[to] = s[from + (n + 1) - 1]
  <2>1. from + (n + 1) - 1 = to /\ to \in from..to
    BY <1>1
  <2> QED BY <1>1, <2>1
<1> HIDE DEF part, whole, n
<1> DEFINE next == Append(part, s[to])
<1>5. /\ next \in Seq(T)
      /\ Len(next) = n + 1
      /\ \A i \in 1..n : next[i] = part[i]
      /\ next[n + 1] = s[to]
  BY <1>1, <1>2, <1>4, AppendProperties
<1> HIDE DEF next
<1>6. \A i \in 1..(n + 1) : whole[i] = next[i]
  <2> TAKE i \in 1..(n + 1)
  <2>1. CASE i = n + 1
    BY <1>3, <1>4, <1>5, <2>1
  <2>2. CASE i \in 1..n
    BY <1>2, <1>3, <1>5, <2>2
  <2> QED BY <1>1, <2>1, <2>2
<1>7. whole = next
  BY <1>3, <1>5, <1>6, SeqEqual
<1> QED BY <1>2, <1>7 DEF part, whole, next

-----------------------------------------------------------------------------
(* parse_octal_field: what is known after each byte.                       *)

FieldByte == OctalDigit \cup {Pad, Odd}

FieldState == [value : Nat, seen_digit : BOOLEAN,
               state : {"RUNNING", "ENDED", "MALFORMED"}]

LEMMA ReadByteTyped ==
    ASSUME NEW s \in FieldState, NEW byte \in FieldByte
    PROVE  ReadByte(s, byte) \in FieldState
<1>1. /\ byte \in Nat
      /\ byte # Pad /\ byte # Odd => byte \in OctalDigit
  BY DEF FieldByte, OctalDigit, Pad, Odd
<1>2. /\ s.value \in Nat /\ s.value * 8 + byte \in Nat
  BY <1>1 DEF FieldState
<1> QED BY <1>2 DEF ReadByte, FieldState

\* The answer by the state after the last byte.
FieldAnswer(end) ==
    IF end.state # "MALFORMED" /\ end.seen_digit THEN {end.value} ELSE {}

LEMMA FieldSteps ==
    ASSUME NEW field \in Seq(FieldByte)
    PROVE  \E f \in [0..Len(field) -> FieldState] :
              /\ f[0] = FieldStart
              /\ \A i \in 1..Len(field) : f[i] = ReadByte(f[i - 1], field[i])
              /\ parse_octal_field(field) = FieldAnswer(f[Len(field)])
<1> DEFINE n == Len(field)
           Is(f) == f = [i \in 0..n |-> IF i = 0 THEN FieldStart
                                        ELSE ReadByte(f[i - 1], field[i])]
           after == CHOOSE f : Is(f)
           D == [p \in FieldState \X Nat |->
                    IF p[2] \in 1..n THEN ReadByte(p[1], field[p[2]]) ELSE p[1]]
<1>1. n \in Nat /\ \A i \in 1..n : field[i] \in FieldByte
  OBVIOUS
<1>2. parse_octal_field(field) = FieldAnswer(after[n])
  BY Zenon DEF parse_octal_field, FieldAnswer
<1> HIDE DEF n
<1>3. D \in [FieldState \X Nat -> FieldState]
  BY <1>1, ReadByteTyped
<1>4. \A s \in FieldState, i \in 1..n : D[<<s, i>>] = ReadByte(s, field[i])
  <2> TAKE s \in FieldState, i \in 1..n
  <2>1. <<s, i>> \in FieldState \X Nat /\ <<s, i>>[1] = s /\ <<s, i>>[2] = i
    BY <1>1
  <2> QED BY <2>1, Zenon
<1> HIDE DEF D
<1>5. FieldStart \in FieldState
  BY DEF FieldStart, FieldState
<1>6. PICK f \in [0..n -> FieldState] : Steps(f, n, FieldStart, D)
  BY <1>1, <1>3, <1>5, StepsExist
<1>7. /\ f[0] = FieldStart
      /\ \A i \in 1..n : f[i] = ReadByte(f[i - 1], field[i])
  <2>1. f[0] = FieldStart
    BY <1>6 DEF Steps
  <2>2. ASSUME NEW i \in 1..n
        PROVE  f[i] = ReadByte(f[i - 1], field[i])
    <3>1. i - 1 \in 0..n
      BY <1>1
    <3>2. f[i - 1] \in FieldState
      BY <1>6, <3>1
    <3>3. f[i] = D[<<f[i - 1], i>>]
      BY <1>6 DEF Steps
    <3> QED BY <1>4, <3>2, <3>3
  <2> QED BY <2>1, <2>2
<1> DEFINE step(g, i) == ReadByte(g[i - 1], field[i])
<1>8. \A i \in 0..n : i # 0 => i \in 1..n
  BY <1>1
<1>9. Is(f)
  <2>1. \A i \in 1..n : f[i] = step(f, i)
    BY <1>7
  <2> HIDE DEF step
  <2>2. f = [i \in 0..n |-> IF i = 0 THEN FieldStart ELSE step(f, i)]
    BY <1>6, <1>7, <1>8, <2>1
  <2> QED BY <2>2 DEF step
<1>10. Is(after)
  BY <1>9, Zenon
<1> HIDE DEF after
<1>11. /\ after[0] = FieldStart
       /\ \A i \in 1..n : after[i] = step(after, i)
  <2>1. after = [i \in 0..n |-> IF i = 0 THEN FieldStart ELSE step(after, i)]
    BY <1>10
  <2> HIDE DEF step
  <2>2. 0 \in 0..n /\ \A i \in 1..n : i \in 0..n /\ i # 0
    BY <1>1
  <2> QED BY <2>1, <2>2
<1>12. \A k \in Nat : k <= n => after[k] = f[k]
  <2> DEFINE Same == {k \in Nat : k <= n => after[k] = f[k]}
  <2>1. 0 \in Same
    BY <1>7, <1>11
  <2>2. ASSUME NEW k \in Nat, k \in Same
        PROVE  k + 1 \in Same
    <3> SUFFICES ASSUME k + 1 <= n
                 PROVE  after[k + 1] = f[k + 1]
      OBVIOUS
    <3>1. k + 1 \in 1..n /\ (k + 1) - 1 = k /\ k <= n
      BY <1>1
    <3>2. after[k] = f[k]
      BY <2>2, <3>1
    <3>3. after[k + 1] = ReadByte(after[k], field[k + 1])
      BY <1>11, <3>1
    <3>4. f[k + 1] = ReadByte(f[k], field[k + 1])
      BY <1>7, <3>1
    <3> QED BY <3>2, <3>3, <3>4
  <2> HIDE DEF Same
  <2>3. Nat \subseteq Same
    BY <2>1, <2>2, Induction
  <2> QED BY <2>3 DEF Same
<1>13. after[n] = f[n]
  BY <1>1, <1>12
<1> QED BY <1>2, <1>6, <1>7, <1>13 DEF n

\* What each byte does to the loop's state.
LEMMA ByteSteps ==
    ASSUME NEW s \in FieldState, NEW byte \in FieldByte
    PROVE  LET t == ReadByte(s, byte)
           IN  /\ s.state # "RUNNING" => t = s
               /\ s.state = "RUNNING" /\ byte = Pad /\ ~s.seen_digit => t = s
               /\ s.state = "RUNNING" /\ byte = Pad /\ s.seen_digit =>
                    /\ t.state = "ENDED" /\ t.seen_digit /\ t.value = s.value
               /\ s.state = "RUNNING" /\ byte = Odd =>
                    /\ t.state = "MALFORMED" /\ t.value = s.value
               /\ s.state = "RUNNING" /\ byte \in OctalDigit =>
                    /\ t.state = "RUNNING" /\ t.seen_digit
                    /\ t.value = s.value * 8 + byte
<1>1. Pad # Odd /\ \A d \in OctalDigit : d # Pad /\ d # Odd
  BY DEF OctalDigit, Pad, Odd
<1> QED BY <1>1 DEF ReadByte, FieldState

\* The first i bytes are padding; the digits start at from.
OnlyPadding(field, i) == \A k \in 1..i : field[k] = Pad

DigitsFrom(field, from, i) ==
    /\ from \in 1..i
    /\ OnlyPadding(field, from - 1)
    /\ \A k \in from..i : field[k] \in OctalDigit

Value(field, from, to) == NumberOf(SubSeq(field, from, to), 8)

\* What the loop knows after i bytes.
ReadSoFar(field, i, s) ==
    /\ s.value < Place(8, i)
    /\ s.state = "RUNNING" /\ ~s.seen_digit => s.value = 0 /\ OnlyPadding(field, i)
    /\ s.state = "RUNNING" /\ s.seen_digit =>
         \E from \in 1..i :
            DigitsFrom(field, from, i) /\ s.value = Value(field, from, i)
    /\ s.state = "ENDED" =>
         s.seen_digit /\
         \E from, to \in DOMAIN field :
            IsNumber(field, from, to) /\ s.value = Value(field, from, to)
    /\ s.state = "MALFORMED" =>
         \A from, to \in DOMAIN field : ~IsNumber(field, from, to)

LEMMA ValueStep ==
    ASSUME NEW field \in Seq(FieldByte), NEW from \in 1..Len(field),
           NEW to \in from..Len(field),
           \A k \in from..to : field[k] \in OctalDigit
    PROVE  /\ from = to => Value(field, from, to) = field[to]
           /\ from < to =>
                Value(field, from, to) = Value(field, from, to - 1) * 8 + field[to]
<1> DEFINE part == SubSeq(field, from, to - 1)
           d == field[to]
<1>1. SubSeq(field, from, to) = Append(part, d)
  BY OneMore
<1>2. part \in Seq(Nat) /\ d \in Nat
  <2>1. /\ from \in Int /\ to - 1 \in Int /\ to \in from..to
        /\ \A k \in from..(to - 1) : field[k] \in Nat
    BY DEF OctalDigit
  <2>2. \A x \in OctalDigit : x \in Nat
    BY DEF OctalDigit
  <2> QED BY <2>1, <2>2, SubSeqProperties
<1>3. from = to => part = <<>>
  <2> SUFFICES ASSUME from = to
               PROVE  part = <<>>
    OBVIOUS
  <2>1. from \in Int /\ to - 1 \in Int /\ ~(from <= to - 1)
        /\ \A k \in from..(to - 1) : field[k] \in Nat
    OBVIOUS
  <2>2. Len(part) = 0
    BY <2>1, SubSeqProperties
  <2> HIDE DEF part
  <2> QED BY <1>2, <2>2, EmptySeq
<1>4. 8 \in Nat
  OBVIOUS
<1> HIDE DEF part, d
<1>5. NumberOf(part, 8) \in Nat /\ NumberOf(Append(part, d), 8) = 8 * NumberOf(part, 8) + d
  BY <1>2, <1>4, NumberOfAppend
<1>6. NumberOf(<<>>, 8) = 0
  BY <1>4, NumberOfNone
<1>7. Value(field, from, to) = Value(field, from, to - 1) * 8 + d
  <2>1. Value(field, from, to - 1) = NumberOf(part, 8)
    BY DEF Value, part
  <2>2. Value(field, from, to) = NumberOf(Append(part, d), 8)
    BY <1>1 DEF Value
  <2> QED BY <1>5, <2>1, <2>2
<1>8. from = to => Value(field, from, to) = d
  BY <1>1, <1>2, <1>3, <1>5, <1>6 DEF Value
<1> QED BY <1>7, <1>8 DEF d

LEMMA PlacesGrow ==
    ASSUME NEW i \in Nat
    PROVE  /\ Place(8, i) \in Nat /\ Place(8, i + 1) = 8 * Place(8, i)
           /\ \A v \in Nat : v < Place(8, i) =>
                /\ v < Place(8, i + 1)
                /\ \A d \in OctalDigit : v * 8 + d < Place(8, i + 1)
<1> DEFINE p == Place(8, i)
<1>1. p \in Nat /\ Place(8, i + 1) = 8 * p
  BY PlaceSteps
<1> HIDE DEF p
<1>2. \A v \in Nat : v < p => v < 8 * p /\ \A d \in 0..7 : v * 8 + d < 8 * p
  BY <1>1
<1> QED BY <1>1, <1>2 DEF p, OctalDigit

\* A field holds at most one number.
LEMMA OneNumber ==
    ASSUME NEW field \in Seq(FieldByte),
           NEW a \in DOMAIN field, NEW b \in DOMAIN field, IsNumber(field, a, b),
           NEW c \in DOMAIN field, NEW d \in DOMAIN field, IsNumber(field, c, d)
    PROVE  a = c /\ b = d
<1> DEFINE n == Len(field)
<1>1. n \in Nat /\ a \in 1..n /\ b \in 1..n /\ c \in 1..n /\ d \in 1..n
  OBVIOUS
<1>2. \A x \in OctalDigit : x # Pad
  BY DEF OctalDigit, Pad
<1>3. /\ a <= b /\ c <= d
      /\ \A k \in 1..(a - 1) : field[k] = Pad
      /\ \A k \in a..b : field[k] # Pad
      /\ b = n \/ field[b + 1] = Pad
      /\ \A k \in 1..(c - 1) : field[k] = Pad
      /\ \A k \in c..d : field[k] # Pad
      /\ d = n \/ field[d + 1] = Pad
  BY <1>2 DEF IsNumber
<1> HIDE DEF n
<1>4. ~(a < c)
  <2> SUFFICES ASSUME a < c
               PROVE  FALSE
    OBVIOUS
  <2>1. a \in 1..(c - 1) /\ a \in a..b
    BY <1>1, <1>3
  <2> QED BY <1>3, <2>1
<1>5. ~(c < a)
  <2> SUFFICES ASSUME c < a
               PROVE  FALSE
    OBVIOUS
  <2>1. c \in 1..(a - 1) /\ c \in c..d
    BY <1>1, <1>3
  <2> QED BY <1>3, <2>1
<1>6. a = c
  BY <1>1, <1>4, <1>5
<1>7. ~(b < d)
  <2> SUFFICES ASSUME b < d
               PROVE  FALSE
    OBVIOUS
  <2>1. b + 1 \in c..d /\ b # n
    BY <1>1, <1>3, <1>6
  <2> QED BY <1>3, <2>1
<1>8. ~(d < b)
  <2> SUFFICES ASSUME d < b
               PROVE  FALSE
    OBVIOUS
  <2>1. d + 1 \in a..b /\ d # n
    BY <1>1, <1>3, <1>6
  <2> QED BY <1>3, <2>1
<1> QED BY <1>1, <1>6, <1>7, <1>8

\* A byte that is neither padding nor a digit, before the number has ended:
\* no number starts before it, none ends after it.
LEMMA OddByte ==
    ASSUME NEW field \in Seq(FieldByte), NEW i \in 1..Len(field),
           field[i] = Odd,
           \/ OnlyPadding(field, i - 1)
           \/ \E from \in 1..(i - 1) : DigitsFrom(field, from, i - 1)
    PROVE  \A a, b \in DOMAIN field : ~IsNumber(field, a, b)
<1> SUFFICES ASSUME NEW a \in DOMAIN field, NEW b \in DOMAIN field,
                    IsNumber(field, a, b)
             PROVE  FALSE
  OBVIOUS
<1> DEFINE n == Len(field)
<1>1. n \in Nat /\ a \in 1..n /\ b \in 1..n /\ i \in 1..n
  OBVIOUS
<1>2. Odd # Pad /\ \A x \in OctalDigit : x # Pad /\ x # Odd
  BY DEF OctalDigit, Pad, Odd
<1>3. /\ a <= b
      /\ \A k \in 1..(a - 1) : field[k] = Pad
      /\ \A k \in a..b : field[k] # Pad /\ field[k] # Odd
      /\ b = n \/ field[b + 1] = Pad
  BY <1>2 DEF IsNumber
<1> HIDE DEF n
<1>4. b < i
  <2>1. ~(i \in a..b) /\ ~(i \in 1..(a - 1))
    BY <1>2, <1>3
  <2> QED BY <1>1, <1>3, <2>1
<1>5. a \in 1..(i - 1) /\ a \in a..b
  BY <1>1, <1>3, <1>4
<1>6. ~OnlyPadding(field, i - 1)
  BY <1>3, <1>5 DEF OnlyPadding
<1>7. PICK from \in 1..(i - 1) : DigitsFrom(field, from, i - 1)
  BY <1>6
<1>8. ~(a < from)
  <2> SUFFICES ASSUME a < from
               PROVE  FALSE
    OBVIOUS
  <2>1. a \in 1..(from - 1)
    BY <1>1
  <2> QED BY <1>3, <1>5, <1>7, <2>1 DEF DigitsFrom, OnlyPadding
<1>9. field[b + 1] = Pad
  BY <1>1, <1>3, <1>4
<1>10. CASE b + 1 = i
  BY <1>2, <1>9, <1>10
<1>11. CASE b + 1 # i
  <2>1. b + 1 \in from..(i - 1)
    BY <1>1, <1>3, <1>4, <1>8, <1>11
  <2> QED BY <1>2, <1>7, <1>9, <2>1 DEF DigitsFrom
<1> QED BY <1>10, <1>11

LEMMA NextByte ==
    ASSUME NEW field \in Seq(FieldByte), NEW i \in 1..Len(field),
           NEW s \in FieldState, ReadSoFar(field, i - 1, s)
    PROVE  ReadSoFar(field, i, ReadByte(s, field[i]))
<1> DEFINE n == Len(field)
           byte == field[i]
           t == ReadByte(s, byte)
<1>1. n \in Nat /\ i \in 1..n /\ i - 1 \in Nat /\ (i - 1) + 1 = i
      /\ byte \in FieldByte /\ t \in FieldState /\ DOMAIN field = 1..n
  BY ReadByteTyped
<1>2. /\ s.state # "RUNNING" => t = s
      /\ s.state = "RUNNING" /\ byte = Pad /\ ~s.seen_digit => t = s
      /\ s.state = "RUNNING" /\ byte = Pad /\ s.seen_digit =>
           /\ t.state = "ENDED" /\ t.seen_digit /\ t.value = s.value
      /\ s.state = "RUNNING" /\ byte = Odd =>
           /\ t.state = "MALFORMED" /\ t.value = s.value
      /\ s.state = "RUNNING" /\ byte \in OctalDigit =>
           /\ t.state = "RUNNING" /\ t.seen_digit
           /\ t.value = s.value * 8 + byte
  BY <1>1, ByteSteps
<1>3. s.value \in Nat /\ s.value < Place(8, i - 1)
  BY DEF ReadSoFar, FieldState
<1>4. /\ s.value < Place(8, i)
      /\ byte \in OctalDigit => s.value * 8 + byte < Place(8, i)
  <2>1. /\ s.value < Place(8, (i - 1) + 1)
        /\ \A d \in OctalDigit : s.value * 8 + d < Place(8, (i - 1) + 1)
    BY <1>1, <1>3, PlacesGrow
  <2> QED BY <1>1, <2>1
<1>5. byte = Pad \/ byte = Odd \/ byte \in OctalDigit
  BY <1>1 DEF FieldByte
<1> SUFFICES ReadSoFar(field, i, t)
  OBVIOUS
<1> HIDE DEF t, n
<1>6. CASE s.state # "RUNNING"
  BY <1>2, <1>4, <1>6 DEF ReadSoFar
<1>7. CASE s.state = "RUNNING" /\ byte = Pad /\ ~s.seen_digit
  <2>1. t = s
    BY <1>2, <1>7
  <2>2. s.value = 0 /\ OnlyPadding(field, i - 1)
    BY <1>7 DEF ReadSoFar
  <2>3. OnlyPadding(field, i)
    <3>1. \A k \in 1..i : k \in 1..(i - 1) \/ k = i
      BY <1>1
    <3> QED BY <1>7, <2>2, <3>1 DEF OnlyPadding
  <2> QED BY <1>4, <1>7, <2>1, <2>2, <2>3 DEF ReadSoFar
<1>8. CASE s.state = "RUNNING" /\ byte = Pad /\ s.seen_digit
  <2>1. t.state = "ENDED" /\ t.seen_digit /\ t.value = s.value
    BY <1>2, <1>8
  <2>2. PICK from \in 1..(i - 1) :
            DigitsFrom(field, from, i - 1) /\ s.value = Value(field, from, i - 1)
    BY <1>8 DEF ReadSoFar
  <2>3. from \in DOMAIN field /\ i - 1 \in DOMAIN field /\ from <= i - 1
    BY <1>1
  <2>4. IsNumber(field, from, i - 1)
    BY <1>1, <1>8, <2>2, <2>3 DEF IsNumber, DigitsFrom, OnlyPadding
  <2> QED BY <1>4, <2>1, <2>2, <2>3, <2>4 DEF ReadSoFar
<1>9. CASE s.state = "RUNNING" /\ byte = Odd
  <2>1. t.state = "MALFORMED" /\ t.value = s.value
    BY <1>2, <1>9
  <2>2. \/ OnlyPadding(field, i - 1)
        \/ \E from \in 1..(i - 1) : DigitsFrom(field, from, i - 1)
    BY <1>9 DEF ReadSoFar, FieldState
  <2>3. \A a, b \in DOMAIN field : ~IsNumber(field, a, b)
    BY <1>9, <2>2, OddByte
  <2> QED BY <1>4, <2>1, <2>3 DEF ReadSoFar
<1>10. CASE s.state = "RUNNING" /\ byte \in OctalDigit
  <2>1. t.state = "RUNNING" /\ t.seen_digit /\ t.value = s.value * 8 + byte
    BY <1>2, <1>10
  <2>2. \E from \in 1..i : DigitsFrom(field, from, i) /\ t.value = Value(field, from, i)
    <3>1. CASE ~s.seen_digit
      <4>1. s.value = 0 /\ OnlyPadding(field, i - 1)
        BY <1>10, <3>1 DEF ReadSoFar
      <4>2. DigitsFrom(field, i, i)
        BY <1>1, <1>10, <4>1 DEF DigitsFrom
      <4>3. Value(field, i, i) = byte
        <5>1. i \in 1..Len(field) /\ i \in i..Len(field)
              /\ \A k \in i..i : field[k] \in OctalDigit
          BY <1>10
        <5> QED BY <5>1, ValueStep
      <4>4. t.value = byte
        BY <1>10, <2>1, <4>1 DEF OctalDigit
      <4>5. i \in 1..i
        BY <1>1
      <4> QED BY <4>2, <4>3, <4>4, <4>5
    <3>2. CASE s.seen_digit
      <4>1. PICK from \in 1..(i - 1) :
               DigitsFrom(field, from, i - 1) /\ s.value = Value(field, from, i - 1)
        BY <1>10, <3>2 DEF ReadSoFar
      <4>2. from \in 1..i /\ from \in 1..Len(field) /\ i \in from..Len(field) /\ from < i
        BY <1>1
      <4>3. \A k \in from..i : field[k] \in OctalDigit
        <5>1. \A k \in from..i : k \in from..(i - 1) \/ k = i
          BY <1>1
        <5> QED BY <1>10, <4>1, <5>1 DEF DigitsFrom
      <4>4. DigitsFrom(field, from, i)
        BY <4>1, <4>2, <4>3 DEF DigitsFrom
      <4>5. Value(field, from, i) = Value(field, from, i - 1) * 8 + byte
        BY <4>2, <4>3, ValueStep
      <4> QED BY <2>1, <4>1, <4>2, <4>4, <4>5
    <3> QED BY <3>1, <3>2 DEF FieldState
  <2> QED BY <1>4, <1>10, <2>1, <2>2 DEF ReadSoFar
<1> QED BY <1>5, <1>6, <1>7, <1>8, <1>9, <1>10 DEF FieldState

\* What parse_octal_field returns is the number the field holds.
LEMMA OctalIsMeant ==
    ASSUME NEW field \in Seq(FieldByte)
    PROVE  /\ parse_octal_field(field) = NumbersIn(field)
           /\ \A value \in parse_octal_field(field) : value < Place(8, Len(field))
<1> DEFINE n == Len(field)
<1>1. n \in Nat /\ DOMAIN field = 1..n
  OBVIOUS
<1>2. PICK f \in [0..n -> FieldState] :
         /\ f[0] = FieldStart
         /\ \A i \in 1..n : f[i] = ReadByte(f[i - 1], field[i])
         /\ parse_octal_field(field) = FieldAnswer(f[n])
  BY FieldSteps
<1>3. \A i \in Nat : i <= n => ReadSoFar(field, i, f[i])
  <2> DEFINE Good == {i \in Nat : i <= n => ReadSoFar(field, i, f[i])}
  <2>1. 0 \in Good
    <3>1. /\ FieldStart.value = 0 /\ FieldStart.state = "RUNNING"
          /\ ~FieldStart.seen_digit
      BY DEF FieldStart
    <3>2. OnlyPadding(field, 0)
      BY DEF OnlyPadding
    <3>3. 0 < Place(8, 0)
      BY PlaceSteps
    <3>4. ReadSoFar(field, 0, FieldStart)
      BY <3>1, <3>2, <3>3 DEF ReadSoFar
    <3> QED BY <1>2, <3>4
  <2>2. ASSUME NEW k \in Nat, k \in Good
        PROVE  k + 1 \in Good
    <3> SUFFICES ASSUME k + 1 <= n
                 PROVE  ReadSoFar(field, k + 1, f[k + 1])
      OBVIOUS
    <3> DEFINE i == k + 1
    <3>1. i \in 1..n /\ i - 1 = k /\ k <= n /\ k \in 0..n
      BY <1>1
    <3>2. ReadSoFar(field, i - 1, f[i - 1]) /\ f[i - 1] \in FieldState
      BY <1>2, <2>2, <3>1
    <3>3. f[i] = ReadByte(f[i - 1], field[i])
      BY <1>2, <3>1
    <3> HIDE DEF i
    <3>4. ReadSoFar(field, i, ReadByte(f[i - 1], field[i]))
      BY <3>1, <3>2, NextByte
    <3> QED BY <3>3, <3>4 DEF i
  <2> HIDE DEF Good
  <2>3. Nat \subseteq Good
    BY <2>1, <2>2, Induction
  <2> QED BY <2>3 DEF Good
<1> DEFINE end == f[n]
<1>4. end \in FieldState /\ ReadSoFar(field, n, end)
  BY <1>1, <1>2, <1>3
<1>5. parse_octal_field(field) = FieldAnswer(end)
  BY <1>2
<1> HIDE DEF end, n
<1>6. NumbersIn(field) = {Value(field, r[1], r[2]) : r \in
         {q \in (DOMAIN field) \X (DOMAIN field) : IsNumber(field, q[1], q[2])}}
  BY Zenon DEF NumbersIn, Value
<1>7. ASSUME NEW a \in DOMAIN field, NEW b \in DOMAIN field, IsNumber(field, a, b)
      PROVE  NumbersIn(field) = {Value(field, a, b)}
  <2>1. \A c, d \in DOMAIN field : IsNumber(field, c, d) => c = a /\ d = b
    BY <1>7, OneNumber
  <2>2. {q \in (DOMAIN field) \X (DOMAIN field) : IsNumber(field, q[1], q[2])}
          = {<<a, b>>}
    BY <1>7, <2>1
  <2>3. NumbersIn(field) = {Value(field, r[1], r[2]) : r \in {<<a, b>>}}
    BY <1>6, <2>2
  <2>4. \A r \in {<<a, b>>} : r[1] = a /\ r[2] = b
    OBVIOUS
  <2> QED BY <2>3, <2>4
<1>8. (\A a, b \in DOMAIN field : ~IsNumber(field, a, b)) => NumbersIn(field) = {}
  BY <1>6
<1>9. CASE end.state = "RUNNING" /\ ~end.seen_digit
  <2>1. OnlyPadding(field, n)
    BY <1>4, <1>9 DEF ReadSoFar
  <2>2. ASSUME NEW a \in DOMAIN field, NEW b \in DOMAIN field, IsNumber(field, a, b)
        PROVE  FALSE
    <3>1. a \in a..b /\ a \in 1..n
      BY <1>1, <2>2 DEF IsNumber
    <3>2. field[a] \in OctalDigit /\ field[a] = Pad
      BY <2>1, <2>2, <3>1 DEF IsNumber, OnlyPadding
    <3> QED BY <3>2 DEF OctalDigit, Pad
  <2>3. parse_octal_field(field) = {}
    BY <1>5, <1>9 DEF FieldAnswer
  <2> QED BY <1>8, <2>2, <2>3
<1>10. CASE end.state = "RUNNING" /\ end.seen_digit
  <2>1. PICK from \in 1..n :
            DigitsFrom(field, from, n) /\ end.value = Value(field, from, n)
    BY <1>4, <1>10 DEF ReadSoFar
  <2>2. from \in DOMAIN field /\ n \in DOMAIN field /\ from <= n
    BY <1>1
  <2>3. IsNumber(field, from, n)
    BY <2>1, <2>2 DEF IsNumber, DigitsFrom, OnlyPadding, n
  <2>4. NumbersIn(field) = {end.value}
    BY <1>7, <2>1, <2>2, <2>3
  <2>5. parse_octal_field(field) = {end.value} /\ end.value < Place(8, n)
    BY <1>4, <1>5, <1>10 DEF FieldAnswer, ReadSoFar
  <2> QED BY <2>4, <2>5 DEF n
<1>11. CASE end.state = "ENDED"
  <2>1. end.seen_digit
    BY <1>4, <1>11 DEF ReadSoFar
  <2>2. PICK from \in DOMAIN field, to \in DOMAIN field :
            IsNumber(field, from, to) /\ end.value = Value(field, from, to)
    BY <1>4, <1>11 DEF ReadSoFar
  <2>3. NumbersIn(field) = {end.value}
    BY <1>7, <2>2
  <2>4. parse_octal_field(field) = {end.value} /\ end.value < Place(8, n)
    BY <1>4, <1>5, <1>11, <2>1 DEF FieldAnswer, ReadSoFar
  <2> QED BY <2>3, <2>4 DEF n
<1>12. CASE end.state = "MALFORMED"
  <2>1. NumbersIn(field) = {}
    BY <1>4, <1>8, <1>12 DEF ReadSoFar
  <2>2. parse_octal_field(field) = {}
    BY <1>5, <1>12 DEF FieldAnswer
  <2> QED BY <2>1, <2>2
<1> QED BY <1>4, <1>9, <1>10, <1>11, <1>12 DEF FieldState

-----------------------------------------------------------------------------
(* The text of a version.                                                  *)

\* One digit of a component.
Take(vs, d) == {w \in {(v * 10 + d) % Wrap : v \in vs} : w <= MaxPart}

LEMMA TakeTyped ==
    ASSUME NEW vs \in SUBSET Nat, NEW d \in Digit
    PROVE  Take(vs, d) \in SUBSET Nat
<1>1. Wrap \in Nat /\ Wrap > 0 /\ d \in Nat
  BY WrapAssumption, MaxPartAssumption DEF Digit
<1>2. ASSUME NEW v \in vs
      PROVE  (v * 10 + d) % Wrap \in Nat
  <2>1. v * 10 + d \in Nat
    BY <1>1
  <2> QED BY <1>1, <2>1
<1> QED BY <1>2 DEF Take

LEMMA ComponentSteps ==
    ASSUME NEW digits \in Seq(Digit)
    PROVE  \E f \in [0..Len(digits) -> SUBSET Nat] :
              /\ f[0] = {0}
              /\ \A i \in 1..Len(digits) : f[i] = Take(f[i - 1], digits[i])
              /\ Component(digits) = f[Len(digits)]
<1> DEFINE n == Len(digits)
           Is(f) == f = [i \in 0..n |-> IF i = 0 THEN {0} ELSE Take(f[i - 1], digits[i])]
           after == CHOOSE f : Is(f)
           D == [p \in (SUBSET Nat) \X Nat |->
                    IF p[2] \in 1..n THEN Take(p[1], digits[p[2]]) ELSE p[1]]
<1>1. n \in Nat /\ \A i \in 1..n : digits[i] \in Digit
  OBVIOUS
<1>2. Component(digits) = after[n]
  BY Zenon DEF Component, Take
<1> HIDE DEF n
<1>3. D \in [(SUBSET Nat) \X Nat -> SUBSET Nat]
  BY <1>1, TakeTyped
<1>4. \A s \in SUBSET Nat, i \in 1..n : D[<<s, i>>] = Take(s, digits[i])
  <2> DEFINE S == SUBSET Nat
  <2> HIDE DEF S
  <2>1. \A s \in S, i \in 1..n :
          <<s, i>> \in S \X Nat /\ <<s, i>>[1] = s /\ <<s, i>>[2] = i
    BY <1>1
  <2> USE DEF S
  <2> QED BY <2>1, Zenon
<1> HIDE DEF D
<1>5. {0} \in SUBSET Nat
  OBVIOUS
<1>6. PICK f \in [0..n -> SUBSET Nat] : Steps(f, n, {0}, D)
  BY <1>1, <1>3, <1>5, StepsExist
<1> DEFINE step(g, i) == Take(g[i - 1], digits[i])
<1>7. /\ f[0] = {0}
      /\ \A i \in 1..n : f[i] = step(f, i)
  <2>1. ASSUME NEW i \in 1..n
        PROVE  f[i] = Take(f[i - 1], digits[i])
    <3>1. i - 1 \in 0..n
      BY <1>1
    <3>2. f[i - 1] \in SUBSET Nat
      BY <1>6, <3>1
    <3> QED BY <1>4, <1>6, <3>2 DEF Steps
  <2> QED BY <1>6, <2>1 DEF Steps
<1>8. /\ \A i \in 0..n : i # 0 => i \in 1..n
      /\ 0 \in 0..n /\ \A i \in 1..n : i \in 0..n /\ i # 0
  BY <1>1
<1>9. Is(f)
  <2> HIDE DEF step
  <2>1. f = [i \in 0..n |-> IF i = 0 THEN {0} ELSE step(f, i)]
    BY <1>6, <1>7, <1>8
  <2> QED BY <2>1 DEF step
<1>10. Is(after)
  BY <1>9, Zenon
<1> HIDE DEF after
<1>11. /\ DOMAIN after = 0..n
       /\ after[0] = {0}
       /\ \A i \in 1..n : after[i] = step(after, i)
  <2>1. after = [i \in 0..n |-> IF i = 0 THEN {0} ELSE step(after, i)]
    BY <1>10
  <2> HIDE DEF step
  <2> QED BY <1>8, <2>1
<1>12. \A k \in Nat : k <= n => after[k] \in SUBSET Nat
  <2> DEFINE Typed == {k \in Nat : k <= n => after[k] \in SUBSET Nat}
  <2>1. 0 \in Typed
    BY <1>11
  <2>2. ASSUME NEW k \in Nat, k \in Typed
        PROVE  k + 1 \in Typed
    <3> SUFFICES ASSUME k + 1 <= n
                 PROVE  after[k + 1] \in SUBSET Nat
      OBVIOUS
    <3>1. k + 1 \in 1..n /\ (k + 1) - 1 = k /\ k <= n
      BY <1>1
    <3>2. after[k + 1] = Take(after[k], digits[k + 1])
      BY <1>11, <3>1
    <3>3. after[k] \in SUBSET Nat /\ digits[k + 1] \in Digit
      BY <1>1, <2>2, <3>1
    <3> QED BY <3>2, <3>3, TakeTyped
  <2> HIDE DEF Typed
  <2>3. Nat \subseteq Typed
    BY <2>1, <2>2, Induction
  <2> QED BY <2>3 DEF Typed
<1>13. after \in [0..n -> SUBSET Nat]
  <2>1. after = [i \in 0..n |-> after[i]]
    BY <1>10, <1>11
  <2>2. \A i \in 0..n : after[i] \in SUBSET Nat
    BY <1>1, <1>12
  <2> QED BY <2>1, <2>2
<1> QED BY <1>2, <1>11, <1>13 DEF n

\* A prefix that is longer by one digit.
LEMMA PrefixNumber ==
    ASSUME NEW digits \in Seq(Digit), NEW i \in 1..Len(digits)
    PROVE  /\ SubSeq(digits, 1, i) \in Seq(Digit)
           /\ digits[i] \in Digit
           /\ NumberOf(SubSeq(digits, 1, i - 1), 10) \in Nat
           /\ NumberOf(SubSeq(digits, 1, i), 10)
                = 10 * NumberOf(SubSeq(digits, 1, i - 1), 10) + digits[i]
<1> DEFINE part == SubSeq(digits, 1, i - 1)
           d == digits[i]
<1>1. 1 \in 1..Len(digits) /\ i \in 1..Len(digits) /\ d \in Digit
  OBVIOUS
<1>2. part \in Seq(Digit) /\ SubSeq(digits, 1, i) = Append(part, d)
  BY <1>1, OneMore
<1> HIDE DEF part, d
<1>3. part \in Seq(Nat) /\ d \in Nat
  <2>1. Digit \subseteq Nat
    BY DEF Digit
  <2> QED BY <1>1, <1>2, <2>1, SeqMonotonic
<1>4. Append(part, d) \in Seq(Digit)
  BY <1>1, <1>2, AppendProperties
<1>5. 10 \in Nat
  OBVIOUS
<1>6. NumberOf(part, 10) \in Nat /\ NumberOf(Append(part, d), 10) = 10 * NumberOf(part, 10) + d
  BY <1>3, <1>5, NumberOfAppend
<1> QED BY <1>1, <1>2, <1>4, <1>6 DEF part, d

\* The check at every digit lets exactly the numbers up to the bound through;
\* none of them has wrapped.
LEMMA ComponentIs ==
    ASSUME NEW digits \in Seq(Digit)
    PROVE  /\ NumberOf(digits, 10) \in Nat
           /\ Component(digits) = IF NumberOf(digits, 10) <= MaxPart
                                  THEN {NumberOf(digits, 10)} ELSE {}
<1> DEFINE n == Len(digits)
           num(i) == NumberOf(SubSeq(digits, 1, i), 10)
<1>1. PICK f \in [0..n -> SUBSET Nat] :
         /\ f[0] = {0}
         /\ \A i \in 1..n : f[i] = Take(f[i - 1], digits[i])
         /\ Component(digits) = f[n]
  BY ComponentSteps
<1>2. n \in Nat
  OBVIOUS
<1>3. num(0) = 0
  <2>1. SubSeq(digits, 1, 0) = <<>>
    OBVIOUS
  <2>2. 10 \in Nat
    OBVIOUS
  <2> QED BY <2>1, <2>2, NumberOfNone
<1>4. num(n) = NumberOf(digits, 10)
  <2>1. SubSeq(digits, 1, n) = digits
    OBVIOUS
  <2> QED BY <2>1
<1>5. ASSUME NEW i \in 1..n
      PROVE  num(i) = 10 * num(i - 1) + digits[i] /\ digits[i] \in 0..9
             /\ num(i - 1) \in Nat
  BY PrefixNumber DEF Digit
<1> HIDE DEF num, n
<1> DEFINE Is(i) == /\ num(i) \in Nat
                    /\ f[i] = IF num(i) <= MaxPart THEN {num(i)} ELSE {}
           Good == {i \in Nat : i <= n => Is(i)}
<1>6. 0 \in Good
  <2>1. 0 <= MaxPart /\ f[0] = {0}
    BY <1>1, MaxPartAssumption
  <2>2. num(0) \in Nat /\ num(0) <= MaxPart /\ f[0] = {num(0)}
    BY <1>3, <2>1
  <2> QED BY <2>2
<1>7. ASSUME NEW k \in Nat, k \in Good
      PROVE  k + 1 \in Good
  <2> SUFFICES ASSUME k + 1 <= n
               PROVE  Is(k + 1)
    OBVIOUS
  <2> DEFINE i == k + 1
             v == num(k)
             d == digits[i]
  <2>1. i \in 1..n /\ i - 1 = k /\ k <= n
    BY <1>2
  <2>2. v \in Nat /\ f[k] = IF v <= MaxPart THEN {v} ELSE {}
    BY <1>7, <2>1
  <2>3. num(i) = 10 * v + d /\ d \in 0..9
    BY <1>5, <2>1
  <2>4. f[i] = Take(f[k], d)
    BY <1>1, <2>1
  <2> HIDE DEF i, v, d
  <2>5. CASE v <= MaxPart
    <3>1. v * 10 + d = num(i) /\ num(i) \in Nat /\ num(i) < Wrap
      BY <2>2, <2>3, <2>5, WrapAssumption, MaxPartAssumption
    <3>2. \A x \in Nat : x < Wrap => x % Wrap = x
      BY WrapAssumption
    <3>3. (v * 10 + d) % Wrap = num(i)
      BY <3>1, <3>2
    <3>4. f[k] = {v}
      BY <2>2, <2>5
    <3>5. f[i] = {w \in {num(i)} : w <= MaxPart}
      BY <2>4, <3>3, <3>4 DEF Take
    <3> QED BY <3>1, <3>5 DEF i
  <2>6. CASE ~(v <= MaxPart)
    <3>1. num(i) \in Nat /\ ~(num(i) <= MaxPart)
      BY <2>2, <2>3, <2>6, MaxPartAssumption
    <3>2. f[i] = {}
      BY <2>2, <2>4, <2>6 DEF Take
    <3> QED BY <3>1, <3>2 DEF i
  <2> QED BY <2>5, <2>6
<1> HIDE DEF Good
<1>8. Nat \subseteq Good
  BY <1>6, <1>7, Induction
<1>9. Is(n)
  BY <1>2, <1>8 DEF Good
<1> QED BY <1>1, <1>4, <1>9

\* The loop of fota_version_parse.
ParseState == [ok : BOOLEAN, parts : Seq(Nat), digits : Seq(Digit)]

\* What each character does to the loop's state.
LEMMA CharSteps ==
    ASSUME NEW s \in ParseState, NEW c \in Character
    PROVE  /\ ParseChar(s, c) \in ParseState
           /\ ~s.ok => ParseChar(s, c) = s
           /\ s.ok /\ c \in Digit =>
                ParseChar(s, c) = [ok |-> TRUE, parts |-> s.parts,
                                   digits |-> Append(s.digits, c)]
           /\ s.ok /\ c = Dot /\ s.digits # <<>> /\ Len(s.parts) < 4
                   /\ NumberOf(s.digits, 10) <= MaxPart =>
                ParseChar(s, c) = [ok |-> TRUE, digits |-> <<>>,
                                   parts |-> Append(s.parts, NumberOf(s.digits, 10))]
           /\ s.ok /\ c \notin Digit
                   /\ ~(c = Dot /\ s.digits # <<>> /\ Len(s.parts) < 4
                          /\ NumberOf(s.digits, 10) <= MaxPart) =>
                ~ParseChar(s, c).ok
<1> DEFINE n == NumberOf(s.digits, 10)
           part == Component(s.digits)
           t == ParseChar(s, c)
<1>1. /\ s.ok \in BOOLEAN /\ s.parts \in Seq(Nat) /\ s.digits \in Seq(Digit)
      /\ s = [ok |-> s.ok, parts |-> s.parts, digits |-> s.digits]
  BY DEF ParseState
<1>2. n \in Nat /\ part = IF n <= MaxPart THEN {n} ELSE {}
  BY <1>1, ComponentIs
<1>3. \A d \in Digit : d # Dot
  BY DEF Digit, Dot
<1> HIDE DEF n, part
<1>4. CASE ~s.ok
  <2>1. t = s
    BY <1>4 DEF ParseChar
  <2> QED BY <1>4, <2>1
<1>5. CASE s.ok /\ c \in Digit
  <2> DEFINE digits == Append(s.digits, c)
  <2>1. t = [s EXCEPT !.digits = digits]
    BY <1>3, <1>5 DEF ParseChar
  <2>2. digits \in Seq(Digit)
    BY <1>1, <1>5, AppendProperties
  <2> HIDE DEF digits
  <2>3. t = [ok |-> TRUE, parts |-> s.parts, digits |-> digits]
    BY <1>1, <1>5, <2>1
  <2>4. t \in ParseState
    BY <1>1, <2>2, <2>3 DEF ParseState
  <2> QED BY <1>3, <1>5, <2>3, <2>4 DEF digits
<1>6. CASE s.ok /\ c = Dot /\ s.digits # <<>> /\ Len(s.parts) < 4 /\ n <= MaxPart
  <2>1. part = {n}
    BY <1>2, <1>6
  <2> DEFINE parts == Append(s.parts, n)
  <2>2. (CHOOSE v \in part : TRUE) = n
    BY <2>1
  <2>3. t = [s EXCEPT !.parts = parts, !.digits = <<>>]
    BY <1>3, <1>6, <2>1, <2>2 DEF ParseChar, part
  <2>4. parts \in Seq(Nat)
    BY <1>1, <1>2, AppendProperties
  <2> HIDE DEF parts
  <2>5. t = [ok |-> TRUE, parts |-> parts, digits |-> <<>>]
    BY <1>1, <1>6, <2>3
  <2>6. t \in ParseState
    BY <2>4, <2>5 DEF ParseState
  <2> QED BY <1>3, <1>6, <2>5, <2>6 DEF parts, n
<1>7. CASE s.ok /\ c \notin Digit
           /\ ~(c = Dot /\ s.digits # <<>> /\ Len(s.parts) < 4 /\ n <= MaxPart)
  <2>1. ~(n <= MaxPart) => part = {}
    BY <1>2
  <2>2. t = [s EXCEPT !.ok = FALSE]
    BY <1>7, <2>1 DEF ParseChar, part
  <2>3. t = [ok |-> FALSE, parts |-> s.parts, digits |-> s.digits]
    BY <1>1, <2>2
  <2>4. t \in ParseState /\ ~t.ok
    BY <1>1, <2>3 DEF ParseState
  <2> QED BY <1>7, <2>4 DEF n
<1>8. s.ok \in BOOLEAN
  BY <1>1
<1> QED BY <1>3, <1>4, <1>5, <1>6, <1>7, <1>8 DEF n

\* The answer by the state after the last character.
ParseAnswer(end) == IF end.ok /\ Len(end.parts) = 4 THEN {end.parts} ELSE {}

\* A text and the boundary behind it.
WithEnd(text) == Append(text, Dot)

LEMMA ParseSteps ==
    ASSUME NEW data, WithEnd(ContentOf(data)) \in Seq(Character)
    PROVE  LET t == WithEnd(ContentOf(data))
           IN  \E f \in [0..Len(t) -> ParseState] :
                  /\ f[0] = ParseStart
                  /\ \A i \in 1..Len(t) : f[i] = ParseChar(f[i - 1], t[i])
                  /\ fota_version_parse(data) = ParseAnswer(f[Len(t)])
<1> DEFINE t == WithEnd(ContentOf(data))
           n == Len(t)
           Is(f) == f = [i \in 0..n |-> IF i = 0 THEN ParseStart
                                        ELSE ParseChar(f[i - 1], t[i])]
           after == CHOOSE f : Is(f)
           D == [p \in ParseState \X Nat |->
                    IF p[2] \in 1..n THEN ParseChar(p[1], t[p[2]]) ELSE p[1]]
<1>1. n \in Nat /\ \A i \in 1..n : t[i] \in Character
  OBVIOUS
<1>2. fota_version_parse(data) = ParseAnswer(after[n])
  BY Zenon DEF fota_version_parse, ParseAnswer, WithEnd
<1> HIDE DEF n, t
<1>3. D \in [ParseState \X Nat -> ParseState]
  BY <1>1, CharSteps
<1>4. \A s \in ParseState, i \in 1..n : D[<<s, i>>] = ParseChar(s, t[i])
  <2> TAKE s \in ParseState, i \in 1..n
  <2>1. <<s, i>> \in ParseState \X Nat /\ <<s, i>>[1] = s /\ <<s, i>>[2] = i
    BY <1>1
  <2> QED BY <2>1, Zenon
<1> HIDE DEF D
<1>5. ParseStart \in ParseState
  BY DEF ParseStart, ParseState
<1>6. PICK f \in [0..n -> ParseState] : Steps(f, n, ParseStart, D)
  BY <1>1, <1>3, <1>5, StepsExist
<1> DEFINE step(g, i) == ParseChar(g[i - 1], t[i])
<1>7. /\ f[0] = ParseStart
      /\ \A i \in 1..n : f[i] = step(f, i)
  <2>1. ASSUME NEW i \in 1..n
        PROVE  f[i] = ParseChar(f[i - 1], t[i])
    <3>1. i - 1 \in 0..n
      BY <1>1
    <3>2. f[i - 1] \in ParseState
      BY <1>6, <3>1
    <3> QED BY <1>4, <1>6, <3>2 DEF Steps
  <2> QED BY <1>6, <2>1 DEF Steps
<1>8. /\ \A i \in 0..n : i # 0 => i \in 1..n
      /\ 0 \in 0..n /\ \A i \in 1..n : i \in 0..n /\ i # 0
  BY <1>1
<1>9. Is(f)
  <2> HIDE DEF step
  <2>1. f = [i \in 0..n |-> IF i = 0 THEN ParseStart ELSE step(f, i)]
    BY <1>6, <1>7, <1>8
  <2> QED BY <2>1 DEF step
<1>10. Is(after)
  BY <1>9, Zenon
<1> HIDE DEF after
<1>11. /\ DOMAIN after = 0..n
       /\ after[0] = ParseStart
       /\ \A i \in 1..n : after[i] = step(after, i)
  <2>1. after = [i \in 0..n |-> IF i = 0 THEN ParseStart ELSE step(after, i)]
    BY <1>10
  <2> HIDE DEF step
  <2> QED BY <1>8, <2>1
<1>12. \A k \in Nat : k <= n => after[k] \in ParseState
  <2> DEFINE Typed == {k \in Nat : k <= n => after[k] \in ParseState}
  <2>1. 0 \in Typed
    BY <1>5, <1>11
  <2>2. ASSUME NEW k \in Nat, k \in Typed
        PROVE  k + 1 \in Typed
    <3> SUFFICES ASSUME k + 1 <= n
                 PROVE  after[k + 1] \in ParseState
      OBVIOUS
    <3>1. k + 1 \in 1..n /\ (k + 1) - 1 = k /\ k <= n
      BY <1>1
    <3>2. after[k + 1] = ParseChar(after[k], t[k + 1])
      BY <1>11, <3>1
    <3>3. after[k] \in ParseState /\ t[k + 1] \in Character
      BY <1>1, <2>2, <3>1
    <3> QED BY <3>2, <3>3, CharSteps
  <2> HIDE DEF Typed
  <2>3. Nat \subseteq Typed
    BY <2>1, <2>2, Induction
  <2> QED BY <2>3 DEF Typed
<1>13. after \in [0..n -> ParseState]
  <2>1. after = [i \in 0..n |-> after[i]]
    BY <1>10, <1>11
  <2>2. \A i \in 0..n : after[i] \in ParseState
    BY <1>1, <1>12
  <2> QED BY <2>1, <2>2
<1> QED BY <1>2, <1>11, <1>13 DEF n, t

\* What is between two boundaries.
Between(t, at, k) == SubSeq(t, at[k - 1] + 1, at[k] - 1)

\* The first m components of t, with the places of the boundaries.
CutAt(t, m, at) ==
    /\ at \in [0..m -> 0..Len(t)] /\ at[0] = 0
    /\ \A k \in 1..m : /\ at[k - 1] < at[k] /\ t[at[k]] = Dot
                       /\ IsNumeral(Between(t, at, k))

LEMMA NumeralIs ==
    ASSUME NEW t \in Seq(Character), NEW a \in 0..Len(t), NEW b \in 1..Len(t), a < b
    PROVE  LET s == SubSeq(t, a + 1, b - 1)
           IN  /\ s \in Seq(Character) /\ Len(s) = b - a - 1
               /\ IsNumeral(s) <=> /\ a + 1 < b
                                   /\ \A j \in (a + 1)..(b - 1) : t[j] \in Digit
                                   /\ NumberOf(s, 10) <= MaxPart
               /\ (\A j \in (a + 1)..(b - 1) : t[j] \in Digit) => s \in Seq(Digit)
<1> DEFINE s == SubSeq(t, a + 1, b - 1)
           n == b - a - 1
<1>1. /\ Len(t) \in Nat /\ a + 1 \in Int /\ b - 1 \in Int /\ n \in Nat
      /\ \A j \in (a + 1)..(b - 1) : t[j] \in Character
  OBVIOUS
<1>2. /\ s \in Seq(Character)
      /\ Len(s) = IF a + 1 <= b - 1 THEN (b - 1) - (a + 1) + 1 ELSE 0
      /\ \A i \in 1..((b - 1) - (a + 1) + 1) : s[i] = t[(a + 1) + i - 1]
  BY <1>1, SubSeqProperties
<1>3. (b - 1) - (a + 1) + 1 = n /\ (~(a + 1 <= b - 1) => n = 0)
  BY <1>1
<1>4. Len(s) = n /\ \A i \in 1..n : s[i] = t[a + i]
  <2>1. \A i \in 1..n : (a + 1) + i - 1 = a + i
    BY <1>1
  <2> QED BY <1>2, <1>3, <2>1
<1> HIDE DEF s, n
<1>5. s = <<>> <=> n = 0
  BY <1>2, <1>4, EmptySeq
<1>6. Range(s) \subseteq Digit <=> \A i \in 1..n : s[i] \in Digit
  <2>1. DOMAIN s = 1..n
    BY <1>2, <1>4
  <2> QED BY <2>1 DEF Range
<1>7. (\A i \in 1..n : s[i] \in Digit) <=> \A j \in (a + 1)..(b - 1) : t[j] \in Digit
  <2>1. \A j \in (a + 1)..(b - 1) : j - a \in 1..n /\ a + (j - a) = j
    BY <1>1 DEF n
  <2>2. \A i \in 1..n : a + i \in (a + 1)..(b - 1)
    BY <1>1 DEF n
  <2> QED BY <1>4, <2>1, <2>2
<1>8. n # 0 <=> a + 1 < b
  BY <1>1 DEF n
<1>9. (\A i \in 1..n : s[i] \in Digit) => s \in Seq(Digit)
  <2>1. s = [i \in 1..n |-> s[i]]
    BY <1>2, <1>4
  <2> SUFFICES ASSUME \A i \in 1..n : s[i] \in Digit
               PROVE  s \in Seq(Digit)
    OBVIOUS
  <2>2. s \in [1..n -> Digit]
    BY <2>1
  <2> QED BY <1>1, <2>2, SeqDef
<1>10. IsNumeral(s) <=> /\ a + 1 < b
                        /\ \A j \in (a + 1)..(b - 1) : t[j] \in Digit
                        /\ NumberOf(s, 10) <= MaxPart
  BY <1>5, <1>6, <1>7, <1>8 DEF IsNumeral
<1> QED BY <1>2, <1>4, <1>7, <1>9, <1>10 DEF s, n

\* After i characters the loop is behind the m-th boundary of the cut.
Reached(t, at, m, i, s) ==
    /\ m \in 0..4 /\ at[m] <= i /\ (m < 4 => i < at[m + 1])
    /\ s.ok /\ s.digits = SubSeq(t, at[m] + 1, i)
    /\ Len(s.parts) = m
    /\ \A k \in 1..m : s.parts[k] = NumberOf(Between(t, at, k), 10)

LEMMA CutStep ==
    ASSUME NEW t \in Seq(Character), NEW at, CutAt(t, 4, at), at[4] = Len(t),
           NEW i \in 1..Len(t), NEW s \in ParseState, NEW m \in 0..4,
           Reached(t, at, m, i - 1, s)
    PROVE  \E q \in 0..4 : Reached(t, at, q, i, ParseChar(s, t[i]))
<1> DEFINE n == Len(t)
           c == t[i]
           r == ParseChar(s, c)
           a == at[m]
           b == at[m + 1]
<1>1. n \in Nat /\ c \in Character
  OBVIOUS
<1>2. /\ \A k \in 0..4 : at[k] \in 0..n
      /\ at[4] = n
      /\ \A k \in 1..4 : /\ at[k - 1] < at[k] /\ t[at[k]] = Dot
                         /\ IsNumeral(Between(t, at, k))
  BY DEF CutAt
<1>3. /\ at[m] <= i - 1 /\ (m < 4 => i - 1 < at[m + 1])
      /\ s.ok /\ s.digits = SubSeq(t, at[m] + 1, i - 1)
      /\ Len(s.parts) = m
      /\ \A k \in 1..m : s.parts[k] = NumberOf(Between(t, at, k), 10)
  BY DEF Reached
<1>4. m < 4
  <2>1. m = 4 => n <= i - 1
    BY <1>2, <1>3
  <2> QED BY <1>1, <2>1
<1>5. /\ m + 1 \in 1..4 /\ (m + 1) - 1 = m /\ m \in 0..4 /\ m + 1 \in 0..4
      /\ at[m] \in 0..n /\ at[m + 1] \in 1..n /\ at[m] < at[m + 1]
      /\ t[at[m + 1]] = Dot /\ i <= at[m + 1]
  <2>1. m + 1 \in 1..4 /\ (m + 1) - 1 = m /\ m \in 0..4 /\ m + 1 \in 0..4
    BY <1>4
  <2>2. at[m] \in 0..n /\ at[m + 1] \in 0..n /\ at[m] < at[m + 1] /\ t[at[m + 1]] = Dot
    BY <1>2, <2>1
  <2> QED BY <1>1, <1>3, <1>4, <2>1, <2>2
<1>6. IsNumeral(Between(t, at, m + 1)) /\ Between(t, at, m + 1) = SubSeq(t, a + 1, b - 1)
  <2>1. IsNumeral(Between(t, at, m + 1))
    BY <1>2, <1>5
  <2> QED BY <1>5, <2>1 DEF Between
<1>7. \A j \in (a + 1)..(b - 1) : t[j] \in Digit
  <2>1. a \in 0..Len(t) /\ b \in 1..Len(t) /\ a < b
    BY <1>5
  <2>2. IsNumeral(SubSeq(t, a + 1, b - 1))
    BY <1>6
  <2> HIDE DEF a, b
  <2> QED BY <2>1, <2>2, NumeralIs
<1>8. CASE i < b
  <2>1. i \in (a + 1)..(b - 1) /\ a <= i
    <3>1. a \in Int /\ b \in Int /\ i \in Int /\ a <= i - 1
      BY <1>3, <1>5
    <3> HIDE DEF a, b
    <3> QED BY <1>8, <3>1
  <2>2. c \in Digit
    BY <1>7, <2>1
  <2>3. r = [ok |-> TRUE, parts |-> s.parts, digits |-> Append(s.digits, c)]
    BY <1>1, <1>3, <2>2, CharSteps
  <2>4. SubSeq(t, a + 1, i) = Append(SubSeq(t, a + 1, i - 1), c)
    <3>1. a + 1 \in 1..Len(t) /\ i \in (a + 1)..Len(t)
      <4>1. a \in 0..n /\ i \in 1..n
        BY <1>5
      <4> HIDE DEF a
      <4> QED BY <2>1, <4>1
    <3> HIDE DEF a
    <3> QED BY <3>1, OneMore
  <2>5. r.ok /\ r.parts = s.parts /\ r.digits = SubSeq(t, a + 1, i)
    <3>1. SubSeq(t, a + 1, i) = Append(s.digits, c)
      BY <1>3, <2>4
    <3> DEFINE digits == Append(s.digits, c)
    <3>2. r = [ok |-> TRUE, parts |-> s.parts, digits |-> digits]
      BY <2>3
    <3> HIDE DEF digits, r
    <3>3. r.ok /\ r.parts = s.parts /\ r.digits = digits
      BY <3>2
    <3> QED BY <3>1, <3>3 DEF digits
  <2> HIDE DEF r
  <2>6. Reached(t, at, m, i, r)
    BY <1>3, <1>8, <2>1, <2>5, Zenon DEF Reached
  <2> QED BY <2>6 DEF r
<1>9. CASE i = b
  <2> DEFINE d == s.digits
  <2>1. d = Between(t, at, m + 1) /\ c = Dot
    BY <1>3, <1>5, <1>6, <1>9
  <2>2. d # <<>> /\ NumberOf(d, 10) <= MaxPart
    BY <1>6, <2>1 DEF IsNumeral
  <2> DEFINE parts == Append(s.parts, NumberOf(d, 10))
  <2>3. r = [ok |-> TRUE, digits |-> <<>>, parts |-> parts]
    BY <1>1, <1>3, <1>4, <2>1, <2>2, CharSteps
  <2>4. s.parts \in Seq(Nat) /\ d \in Seq(Digit)
    BY DEF ParseState
  <2>5. NumberOf(d, 10) \in Nat
    BY <2>4, ComponentIs
  <2>6. /\ Len(parts) = m + 1
        /\ \A k \in 1..m : parts[k] = s.parts[k]
        /\ parts[m + 1] = NumberOf(d, 10)
    BY <1>3, <2>4, <2>5, AppendProperties
  <2> HIDE DEF parts
  <2>7. \A k \in 1..(m + 1) : parts[k] = NumberOf(Between(t, at, k), 10)
    <3>1. \A k \in 1..(m + 1) : k \in 1..m \/ k = m + 1
      BY <1>5
    <3> QED BY <1>3, <2>1, <2>6, <3>1
  <2>8. <<>> = SubSeq(t, i + 1, i)
    <3>1. i + 1 \in Int /\ i \in Int /\ ~(i + 1 <= i)
          /\ \A k \in (i + 1)..i : t[k] \in Character
      OBVIOUS
    <3>2. SubSeq(t, i + 1, i) \in Seq(Character) /\ Len(SubSeq(t, i + 1, i)) = 0
      BY <3>1, SubSeqProperties
    <3> QED BY <3>2, EmptySeq
  <2>9. m + 1 < 4 => i < at[(m + 1) + 1]
    <3> SUFFICES ASSUME m + 1 < 4
                 PROVE  i < at[(m + 1) + 1]
      OBVIOUS
    <3>1. (m + 1) + 1 \in 1..4 /\ ((m + 1) + 1) - 1 = m + 1
      BY <1>5
    <3> QED BY <1>2, <1>9, <3>1
  <2>10. i <= i
    BY <1>1
  <2>11. Reached(t, at, m + 1, i, r)
    <3>1. r.ok /\ r.parts = parts /\ r.digits = <<>>
      BY <2>3
    <3> HIDE DEF r
    <3>2. m + 1 \in 0..4 /\ at[m + 1] <= i /\ r.digits = SubSeq(t, at[m + 1] + 1, i)
      BY <1>5, <1>9, <2>8, <2>10, <3>1
    <3> QED BY <2>6, <2>7, <2>9, <3>1, <3>2, Zenon DEF Reached
  <2> QED BY <1>5, <2>11
<1>10. i < b \/ i = b
  BY <1>1, <1>5
<1> QED BY <1>8, <1>9, <1>10

\* A text that can be cut into four numerals is read as their numbers.
LEMMA CutIsRead ==
    ASSUME NEW t \in Seq(Character), NEW at, CutAt(t, 4, at), at[4] = Len(t),
           NEW f \in [0..Len(t) -> ParseState], f[0] = ParseStart,
           \A i \in 1..Len(t) : f[i] = ParseChar(f[i - 1], t[i])
    PROVE  /\ f[Len(t)].ok
           /\ f[Len(t)].parts = [k \in 1..4 |-> NumberOf(Between(t, at, k), 10)]
<1> DEFINE n == Len(t)
           Good == {i \in Nat : i <= n => \E m \in 0..4 : Reached(t, at, m, i, f[i])}
<1>1. n \in Nat
  OBVIOUS
<1>2. /\ \A k \in 0..4 : at[k] \in 0..n
      /\ at[0] = 0 /\ at[4] = n
      /\ \A k \in 1..4 : at[k - 1] < at[k]
  BY DEF CutAt
<1>3. 0 \in Good
  <2>1. f[0] = [ok |-> TRUE, parts |-> <<>>, digits |-> <<>>]
    BY DEF ParseStart
  <2>2. SubSeq(t, 0 + 1, 0) = <<>>
    OBVIOUS
  <2>3. at[0] <= 0 /\ 0 < at[0 + 1]
    BY <1>2
  <2>4. Reached(t, at, 0, 0, f[0])
    BY <1>2, <2>1, <2>2, <2>3 DEF Reached
  <2>5. 0 \in 0..4
    OBVIOUS
  <2> QED BY <2>4, <2>5
<1>4. ASSUME NEW k \in Nat, k \in Good
      PROVE  k + 1 \in Good
  <2> SUFFICES ASSUME k + 1 <= n
               PROVE  \E m \in 0..4 : Reached(t, at, m, k + 1, f[k + 1])
    OBVIOUS
  <2>1. k + 1 \in 1..n /\ (k + 1) - 1 = k /\ k <= n /\ k \in 0..n
    BY <1>1
  <2>2. PICK m \in 0..4 : Reached(t, at, m, k, f[k])
    BY <1>4, <2>1
  <2>3. f[k + 1] = ParseChar(f[k], t[k + 1]) /\ f[k] \in ParseState
    BY <2>1
  <2>4. Reached(t, at, m, (k + 1) - 1, f[k])
    BY <2>1, <2>2
  <2>5. \E q \in 0..4 : Reached(t, at, q, k + 1, ParseChar(f[k], t[k + 1]))
    BY <2>1, <2>3, <2>4, CutStep
  <2> QED BY <2>3, <2>5
<1> HIDE DEF Good
<1>5. Nat \subseteq Good
  BY <1>3, <1>4, Induction
<1>6. PICK m \in 0..4 : Reached(t, at, m, n, f[n])
  BY <1>1, <1>5 DEF Good
<1>7. m = 4
  <2> SUFFICES ASSUME m < 4
               PROVE  FALSE
    OBVIOUS
  <2>1. n < at[m + 1] /\ m + 1 \in 0..4
    BY <1>6 DEF Reached
  <2> QED BY <1>1, <1>2, <2>1
<1> DEFINE parts == f[n].parts
<1>8. /\ f[n].ok /\ Len(parts) = 4
      /\ \A k \in 1..4 : parts[k] = NumberOf(Between(t, at, k), 10)
  BY <1>6, <1>7 DEF Reached
<1>9. parts \in Seq(Nat)
  <2>1. f[n] \in ParseState
    BY <1>1
  <2> QED BY <2>1 DEF ParseState
<1>10. parts = [k \in 1..4 |-> NumberOf(Between(t, at, k), 10)]
  <2> HIDE DEF parts
  <2>1. parts = [k \in 1..4 |-> parts[k]]
    BY <1>8, <1>9
  <2> QED BY <1>8, <2>1
<1> QED BY <1>8, <1>10

\* What the loop has read by i is a cut and the digits behind it.
Found(t, at, i, s) ==
    /\ Len(s.parts) \in 0..4 /\ CutAt(t, Len(s.parts), at)
    /\ at[Len(s.parts)] <= i /\ s.digits = SubSeq(t, at[Len(s.parts)] + 1, i)
    /\ \A j \in (at[Len(s.parts)] + 1)..i : t[j] \in Digit
    /\ \A k \in 1..Len(s.parts) : s.parts[k] = NumberOf(Between(t, at, k), 10)

\* A cut that is longer by one component.
OneComponentMore(m, at, i) == [k \in 0..(m + 1) |-> IF k = m + 1 THEN i ELSE at[k]]

Extends(t, m, at, i, at2) ==
    /\ CutAt(t, m + 1, at2) /\ at2[m + 1] = i
    /\ \A k \in 1..m : Between(t, at2, k) = Between(t, at, k)
    /\ Between(t, at2, m + 1) = SubSeq(t, at[m] + 1, i - 1)

LEMMA CutOneMore ==
    ASSUME NEW t \in Seq(Character), NEW m \in 0..3, NEW at, CutAt(t, m, at),
           NEW i \in 1..Len(t), at[m] < i, t[i] = Dot,
           IsNumeral(SubSeq(t, at[m] + 1, i - 1))
    PROVE  Extends(t, m, at, i, OneComponentMore(m, at, i))
<1> DEFINE n == Len(t)
           at2 == OneComponentMore(m, at, i)
<1>1. n \in Nat /\ i \in 0..n
  OBVIOUS
<1>2. /\ at \in [0..m -> 0..n] /\ at[0] = 0
      /\ \A k \in 1..m : /\ at[k - 1] < at[k] /\ t[at[k]] = Dot
                         /\ IsNumeral(Between(t, at, k))
  BY DEF CutAt
<1>3. /\ at2[m + 1] = i
      /\ \A k \in 0..m : at2[k] = at[k]
      /\ at2 \in [0..(m + 1) -> 0..n]
  <2>1. \A k \in 0..(m + 1) : k = m + 1 \/ k \in 0..m
    OBVIOUS
  <2>2. \A k \in 0..m : k # m + 1 /\ k \in 0..(m + 1)
    OBVIOUS
  <2> HIDE DEF n
  <2> QED BY <1>1, <1>2, <2>1, <2>2 DEF OneComponentMore
<1>4. \A k \in 1..m : k \in 0..m /\ k - 1 \in 0..m
  OBVIOUS
<1>5. \A k \in 1..m : Between(t, at2, k) = Between(t, at, k)
  BY <1>3, <1>4 DEF Between
<1>6. Between(t, at2, m + 1) = SubSeq(t, at[m] + 1, i - 1)
  <2>1. (m + 1) - 1 = m /\ m \in 0..m
    OBVIOUS
  <2> QED BY <1>3, <2>1 DEF Between
<1>7. ASSUME NEW k \in 1..(m + 1)
      PROVE  at2[k - 1] < at2[k] /\ t[at2[k]] = Dot /\ IsNumeral(Between(t, at2, k))
  <2>1. CASE k = m + 1
    <3>1. k - 1 = m /\ m \in 0..m
      BY <2>1
    <3> QED BY <1>3, <1>6, <2>1, <3>1
  <2>2. CASE k \in 1..m
    BY <1>2, <1>3, <1>4, <1>5, <2>2
  <2>3. k = m + 1 \/ k \in 1..m
    OBVIOUS
  <2> QED BY <2>1, <2>2, <2>3
<1>8. at2[0] = 0
  BY <1>2, <1>3
<1>9. CutAt(t, m + 1, at2)
  BY <1>3, <1>7, <1>8 DEF CutAt
<1> QED BY <1>3, <1>5, <1>6, <1>9 DEF Extends

LEMMA FoundStep ==
    ASSUME NEW t \in Seq(Character), NEW i \in 1..Len(t), NEW s \in ParseState,
           s.ok => \E at : Found(t, at, i - 1, s), ParseChar(s, t[i]).ok
    PROVE  \E at : Found(t, at, i, ParseChar(s, t[i]))
<1> DEFINE c == t[i]
           d == s.digits
           r == ParseChar(s, c)
<1>1. c \in Character /\ s.parts \in Seq(Nat) /\ d \in Seq(Digit) /\ Len(t) \in Nat
  BY DEF ParseState
<1>2. s.ok
  BY <1>1, CharSteps
<1>3. PICK at : Found(t, at, i - 1, s)
  BY <1>2
<1> DEFINE m == Len(s.parts)
           a == at[m]
<1>4. /\ m \in 0..4 /\ CutAt(t, m, at)
      /\ a <= i - 1 /\ d = SubSeq(t, a + 1, i - 1)
      /\ \A j \in (a + 1)..(i - 1) : t[j] \in Digit
      /\ \A k \in 1..m : s.parts[k] = NumberOf(Between(t, at, k), 10)
  BY <1>3 DEF Found
<1>5. a \in 0..Len(t) /\ a \in Int
  BY <1>4 DEF CutAt
<1>6. CASE c \in Digit
  <2>1. r = [ok |-> TRUE, parts |-> s.parts, digits |-> Append(d, c)]
    BY <1>1, <1>2, <1>6, CharSteps
  <2>2. r.parts = s.parts /\ r.digits = Append(d, c)
    <3> DEFINE digits == Append(d, c)
    <3> SUFFICES r.parts = s.parts /\ r.digits = digits
      OBVIOUS
    <3>1. r = [ok |-> TRUE, parts |-> s.parts, digits |-> digits]
      BY <2>1
    <3> HIDE DEF digits, r
    <3> QED BY <3>1
  <2> HIDE DEF d, r, a
  <2>3. a + 1 \in 1..Len(t) /\ i \in (a + 1)..Len(t) /\ a <= i
    BY <1>1, <1>4, <1>5
  <2>4. SubSeq(t, a + 1, i) = Append(SubSeq(t, a + 1, i - 1), c)
    BY <2>3, OneMore
  <2>5. r.digits = SubSeq(t, a + 1, i)
    BY <1>4, <2>2, <2>4
  <2>6. \A j \in (a + 1)..i : t[j] \in Digit
    <3>1. \A j \in (a + 1)..i : j = i \/ j \in (a + 1)..(i - 1)
      BY <1>5
    <3> QED BY <1>4, <1>6, <3>1
  <2> HIDE DEF c
  <2>7. Found(t, at, i, r)
    BY <1>4, <2>2, <2>3, <2>5, <2>6, Zenon DEF Found, a
  <2> QED BY <2>7 DEF r, c
<1>7. CASE c = Dot /\ d # <<>> /\ m < 4 /\ NumberOf(d, 10) <= MaxPart
  <2> DEFINE parts == Append(s.parts, NumberOf(d, 10))
             at2 == OneComponentMore(m, at, i)
  <2>1. r = [ok |-> TRUE, digits |-> <<>>, parts |-> parts]
    BY <1>1, <1>2, <1>7, CharSteps
  <2>2. r.parts = parts /\ r.digits = <<>>
    <3> HIDE DEF parts, r
    <3> QED BY <2>1
  <2>3. NumberOf(d, 10) \in Nat
    BY <1>1, ComponentIs
  <2>4. /\ Len(parts) = m + 1
        /\ \A k \in 1..m : parts[k] = s.parts[k]
        /\ parts[m + 1] = NumberOf(d, 10)
    BY <1>1, <2>3, AppendProperties
  <2>5. IsNumeral(d)
    <3>1. Range(d) \subseteq Digit
      <4> HIDE DEF d
      <4> QED BY <1>1 DEF Range
    <3> QED BY <1>7, <3>1 DEF IsNumeral
  <2> HIDE DEF parts, d, r
  <2>6. /\ m \in 0..3 /\ m + 1 \in 0..4 /\ a < i
        /\ \A k \in 1..(m + 1) : k \in 1..m \/ k = m + 1
    <3> HIDE DEF m, a
    <3> QED BY <1>4, <1>5, <1>7
  <2>7. IsNumeral(SubSeq(t, at[m] + 1, i - 1)) /\ at[m] < i /\ t[i] = Dot
    BY <1>4, <1>7, <2>5, <2>6
  <2>8. /\ CutAt(t, m + 1, at2) /\ at2[m + 1] = i
        /\ \A k \in 1..m : Between(t, at2, k) = Between(t, at, k)
        /\ Between(t, at2, m + 1) = SubSeq(t, a + 1, i - 1)
    <3>1. CutAt(t, m, at) /\ m \in 0..3
      BY <1>4, <2>6
    <3> HIDE DEF m, a
    <3>2. Extends(t, m, at, i, OneComponentMore(m, at, i))
      BY <2>7, <3>1, CutOneMore
    <3> QED BY <3>2 DEF Extends, a
  <2> HIDE DEF at2
  <2>9. \A k \in 1..(m + 1) : parts[k] = NumberOf(Between(t, at2, k), 10)
    <3> HIDE DEF m
    <3>1. \A k \in 1..m : parts[k] = NumberOf(Between(t, at2, k), 10)
      BY <1>4, <2>4, <2>8
    <3>2. parts[m + 1] = NumberOf(Between(t, at2, m + 1), 10)
      BY <1>4, <2>4, <2>8
    <3> QED BY <2>6, <3>1, <3>2
  <2>10. <<>> = SubSeq(t, i + 1, i)
    <3>1. i + 1 \in Int /\ i \in Int /\ ~(i + 1 <= i)
          /\ \A k \in (i + 1)..i : t[k] \in Character
      OBVIOUS
    <3>2. SubSeq(t, i + 1, i) \in Seq(Character) /\ Len(SubSeq(t, i + 1, i)) = 0
      BY <3>1, SubSeqProperties
    <3> QED BY <3>2, EmptySeq
  <2>11. i <= i /\ \A j \in (i + 1)..i : t[j] \in Digit
    OBVIOUS
  <2> DEFINE q == m + 1
  <2>12. /\ Len(r.parts) = q /\ q \in 0..4 /\ CutAt(t, q, at2)
         /\ at2[q] <= i /\ r.digits = SubSeq(t, at2[q] + 1, i)
         /\ \A j \in (at2[q] + 1)..i : t[j] \in Digit
         /\ \A k \in 1..q : r.parts[k] = NumberOf(Between(t, at2, k), 10)
    <3> HIDE DEF m
    <3> QED BY <2>2, <2>4, <2>6, <2>8, <2>9, <2>10, <2>11, Zenon
  <2> HIDE DEF q
  <2>13. Found(t, at2, i, r)
    BY <2>12 DEF Found
  <2> QED BY <2>13 DEF r
<1>8. c \in Digit \/ (c = Dot /\ d # <<>> /\ m < 4 /\ NumberOf(d, 10) <= MaxPart)
  BY <1>1, <1>2, CharSteps
<1> QED BY <1>6, <1>7, <1>8

\* What is accepted could be cut into four numerals, and is their numbers.
LEMMA ReadIsCut ==
    ASSUME NEW t \in Seq(Character), t # <<>>, t[Len(t)] = Dot,
           NEW f \in [0..Len(t) -> ParseState], f[0] = ParseStart,
           \A i \in 1..Len(t) : f[i] = ParseChar(f[i - 1], t[i]),
           f[Len(t)].ok, Len(f[Len(t)].parts) = 4
    PROVE  \E at : /\ CutAt(t, 4, at) /\ at[4] = Len(t)
                   /\ f[Len(t)].parts = [k \in 1..4 |-> NumberOf(Between(t, at, k), 10)]
<1> DEFINE n == Len(t)
           Good == {i \in Nat : i <= n /\ f[i].ok => \E at : Found(t, at, i, f[i])}
<1>1. n \in Nat /\ n \in 1..n
  BY EmptySeq
<1>2. 0 \in Good
  <2>1. f[0] = [ok |-> TRUE, parts |-> <<>>, digits |-> <<>>]
    BY DEF ParseStart
  <2>2. SubSeq(t, 0 + 1, 0) = <<>>
    OBVIOUS
  <2> DEFINE at == [k \in 0..0 |-> 0]
  <2>3. CutAt(t, 0, at) /\ at[0] = 0
    BY <1>1 DEF CutAt
  <2>4. /\ Len(f[0].parts) = 0 /\ 0 \in 0..4 /\ f[0].digits = <<>>
        /\ \A j \in (0 + 1)..0 : t[j] \in Digit
        /\ \A k \in 1..0 : f[0].parts[k] = NumberOf(Between(t, at, k), 10)
    BY <2>1
  <2> HIDE DEF at
  <2>5. Found(t, at, 0, f[0])
    BY <2>2, <2>3, <2>4 DEF Found
  <2> QED BY <2>5
<1>3. ASSUME NEW k \in Nat, k \in Good
      PROVE  k + 1 \in Good
  <2> SUFFICES ASSUME k + 1 <= n, f[k + 1].ok
               PROVE  \E at : Found(t, at, k + 1, f[k + 1])
    OBVIOUS
  <2>1. k + 1 \in 1..n /\ (k + 1) - 1 = k /\ k <= n /\ k \in 0..n
    BY <1>1
  <2>2. f[k].ok => \E at : Found(t, at, (k + 1) - 1, f[k])
    BY <1>3, <2>1
  <2>3. f[k + 1] = ParseChar(f[k], t[k + 1]) /\ f[k] \in ParseState
    BY <2>1
  <2>4. \E at : Found(t, at, k + 1, ParseChar(f[k], t[k + 1]))
    BY <2>1, <2>2, <2>3, FoundStep
  <2> QED BY <2>3, <2>4
<1> HIDE DEF Good
<1>4. Nat \subseteq Good
  BY <1>2, <1>3, Induction
<1>5. PICK at : Found(t, at, n, f[n])
  BY <1>1, <1>4 DEF Good
<1> DEFINE parts == f[n].parts
<1>6. /\ CutAt(t, 4, at) /\ at[4] <= n
      /\ \A j \in (at[4] + 1)..n : t[j] \in Digit
      /\ \A k \in 1..4 : parts[k] = NumberOf(Between(t, at, k), 10)
  BY <1>5 DEF Found
<1>7. at[4] = n
  <2>1. at[4] \in 0..n
    BY <1>6 DEF CutAt
  <2>2. at[4] # n => n \in (at[4] + 1)..n
    BY <1>1, <2>1
  <2>3. t[n] \notin Digit
    BY DEF Digit, Dot
  <2> QED BY <1>6, <2>2, <2>3
<1>8. parts \in Seq(Nat)
  <2>1. f[n] \in ParseState
    BY <1>1
  <2> QED BY <2>1 DEF ParseState
<1>9. parts = [k \in 1..4 |-> NumberOf(Between(t, at, k), 10)]
  <2>1. Len(parts) = 4
    OBVIOUS
  <2> HIDE DEF parts
  <2>2. parts = [k \in 1..4 |-> parts[k]]
    BY <1>8, <2>1
  <2> QED BY <1>6, <2>2
<1> QED BY <1>6, <1>7, <1>9

\* The content is a text.
LEMMA ContentTyped ==
    ASSUME NEW data \in Seq(Character)
    PROVE  ContentOf(data) \in Seq(Character)
<1> DEFINE ends == {i \in DOMAIN data : data[i] = Nul} \cup {Len(data) + 1}
           least == Min(ends)
<1>1. /\ Len(data) \in Nat /\ DOMAIN data = 1..Len(data)
      /\ \A i \in 1..Len(data) : data[i] \in Character
  OBVIOUS
<1>2. ends \subseteq 1..(Len(data) + 1) /\ ends # {}
  BY <1>1
<1>3. least \in ends
  <2>1. ends \subseteq Nat
    BY <1>1, <1>2
  <2> HIDE DEF ends
  <2> QED BY <1>2, <2>1, LeastNatural DEF Min
<1>4. ContentOf(data) = SubSeq(data, 1, least - 1)
  BY DEF ContentOf
<1>5. least \in 1..(Len(data) + 1)
  BY <1>2, <1>3
<1> HIDE DEF least, ends
<1>6. SubSeq(data, 1, least - 1) \in Seq(Character)
  <2>1. 1 \in Int /\ least - 1 \in Int /\ \A i \in 1..(least - 1) : data[i] \in Character
    BY <1>1, <1>5
  <2> QED BY <2>1, SubSeqProperties
<1> QED BY <1>4, <1>6

\* What is in front of the Dot that is put behind a text.
LEMMA InFront ==
    ASSUME NEW text \in Seq(Character)
    PROVE  LET t == WithEnd(text)
           IN  /\ t \in Seq(Character) /\ Len(t) = Len(text) + 1 /\ t # <<>>
               /\ t[Len(t)] = Dot /\ \A i \in 1..Len(text) : t[i] = text[i]
               /\ \A a \in 1..(Len(text) + 1), b \in 0..Len(text) :
                    SubSeq(t, a, b) = SubSeq(text, a, b)
<1> DEFINE t == WithEnd(text)
<1>1. Dot \in Character /\ Len(text) \in Nat
  BY DEF Character
<1>2. /\ t \in Seq(Character) /\ Len(t) = Len(text) + 1 /\ t # <<>>
      /\ t[Len(text) + 1] = Dot /\ \A i \in 1..Len(text) : t[i] = text[i]
  BY <1>1, AppendProperties DEF WithEnd
<1>3. ASSUME NEW a \in 1..(Len(text) + 1), NEW b \in 0..Len(text)
      PROVE  SubSeq(t, a, b) = SubSeq(text, a, b)
  <2>1. /\ a \in Int /\ b \in Int /\ b - a + 1 \in Int
        /\ \A i \in a..b : i \in 1..Len(text)
        /\ \A i \in 1..(b - a + 1) : a + i - 1 \in a..b
    BY <1>1
  <2>2. /\ \A i \in a..b : t[i] = text[i]
        /\ \A i \in a..b : text[i] \in Character
    BY <1>2, <2>1
  <2> DEFINE p == SubSeq(t, a, b)
             q == SubSeq(text, a, b)
             n == IF a <= b THEN b - a + 1 ELSE 0
  <2>3. /\ p \in Seq(Character) /\ Len(p) = n
        /\ \A i \in 1..(b - a + 1) : p[i] = t[a + i - 1]
    BY <2>1, <2>2, SubSeqProperties
  <2>4. /\ q \in Seq(Character) /\ Len(q) = n
        /\ \A i \in 1..(b - a + 1) : q[i] = text[a + i - 1]
    BY <2>1, <2>2, SubSeqProperties
  <2>5. n \in Nat /\ \A i \in 1..n : i \in 1..(b - a + 1)
    BY <2>1
  <2> HIDE DEF p, q, n
  <2>6. \A i \in 1..n : p[i] = q[i]
    BY <2>1, <2>2, <2>3, <2>4, <2>5
  <2>7. p = q
    BY <2>3, <2>4, <2>6, SeqEqual
  <2> QED BY <2>7 DEF p, q
<1> QED BY <1>2, <1>3

\* The boundaries that three dots make in a text of length n.
Boundaries(d, n) ==
    [k \in 0..4 |-> CASE k = 0 -> 0 [] k \in 1..3 -> d[k] [] k = 4 -> n + 1]

\* A cut whose last component ends with the text.
WholeCut(t, at) == CutAt(t, 4, at) /\ at[4] = Len(t)

\* These boundaries are the ends of the text and the three dots.
AreBoundaries(text, at, d) ==
    /\ at[0] = 0 /\ at[4] = Len(text) + 1
    /\ \A k \in 1..3 : at[k] = d[k] /\ d[k] \in 1..Len(text)

\* What they cut out are the components.
LEMMA PartsAreComponents ==
    ASSUME NEW text \in Seq(Character), NEW at, NEW d, AreBoundaries(text, at, d)
    PROVE  \A k \in 1..4 : Between(WithEnd(text), at, k) = Components(text, d)[k]
<1> USE DEF AreBoundaries
<1> DEFINE n == Len(text)
           t == WithEnd(text)
<1>1. /\ n \in Nat /\ n + 1 \in 1..(n + 1)
      /\ \A i \in 1..n : i - 1 \in 0..n /\ i + 1 \in 1..(n + 1)
      /\ 0 + 1 = 1 /\ 1 \in 1..(n + 1) /\ (n + 1) - 1 = n /\ n \in 0..n
  OBVIOUS
<1>2. \A a \in 1..(n + 1), b \in 0..n : SubSeq(t, a, b) = SubSeq(text, a, b)
  BY InFront
<1>3. /\ 1 - 1 = 0 /\ 2 - 1 = 1 /\ 3 - 1 = 2 /\ 4 - 1 = 3
      /\ 1 \in 1..3 /\ 2 \in 1..3 /\ 3 \in 1..3
  OBVIOUS
<1>4. /\ Components(text, d)[1] = SubSeq(text, 1, d[1] - 1)
      /\ Components(text, d)[2] = SubSeq(text, d[1] + 1, d[2] - 1)
      /\ Components(text, d)[3] = SubSeq(text, d[2] + 1, d[3] - 1)
      /\ Components(text, d)[4] = SubSeq(text, d[3] + 1, n)
  BY Zenon DEF Components
<1> HIDE DEF n
<1>5. Between(t, at, 1) = SubSeq(text, 1, d[1] - 1)
  <2>1. Between(t, at, 1) = SubSeq(t, 0 + 1, d[1] - 1)
    BY <1>3 DEF Between
  <2>2. d[1] - 1 \in 0..n
    BY <1>1, <1>3 DEF n
  <2> QED BY <1>1, <1>2, <2>1, <2>2
<1>6. Between(t, at, 2) = SubSeq(text, d[1] + 1, d[2] - 1)
  <2>1. Between(t, at, 2) = SubSeq(t, d[1] + 1, d[2] - 1)
    BY <1>3 DEF Between
  <2>2. d[2] - 1 \in 0..n /\ d[1] + 1 \in 1..(n + 1)
    BY <1>1, <1>3 DEF n
  <2> QED BY <1>2, <2>1, <2>2
<1>7. Between(t, at, 3) = SubSeq(text, d[2] + 1, d[3] - 1)
  <2>1. Between(t, at, 3) = SubSeq(t, d[2] + 1, d[3] - 1)
    BY <1>3 DEF Between
  <2>2. d[3] - 1 \in 0..n /\ d[2] + 1 \in 1..(n + 1)
    BY <1>1, <1>3 DEF n
  <2> QED BY <1>2, <2>1, <2>2
<1>8. Between(t, at, 4) = SubSeq(text, d[3] + 1, n)
  <2>1. Between(t, at, 4) = SubSeq(t, d[3] + 1, (n + 1) - 1)
    BY <1>3 DEF Between, n
  <2>2. d[3] + 1 \in 1..(n + 1)
    BY <1>1, <1>3 DEF n
  <2> QED BY <1>1, <1>2, <2>1, <2>2
<1>9. \A k \in 1..4 : k = 1 \/ k = 2 \/ k = 3 \/ k = 4
  OBVIOUS
<1> QED BY <1>4, <1>5, <1>6, <1>7, <1>8, <1>9

\* Three dots between numerals are a cut of the text with its end,
LEMMA DotsAreCut ==
    ASSUME NEW text \in Seq(Character), NEW d \in VersionDots(text),
           NEW at, at = Boundaries(d, Len(text))
    PROVE  /\ WholeCut(WithEnd(text), at)
           /\ \A k \in 1..4 : Between(WithEnd(text), at, k) = Components(text, d)[k]
<1> DEFINE n == Len(text)
           t == WithEnd(text)
           dots == {i \in DOMAIN text : text[i] = Dot}
<1>1. /\ d \in dots \X dots \X dots /\ d[1] < d[2] /\ d[2] < d[3]
      /\ \A k \in 1..4 : IsNumeral(Components(text, d)[k])
  BY DEF VersionDots
<1>2. /\ d[1] \in 1..n /\ d[2] \in 1..n /\ d[3] \in 1..n
      /\ text[d[1]] = Dot /\ text[d[2]] = Dot /\ text[d[3]] = Dot
  <2> HIDE DEF dots
  <2>1. d[1] \in dots /\ d[2] \in dots /\ d[3] \in dots
    BY <1>1
  <2> QED BY <2>1 DEF dots
<1>3. /\ n \in Nat /\ Len(t) = n + 1 /\ t[n + 1] = Dot
      /\ \A i \in 1..n : t[i] = text[i]
  BY InFront
<1> HIDE DEF n, dots
<1>4. /\ at[0] = 0 /\ at[1] = d[1] /\ at[2] = d[2] /\ at[3] = d[3] /\ at[4] = n + 1
      /\ at = [k \in 0..4 |-> at[k]]
  BY DEF Boundaries, n
<1>5. \A k \in 1..3 : at[k] = d[k] /\ d[k] \in 1..Len(text)
  <2>1. \A k \in 1..3 : k = 1 \/ k = 2 \/ k = 3
    OBVIOUS
  <2> QED BY <1>2, <1>4, <2>1 DEF n
<1>6. \A k \in 1..4 : Between(t, at, k) = Components(text, d)[k]
  <2>1. AreBoundaries(text, at, d)
    BY <1>4, <1>5 DEF AreBoundaries, n
  <2> QED BY <2>1, PartsAreComponents
<1>7. \A k \in 0..4 : k = 0 \/ k = 1 \/ k = 2 \/ k = 3 \/ k = 4
  OBVIOUS
<1>8. \A k \in 0..4 : at[k] \in 0..(n + 1)
  BY <1>2, <1>3, <1>4, <1>7
<1>9. at \in [0..4 -> 0..Len(t)]
  BY <1>3, <1>4, <1>8
<1>10. \A k \in 1..4 : at[k - 1] < at[k] /\ t[at[k]] = Dot
  <2>1. 0 < d[1] /\ d[3] < n + 1
    BY <1>2, <1>3
  <2>2. at[1 - 1] < at[1] /\ at[2 - 1] < at[2] /\ at[3 - 1] < at[3] /\ at[4 - 1] < at[4]
    BY <1>1, <1>4, <2>1
  <2>3. t[at[1]] = Dot /\ t[at[2]] = Dot /\ t[at[3]] = Dot /\ t[at[4]] = Dot
    BY <1>2, <1>3, <1>4
  <2>4. \A k \in 1..4 : k = 1 \/ k = 2 \/ k = 3 \/ k = 4
    OBVIOUS
  <2> QED BY <2>2, <2>3, <2>4
<1>11. CutAt(t, 4, at)
  BY <1>1, <1>4, <1>6, <1>9, <1>10 DEF CutAt
<1> QED BY <1>3, <1>4, <1>6, <1>11 DEF WholeCut

\* and each such cut is made by three dots.
LEMMA CutIsDots ==
    ASSUME NEW text \in Seq(Character), NEW at, WholeCut(WithEnd(text), at)
    PROVE  \E d \in VersionDots(text) :
              \A k \in 1..4 : Between(WithEnd(text), at, k) = Components(text, d)[k]
<1> DEFINE n == Len(text)
           t == WithEnd(text)
           d == <<at[1], at[2], at[3]>>
           dots == {i \in DOMAIN text : text[i] = Dot}
<1>1. /\ n \in Nat /\ Len(t) = n + 1 /\ DOMAIN text = 1..n
      /\ \A i \in 1..n : t[i] = text[i]
  BY InFront
<1>2. /\ \A k \in 0..4 : at[k] \in 0..(n + 1)
      /\ at[0] = 0 /\ at[4] = n + 1
      /\ \A k \in 1..4 : /\ at[k - 1] < at[k] /\ t[at[k]] = Dot
                         /\ IsNumeral(Between(t, at, k))
  <2> HIDE DEF n
  <2> QED BY <1>1 DEF CutAt, WholeCut
<1> HIDE DEF n
<1>3. /\ at[0] < at[1] /\ at[1] < at[2] /\ at[2] < at[3] /\ at[3] < at[4]
      /\ t[at[1]] = Dot /\ t[at[2]] = Dot /\ t[at[3]] = Dot
  <2>1. /\ 1 - 1 = 0 /\ 2 - 1 = 1 /\ 3 - 1 = 2 /\ 4 - 1 = 3
        /\ 1 \in 1..4 /\ 2 \in 1..4 /\ 3 \in 1..4 /\ 4 \in 1..4
    OBVIOUS
  <2> QED BY <1>2, <2>1
<1>4. at[1] \in 1..n /\ at[2] \in 1..n /\ at[3] \in 1..n
  <2>1. at[1] \in 0..(n + 1) /\ at[2] \in 0..(n + 1) /\ at[3] \in 0..(n + 1)
    BY <1>2
  <2> QED BY <1>1, <1>2, <1>3, <2>1
<1>5. d[1] = at[1] /\ d[2] = at[2] /\ d[3] = at[3]
  OBVIOUS
<1> HIDE DEF d
<1>6. \A k \in 1..3 : at[k] = d[k] /\ d[k] \in 1..Len(text)
  <2>1. \A k \in 1..3 : k = 1 \/ k = 2 \/ k = 3
    OBVIOUS
  <2> QED BY <1>4, <1>5, <2>1 DEF n
<1>7. \A k \in 1..4 : Between(t, at, k) = Components(text, d)[k]
  <2>1. AreBoundaries(text, at, d)
    BY <1>2, <1>6 DEF AreBoundaries, n
  <2> QED BY <2>1, PartsAreComponents
<1>8. d \in dots \X dots \X dots
  <2>1. at[1] \in dots /\ at[2] \in dots /\ at[3] \in dots
    BY <1>1, <1>3, <1>4
  <2> HIDE DEF dots
  <2> QED BY <2>1 DEF d
<1>9. \A k \in 1..4 : IsNumeral(Components(text, d)[k])
  BY <1>2, <1>7
<1>10. d \in VersionDots(text)
  BY <1>3, <1>5, <1>8, <1>9 DEF VersionDots
<1> QED BY <1>7, <1>10

\* fota_version_parse accepts what a version text means, and nothing else.
LEMMA VersionIsRead ==
    ASSUME NEW data \in Seq(Character)
    PROVE  fota_version_parse(data) = VersionsIn(data)
<1> DEFINE text == ContentOf(data)
           t == WithEnd(text)
           n == Len(t)
           Meant(d) == [i \in 1..4 |-> NumberOf(Components(text, d)[i], 10)]
<1>1. text \in Seq(Character) /\ t \in Seq(Character)
  BY ContentTyped, InFront
<1>2. PICK f \in [0..n -> ParseState] :
         /\ f[0] = ParseStart
         /\ \A i \in 1..n : f[i] = ParseChar(f[i - 1], t[i])
         /\ fota_version_parse(data) = ParseAnswer(f[n])
  BY <1>1, ParseSteps
<1>3. VersionsIn(data) = {Meant(d) : d \in VersionDots(text)}
  BY Zenon DEF VersionsIn
<1> HIDE DEF text
<1>4. t # <<>> /\ t[Len(t)] = Dot
  BY <1>1, InFront
<1>5. ASSUME NEW d \in VersionDots(text)
      PROVE  f[n].ok /\ f[n].parts = Meant(d)
  <2> DEFINE at == Boundaries(d, Len(text))
  <2>1. /\ WholeCut(t, at)
        /\ \A k \in 1..4 : Between(t, at, k) = Components(text, d)[k]
    BY <1>1, DotsAreCut
  <2> HIDE DEF at
  <2>2. f[n].ok /\ f[n].parts = [k \in 1..4 |-> NumberOf(Between(t, at, k), 10)]
    BY <1>1, <1>2, <2>1, CutIsRead DEF WholeCut
  <2>3. [k \in 1..4 |-> NumberOf(Between(t, at, k), 10)] = Meant(d)
    BY <2>1
  <2> QED BY <2>2, <2>3
<1>6. CASE VersionDots(text) # {}
  <2>1. PICK d \in VersionDots(text) : TRUE
    BY <1>6
  <2>2. f[n].ok /\ \A e \in VersionDots(text) : Meant(e) = f[n].parts
    BY <1>5, <2>1
  <2>3. Len(f[n].parts) = 4
    <3>1. Meant(d) = f[n].parts
      BY <2>1, <2>2
    <3>2. Len(Meant(d)) = 4
      OBVIOUS
    <3> QED BY <3>1, <3>2
  <2>4. fota_version_parse(data) = {f[n].parts}
    BY <1>2, <2>2, <2>3 DEF ParseAnswer
  <2> HIDE DEF Value
  <2>5. {Meant(e) : e \in VersionDots(text)} = {f[n].parts}
    BY <2>1, <2>2
  <2> QED BY <1>3, <2>4, <2>5
<1>7. CASE VersionDots(text) = {}
  <2>1. VersionsIn(data) = {}
    BY <1>3, <1>7
  <2>2. ~(f[n].ok /\ Len(f[n].parts) = 4)
    <3> SUFFICES ASSUME f[n].ok, Len(f[n].parts) = 4
                 PROVE  FALSE
      OBVIOUS
    <3>1. PICK at : CutAt(t, 4, at) /\ at[4] = Len(t)
      BY <1>1, <1>2, <1>4, ReadIsCut
    <3>2. WholeCut(t, at)
      BY <3>1 DEF WholeCut
    <3> QED BY <1>1, <1>7, <3>2, CutIsDots
  <2> QED BY <1>2, <2>1, <2>2 DEF ParseAnswer
<1> QED BY <1>6, <1>7

-----------------------------------------------------------------------------
(* The digits of a number.                                                 *)

\* What holds of a number if it holds of all that are smaller.
LEMMA StrongInduction ==
    ASSUME NEW S, \A n \in Nat : (\A m \in Nat : m < n => m \in S) => n \in S
    PROVE  Nat \subseteq S
<1> DEFINE Rest == {n \in Nat : n \notin S}
<1>1. CASE Rest # {}
  <2>1. PICK n \in Rest : \A m \in Rest : n <= m
    BY <1>1, LeastNatural
  <2>2. \A m \in Nat : m < n => m \in S
    BY <2>1
  <2> QED BY <2>1, <2>2
<1> QED BY <1>1

\* The digits of n, from those of smaller numbers.
DecimalFrom(g, n) == IF n < 10 THEN <<n>> ELSE Append(g[n \div 10], n % 10)

\* A number and what is left of it without its last digit.
LEMMA TenthIsSmaller ==
    ASSUME NEW n \in Nat
    PROVE  /\ n \div 10 \in Nat /\ n % 10 \in Digit
           /\ n = 10 * (n \div 10) + (n % 10)
           /\ ~(n < 10) => n \div 10 < n
           /\ n < 10 => n \in Digit
<1>1. n \div 10 \in Nat /\ n % 10 \in 0..9 /\ n = 10 * (n \div 10) + (n % 10)
  OBVIOUS
<1>2. ~(n < 10) => n \div 10 < n
  OBVIOUS
<1>3. n < 10 => n \in 0..9
  OBVIOUS
<1> QED BY <1>1, <1>2, <1>3 DEF Digit

\* A digit more is still a text of digits.
LEMMA DigitsTyped ==
    ASSUME NEW g, NEW n \in Nat, ~(n < 10) => g[n \div 10] \in Seq(Digit)
    PROVE  DecimalFrom(g, n) \in Seq(Digit)
<1>1. CASE n < 10
  <2>1. n \in Digit
    BY <1>1, TenthIsSmaller
  <2>2. <<n>> \in Seq(Digit)
    BY <2>1
  <2> QED BY <1>1, <2>2 DEF DecimalFrom
<1>2. CASE ~(n < 10)
  <2>1. g[n \div 10] \in Seq(Digit) /\ n % 10 \in Digit
    BY <1>2, TenthIsSmaller
  <2>2. Append(g[n \div 10], n % 10) \in Seq(Digit)
    BY <2>1, AppendProperties
  <2> QED BY <1>2, <2>2 DEF DecimalFrom
<1> QED BY <1>1, <1>2

\* After k steps, the digits of the numbers below k are known.
LEMMA DigitsExist ==
    \E f \in [Nat -> Seq(Digit)] : \A n \in Nat : f[n] = DecimalFrom(f, n)
<1> DEFINE S == [Nat -> Seq(Digit)]
           none == [n \in Nat |-> <<>>]
           step(g) == [n \in Nat |-> DecimalFrom(g, n)]
           D == [p \in S \X Nat |-> step(p[1])]
<1>1. none \in S
  OBVIOUS
<1>2. ASSUME NEW g \in S
      PROVE  step(g) \in S
  <2>1. \A n \in Nat : DecimalFrom(g, n) \in Seq(Digit)
    <3> TAKE n \in Nat
    <3>1. g[n \div 10] \in Seq(Digit)
      BY TenthIsSmaller
    <3> QED BY <3>1, DigitsTyped
  <2> QED BY <2>1
<1> HIDE DEF S, step
<1>3. D \in [S \X Nat -> S] /\ \A s \in S, i \in Nat : D[<<s, i>>] = step(s)
  BY <1>2
<1> HIDE DEF D, none
<1>4. PICK g \in [Nat -> S] : AllSteps(g, none, D)
  BY <1>1, <1>3, Recursion
<1>5. ASSUME NEW k \in Nat
      PROVE  g[k] \in S /\ g[k + 1] = step(g[k])
  <2>1. g[k] \in S
    BY <1>4
  <2>2. g[k + 1] = D[<<g[k], k + 1>>] /\ k + 1 \in Nat
    BY <1>4 DEF AllSteps
  <2> QED BY <1>3, <2>1, <2>2
<1>6. ASSUME NEW k \in Nat, NEW n \in Nat
      PROVE  g[k + 1][n] = DecimalFrom(g[k], n)
  BY <1>5 DEF step
<1>7. \A k \in Nat : \A n \in Nat : n < k => g[k + 1][n] = g[k][n]
  <2> DEFINE Good == {k \in Nat : \A n \in Nat : n < k => g[k + 1][n] = g[k][n]}
  <2>1. 0 \in Good
    OBVIOUS
  <2>2. ASSUME NEW k \in Nat, k \in Good
        PROVE  k + 1 \in Good
    <3> SUFFICES ASSUME NEW n \in Nat, n < k + 1
                 PROVE  g[(k + 1) + 1][n] = g[k + 1][n]
      OBVIOUS
    <3>1. /\ g[(k + 1) + 1][n] = DecimalFrom(g[k + 1], n)
          /\ g[k + 1][n] = DecimalFrom(g[k], n)
      BY <1>6
    <3>2. ~(n < 10) => n \div 10 \in Nat /\ n \div 10 < k
      BY TenthIsSmaller
    <3>3. ~(n < 10) => g[k + 1][n \div 10] = g[k][n \div 10]
      BY <2>2, <3>2
    <3> QED BY <3>1, <3>3 DEF DecimalFrom
  <2> HIDE DEF Good
  <2>3. Nat \subseteq Good
    BY <2>1, <2>2, Induction
  <2> QED BY <2>3 DEF Good
<1>8. \A n \in Nat : \A k \in Nat : n < k => g[k][n] = g[n + 1][n]
  <2> TAKE n \in Nat
  <2> DEFINE Good == {k \in Nat : n < k => g[k][n] = g[n + 1][n]}
  <2>1. 0 \in Good
    OBVIOUS
  <2>2. ASSUME NEW k \in Nat, k \in Good
        PROVE  k + 1 \in Good
    <3> SUFFICES ASSUME n < k + 1
                 PROVE  g[k + 1][n] = g[n + 1][n]
      OBVIOUS
    <3>1. n = k \/ n < k
      OBVIOUS
    <3>2. n < k => g[k + 1][n] = g[k][n]
      BY <1>7
    <3> QED BY <2>2, <3>1, <3>2
  <2> HIDE DEF Good
  <2>3. Nat \subseteq Good
    BY <2>1, <2>2, Induction
  <2> QED BY <2>3 DEF Good
<1> DEFINE f == [n \in Nat |-> g[n + 1][n]]
<1>9. f \in [Nat -> Seq(Digit)] /\ \A n \in Nat : f[n] = g[n + 1][n]
  <2>1. \A n \in Nat : g[n + 1][n] \in Seq(Digit)
    BY <1>5 DEF S
  <2> QED BY <2>1
<1> HIDE DEF f
<1>10. ASSUME NEW n \in Nat
       PROVE  f[n] = DecimalFrom(f, n)
  <2>1. f[n] = DecimalFrom(g[n], n)
    BY <1>6, <1>9
  <2>2. ~(n < 10) => g[n][n \div 10] = f[n \div 10]
    <3> DEFINE m == n \div 10
    <3>1. m \in Nat /\ (~(n < 10) => m < n)
      BY TenthIsSmaller
    <3> HIDE DEF m
    <3>2. ~(n < 10) => g[n][m] = g[m + 1][m]
      BY <1>8, <3>1
    <3>3. f[m] = g[m + 1][m]
      BY <1>9, <3>1
    <3>4. ~(n < 10) => g[n][m] = f[m]
      BY <3>2, <3>3
    <3> QED BY <3>4 DEF m
  <2> QED BY <2>1, <2>2 DEF DecimalFrom
<1> QED BY <1>9, <1>10

\* Decimal[n], which is a choice, exists and satisfies its equation.
LEMMA DecimalSteps ==
    ASSUME NEW n \in Nat
    PROVE  /\ Decimal[n] \in Seq(Digit)
           /\ n < 10 => Decimal[n] = <<n>>
           /\ ~(n < 10) => Decimal[n] = Append(Decimal[n \div 10], n % 10)
<1> DEFINE Is(f) == f = [k \in Nat |-> IF k < 10 THEN <<k>>
                                       ELSE Append(f[k \div 10], k % 10)]
<1>1. PICK f \in [Nat -> Seq(Digit)] : \A k \in Nat : f[k] = DecimalFrom(f, k)
  BY DigitsExist
<1>2. Is(f)
  <2>1. f = [k \in Nat |-> DecimalFrom(f, k)]
    BY <1>1
  <2> QED BY <2>1 DEF DecimalFrom
<1>3. Is(Decimal)
  BY <1>2, Zenon DEF Decimal
<1>4. ASSUME NEW k \in Nat
      PROVE  Decimal[k] = DecimalFrom(Decimal, k)
  BY <1>3 DEF DecimalFrom
<1>5. Nat \subseteq {k \in Nat : Decimal[k] \in Seq(Digit)}
  <2> DEFINE Typed == {k \in Nat : Decimal[k] \in Seq(Digit)}
  <2>1. ASSUME NEW k \in Nat, \A m \in Nat : m < k => m \in Typed
        PROVE  k \in Typed
    <3>1. ~(k < 10) => Decimal[k \div 10] \in Seq(Digit)
      BY <2>1, TenthIsSmaller
    <3>2. DecimalFrom(Decimal, k) \in Seq(Digit)
      BY <3>1, DigitsTyped
    <3> QED BY <1>4, <3>2
  <2> HIDE DEF Typed
  <2>2. Nat \subseteq Typed
    BY <2>1, StrongInduction
  <2> QED BY <2>2 DEF Typed
<1>6. Decimal[n] \in Seq(Digit)
  BY <1>5
<1> HIDE DEF Is
<1> QED BY <1>4, <1>6 DEF DecimalFrom

\* The digits of n stand for n.
LEMMA DecimalIs ==
    ASSUME NEW n \in Nat
    PROVE  /\ Decimal[n] \in Seq(Digit) /\ Decimal[n] # <<>>
           /\ Len(Decimal[n]) \in Nat /\ Len(Decimal[n]) >= 1
           /\ NumberOf(Decimal[n], 10) = n
<1> DEFINE Good == {k \in Nat : Decimal[k] # <<>> /\ NumberOf(Decimal[k], 10) = k}
<1>1. ASSUME NEW k \in Nat, \A m \in Nat : m < k => m \in Good
      PROVE  k \in Good
  <2>1. 10 \in Nat /\ Digit \subseteq Nat
    BY DEF Digit
  <2>2. CASE k < 10
    <3>1. Decimal[k] = <<k>>
      BY <2>2, DecimalSteps
    <3>2. Append(<<>>, k) = <<k>> /\ <<k>> # <<>> /\ <<>> \in Seq(Nat)
      OBVIOUS
    <3>3. NumberOf(Append(<<>>, k), 10) = 10 * NumberOf(<<>>, 10) + k
      BY <2>1, <3>2, NumberOfAppend
    <3>4. NumberOf(<<>>, 10) = 0
      BY <2>1, NumberOfNone
    <3>5. NumberOf(Decimal[k], 10) = k
      BY <3>1, <3>2, <3>3, <3>4
    <3> QED BY <3>1, <3>2, <3>5
  <2>3. CASE ~(k < 10)
    <3> DEFINE m == k \div 10
               d == k % 10
    <3>1. m \in Nat /\ d \in Digit /\ k = 10 * m + d /\ m < k
      BY <2>3, TenthIsSmaller
    <3>2. Decimal[k] = Append(Decimal[m], d)
      BY <2>3, DecimalSteps
    <3> HIDE DEF m, d
    <3>3. Decimal[m] \in Seq(Nat) /\ d \in Nat
      <4>1. Decimal[m] \in Seq(Digit)
        BY <3>1, DecimalSteps
      <4> QED BY <2>1, <3>1, <4>1, SeqMonotonic
    <3>4. NumberOf(Append(Decimal[m], d), 10) = 10 * NumberOf(Decimal[m], 10) + d
      BY <2>1, <3>3, NumberOfAppend
    <3>5. NumberOf(Decimal[m], 10) = m
      BY <1>1, <3>1
    <3>6. Append(Decimal[m], d) # <<>>
      BY <3>3, AppendProperties
    <3>7. NumberOf(Decimal[k], 10) = k
      BY <3>1, <3>2, <3>4, <3>5
    <3> QED BY <3>2, <3>6, <3>7
  <2> QED BY <2>2, <2>3
<1> HIDE DEF Good
<1>2. Nat \subseteq Good
  BY <1>1, StrongInduction
<1>3. Decimal[n] # <<>> /\ NumberOf(Decimal[n], 10) = n
  BY <1>2 DEF Good
<1>4. Decimal[n] \in Seq(Digit)
  BY DecimalSteps
<1> DEFINE s == Decimal[n]
<1> HIDE DEF s
<1>5. s \in Seq(Digit) /\ s # <<>>
  BY <1>3, <1>4 DEF s
<1>6. Len(s) \in Nat /\ Len(s) >= 1
  BY <1>5, EmptySeq
<1> QED BY <1>3, <1>4, <1>6 DEF s

\* A smaller number has no more digits.
LEMMA DecimalLength ==
    ASSUME NEW n \in Nat, NEW k \in Nat, k <= n
    PROVE  Len(Decimal[k]) <= Len(Decimal[n])
<1> DEFINE len(i) == Len(Decimal[i])
           Good == {i \in Nat : \A j \in Nat : j <= i => len(j) <= len(i)}
<1>1. ASSUME NEW i \in Nat
      PROVE  /\ len(i) \in Nat /\ len(i) >= 1
             /\ i < 10 => len(i) = 1
             /\ ~(i < 10) => len(i) = len(i \div 10) + 1
  <2>1. len(i) \in Nat /\ len(i) >= 1
    BY DecimalIs
  <2>2. ASSUME i < 10
        PROVE  len(i) = 1
    <3>1. Decimal[i] = <<i>>
      BY <2>2, DecimalSteps
    <3>2. Len(<<i>>) = 1
      OBVIOUS
    <3> QED BY <3>1, <3>2
  <2>3. ASSUME ~(i < 10)
        PROVE  len(i) = len(i \div 10) + 1
    <3> DEFINE s == Decimal[i \div 10]
               d == i % 10
    <3>1. Decimal[i] = Append(s, d) /\ s \in Seq(Digit) /\ d \in Digit
      BY <2>3, DecimalSteps, TenthIsSmaller
    <3> HIDE DEF s, d
    <3>2. Len(Append(s, d)) = Len(s) + 1
      BY <3>1, AppendProperties
    <3> QED BY <3>1, <3>2 DEF s
  <2> QED BY <2>1, <2>2, <2>3
<1> HIDE DEF len
<1>2. ASSUME NEW i \in Nat, \A m \in Nat : m < i => m \in Good
      PROVE  i \in Good
  <2> SUFFICES ASSUME NEW j \in Nat, j <= i
               PROVE  len(j) <= len(i)
    OBVIOUS
  <2>1. CASE j < 10
    BY <1>1, <2>1
  <2>2. CASE ~(j < 10)
    <3> DEFINE a == i \div 10
               b == j \div 10
    <3>1. /\ a \in Nat /\ b \in Nat /\ b <= a /\ a < i
          /\ ~(i < 10)
      BY <2>2
    <3>2. len(i) = len(a) + 1 /\ len(j) = len(b) + 1
      BY <1>1, <2>2, <3>1
    <3> HIDE DEF a, b
    <3>3. len(b) <= len(a)
      BY <1>2, <3>1
    <3>4. len(a) \in Nat /\ len(b) \in Nat
      BY <1>1, <3>1
    <3> QED BY <3>2, <3>3, <3>4
  <2> QED BY <2>1, <2>2
<1> HIDE DEF Good
<1>3. Nat \subseteq Good
  BY <1>2, StrongInduction
<1>4. len(k) <= len(n)
  BY <1>3 DEF Good
<1> QED BY <1>4 DEF len

\* The numbers that the first digits of n stand for.
HeadNumbers(n) ==
    {NumberOf(SubSeq(Decimal[n], 1, j), 10) : j \in 1..Len(Decimal[n])}

\* What first digits stand for: the number itself, or what those of a tenth do.
LEMMA HeadSteps ==
    ASSUME NEW n \in Nat
    PROVE  /\ n < 10 => HeadNumbers(n) = {n}
           /\ ~(n < 10) => HeadNumbers(n) = {n} \cup HeadNumbers(n \div 10)
<1> DEFINE s == Decimal[n]
           l == Len(s)
           num(q, j) == NumberOf(SubSeq(q, 1, j), 10)
<1>1. s \in Seq(Digit) /\ l \in Nat /\ l >= 1 /\ NumberOf(s, 10) = n
  BY DecimalIs
<1>2. num(s, l) = n
  <2> HIDE DEF s
  <2>1. SubSeq(s, 1, l) = s
    BY <1>1
  <2> QED BY <1>1, <2>1
<1>3. HeadNumbers(n) = {num(s, j) : j \in 1..l}
  BY DEF HeadNumbers
<1>4. ASSUME n < 10
      PROVE  HeadNumbers(n) = {n}
  <2>1. s = <<n>>
    BY <1>4, DecimalSteps
  <2>2. l = 1
    BY <2>1
  <2> HIDE DEF s, l, num
  <2>3. \A j \in 1..l : j = l
    BY <2>2
  <2>4. l \in 1..l
    BY <2>2
  <2> QED BY <1>2, <1>3, <2>3, <2>4
<1>5. ASSUME ~(n < 10)
      PROVE  HeadNumbers(n) = {n} \cup HeadNumbers(n \div 10)
  <2> DEFINE e == Decimal[n \div 10]
             d == n % 10
             k == Len(e)
  <2>1. s = Append(e, d) /\ e \in Seq(Digit) /\ d \in Digit
    BY <1>5, DecimalSteps, TenthIsSmaller
  <2>2. HeadNumbers(n \div 10) = {num(e, j) : j \in 1..k}
    BY DEF HeadNumbers
  <2> HIDE DEF e, d, s
  <2>3. /\ k \in Nat /\ l = k + 1
        /\ \A i \in 1..k : s[i] = e[i]
    BY <2>1, AppendProperties
  <2>4. ASSUME NEW j \in 1..k
        PROVE  SubSeq(s, 1, j) = SubSeq(e, 1, j)
    <3> DEFINE p == SubSeq(s, 1, j)
               q == SubSeq(e, 1, j)
    <3>1. /\ p \in Seq(Digit) /\ Len(p) = j
          /\ \A i \in 1..j : p[i] = s[i]
      BY <1>1, <2>3
    <3>2. /\ q \in Seq(Digit) /\ Len(q) = j
          /\ \A i \in 1..j : q[i] = e[i]
      BY <2>1, <2>3
    <3>3. \A i \in 1..j : i \in 1..k
      BY <2>3
    <3> HIDE DEF p, q
    <3>4. \A i \in 1..j : p[i] = q[i]
      BY <2>3, <3>1, <3>2, <3>3
    <3>5. p = q
      BY <3>1, <3>2, <3>4, SeqEqual
    <3> QED BY <3>5 DEF p, q
  <2>5. \A j \in 1..k : num(s, j) = num(e, j)
    BY <2>4
  <2>6. /\ \A j \in 1..l : j = l \/ j \in 1..k
        /\ \A j \in 1..k : j \in 1..l
        /\ l \in 1..l
    BY <2>3
  <2> HIDE DEF num, l, k
  <2> QED BY <1>2, <1>3, <2>2, <2>5, <2>6
<1> QED BY <1>4, <1>5

\* n, and n without some of its last digits.
Heads(n, T) == {n} \cup {n \div t : t \in {u \in T : u <= n}}

MoreTens(T) == {10} \cup {10 * t : t \in T}

\* To drop a digit, and then more.
LEMMA TenFirst ==
    ASSUME NEW n \in Nat, NEW t \in Tens
    PROVE  /\ t \in Nat /\ t >= 10
           /\ (n \div 10) \div t = n \div (10 * t)
           /\ t <= n \div 10 <=> 10 * t <= n
<1>1. CASE t = 10
  BY <1>1
<1>2. CASE t = 100
  BY <1>2
<1>3. CASE t = 1000
  BY <1>3
<1>4. CASE t = 10000
  BY <1>4
<1>5. CASE t = 100000
  BY <1>5
<1>6. CASE t = 1000000
  BY <1>6
<1>7. CASE t = 10000000
  BY <1>7
<1>8. CASE t = 100000000
  BY <1>8
<1>9. CASE t = 1000000000
  BY <1>9
<1> QED BY <1>1, <1>2, <1>3, <1>4, <1>5, <1>6, <1>7, <1>8, <1>9 DEF Tens

\* With one more power of ten, the numbers below ten times the bound are covered.
LEMMA HeadsOneMore ==
    ASSUME NEW T \in SUBSET Tens, NEW B \in Nat,
           \A n \in Nat : n < B => HeadNumbers(n) = Heads(n, T)
    PROVE  \A n \in Nat : n < 10 * B => HeadNumbers(n) = Heads(n, MoreTens(T))
<1> SUFFICES ASSUME NEW n \in Nat, n < 10 * B
             PROVE  HeadNumbers(n) = Heads(n, MoreTens(T))
  OBVIOUS
<1>1. \A t \in T : /\ t \in Nat /\ t >= 10 /\ 10 * t >= 10
                   /\ (n \div 10) \div t = n \div (10 * t)
                   /\ t <= n \div 10 <=> 10 * t <= n
  <2> TAKE t \in T
  <2>1. t \in Tens
    OBVIOUS
  <2>2. t \in Nat /\ t >= 10
    BY <2>1, TenFirst
  <2>3. 10 * t >= 10
    BY <2>2
  <2>4. (n \div 10) \div t = n \div (10 * t) /\ (t <= n \div 10 <=> 10 * t <= n)
    BY <2>1, TenFirst
  <2> QED BY <2>2, <2>3, <2>4
<1>2. CASE n < 10
  <2>1. HeadNumbers(n) = {n}
    BY <1>2, HeadSteps
  <2>2. \A u \in MoreTens(T) : ~(u <= n)
    <3>1. \A t \in T : ~(10 * t <= n)
      BY <1>1, <1>2
    <3>2. ~(10 <= n)
      BY <1>2
    <3> QED BY <3>1, <3>2 DEF MoreTens
  <2> QED BY <2>1, <2>2 DEF Heads
<1>3. CASE ~(n < 10)
  <2> DEFINE m == n \div 10
             K == {u \in T : u <= m}
             L == {u \in MoreTens(T) : u <= n}
  <2>1. m \in Nat /\ m < B
    BY <1>3
  <2>2. HeadNumbers(n) = {n} \cup HeadNumbers(m)
    BY <1>3, HeadSteps
  <2>3. HeadNumbers(m) = {m} \cup {m \div t : t \in K}
    BY <2>1 DEF Heads
  <2>4. Heads(n, MoreTens(T)) = {n} \cup {n \div t : t \in L}
    BY DEF Heads
  <2>5. \A t \in K : 10 * t \in L /\ m \div t = n \div (10 * t)
    BY <1>1 DEF MoreTens
  <2>6. 10 \in L /\ m = n \div 10
    BY <1>3 DEF MoreTens
  <2>7. \A u \in L : u = 10 \/ \E t \in K : u = 10 * t /\ m \div t = n \div u
    BY <1>1 DEF MoreTens
  <2> HIDE DEF K, L, m
  <2>8. {m} \cup {m \div t : t \in K} = {n \div t : t \in L}
    BY <2>5, <2>6, <2>7
  <2> QED BY <2>2, <2>3, <2>4, <2>8
<1> QED BY <1>2, <1>3

\* The first digits of a component stand for what CutLast leaves of it.
LEMMA HeadsAre ==
    ASSUME NEW n \in Nat, n <= MaxPart
    PROVE  HeadNumbers(n) = Heads(n, Tens)
<1> DEFINE Known(B, T) == \A k \in Nat : k < B => HeadNumbers(k) = Heads(k, T)
           T1 == {10}
           T2 == {10, 100}
           T3 == {10, 100, 1000}
           T4 == {10, 100, 1000, 10000}
           T5 == {10, 100, 1000, 10000, 100000}
           T6 == {10, 100, 1000, 10000, 100000, 1000000}
           T7 == {10, 100, 1000, 10000, 100000, 1000000, 10000000}
           T8 == {10, 100, 1000, 10000, 100000, 1000000, 10000000, 100000000}
<1>1. Known(10, {})
  <2> SUFFICES ASSUME NEW k \in Nat, k < 10
               PROVE  HeadNumbers(k) = Heads(k, {})
    OBVIOUS
  <2>1. HeadNumbers(k) = {k}
    BY HeadSteps
  <2> QED BY <2>1 DEF Heads
<1>2. ASSUME NEW T \in SUBSET Tens, NEW B \in Nat, Known(B, T)
      PROVE  Known(10 * B, MoreTens(T))
  BY <1>2, HeadsOneMore
<1>3. /\ MoreTens({}) = T1 /\ MoreTens(T1) = T2 /\ MoreTens(T2) = T3
      /\ MoreTens(T3) = T4
  BY DEF MoreTens
<1>4. /\ MoreTens(T4) = T5 /\ MoreTens(T5) = T6
  BY DEF MoreTens
<1>5. /\ MoreTens(T6) = T7 /\ MoreTens(T7) = T8
  BY DEF MoreTens
<1>6. MoreTens(T8) = Tens
  BY DEF MoreTens, Tens
<1>7. /\ {} \in SUBSET Tens /\ T1 \in SUBSET Tens /\ T2 \in SUBSET Tens
      /\ T3 \in SUBSET Tens /\ T4 \in SUBSET Tens /\ T5 \in SUBSET Tens
      /\ T6 \in SUBSET Tens /\ T7 \in SUBSET Tens /\ T8 \in SUBSET Tens
  BY DEF Tens
<1> HIDE DEF Known, T1, T2, T3, T4, T5, T6, T7, T8
<1>8. /\ 10 \in Nat /\ 100 \in Nat /\ 1000 \in Nat /\ 10000 \in Nat /\ 100000 \in Nat
      /\ 1000000 \in Nat /\ 10000000 \in Nat /\ 100000000 \in Nat /\ 1000000000 \in Nat
      /\ 10 * 10 = 100 /\ 10 * 100 = 1000 /\ 10 * 1000 = 10000
      /\ 10 * 10000 = 100000 /\ 10 * 100000 = 1000000
      /\ 10 * 1000000 = 10000000 /\ 10 * 10000000 = 100000000
      /\ 10 * 100000000 = 1000000000 /\ 10 * 1000000000 = 10000000000
  OBVIOUS
<1>9. Known(100, T1)
  BY <1>1, <1>2, <1>3, <1>7, <1>8
<1>10. Known(1000, T2)
  BY <1>2, <1>3, <1>7, <1>8, <1>9
<1>11. Known(10000, T3)
  BY <1>2, <1>3, <1>7, <1>8, <1>10
<1>12. Known(100000, T4)
  BY <1>2, <1>3, <1>7, <1>8, <1>11
<1>13. Known(1000000, T5)
  BY <1>2, <1>4, <1>7, <1>8, <1>12
<1>14. Known(10000000, T6)
  BY <1>2, <1>4, <1>7, <1>8, <1>13
<1>15. Known(100000000, T7)
  BY <1>2, <1>5, <1>7, <1>8, <1>14
<1>16. Known(1000000000, T8)
  BY <1>2, <1>5, <1>7, <1>8, <1>15
<1>17. Known(10000000000, Tens)
  BY <1>2, <1>6, <1>7, <1>8, <1>16
<1>18. n < 10000000000
  BY TensAssumption, MaxPartAssumption
<1> QED BY <1>17, <1>18 DEF Known

-----------------------------------------------------------------------------
(* The text that is written.                                               *)

\* One more component behind a text.
LEMMA DotAndDigits ==
    ASSUME NEW s \in Seq(Character), NEW d \in Seq(Digit)
    PROVE  LET t == (s \o <<Dot>>) \o d
           IN  /\ t \in Seq(Character)
               /\ Len(t) = Len(s) + 1 + Len(d)
               /\ \A i \in 1..Len(s) : t[i] = s[i]
               /\ t[Len(s) + 1] = Dot
               /\ \A i \in 1..Len(d) : t[Len(s) + 1 + i] = d[i]
<1> DEFINE one == <<Dot>>
           m == s \o one
           t == m \o d
           n == Len(s)
           k == Len(d)
<1>1. one \in Seq(Character) /\ Len(one) = 1 /\ one[1] = Dot
  BY DEF Character
<1>2. d \in Seq(Character) /\ k \in Nat /\ n \in Nat
  <2>1. Digit \subseteq Character
    BY DEF Character
  <2> QED BY <2>1, SeqMonotonic
<1> HIDE DEF one, n, k
<1>3. /\ m \in Seq(Character) /\ Len(m) = n + 1
      /\ \A i \in 1..(n + 1) : m[i] = IF i <= n THEN s[i] ELSE one[i - n]
  <2>1. /\ m \in Seq(Character) /\ Len(m) = Len(s) + Len(one)
        /\ \A i \in 1..(Len(s) + Len(one)) :
              m[i] = IF i <= Len(s) THEN s[i] ELSE one[i - Len(s)]
    BY <1>1, ConcatProperties, Zenon
  <2> HIDE DEF m
  <2> QED BY <1>1, <2>1 DEF n
<1> HIDE DEF m
<1>4. /\ t \in Seq(Character) /\ Len(t) = n + 1 + k
      /\ \A i \in 1..(n + 1 + k) : t[i] = IF i <= n + 1 THEN m[i] ELSE d[i - (n + 1)]
  <2>1. /\ t \in Seq(Character) /\ Len(t) = Len(m) + Len(d)
        /\ \A i \in 1..(Len(m) + Len(d)) :
              t[i] = IF i <= Len(m) THEN m[i] ELSE d[i - Len(m)]
    BY <1>2, <1>3, ConcatProperties, Zenon
  <2> HIDE DEF t
  <2> QED BY <1>3, <2>1 DEF k
<1> HIDE DEF t
<1>5. \A i \in 1..n : t[i] = s[i]
  <2>1. \A i \in 1..n : i <= n /\ i <= n + 1 /\ i \in 1..(n + 1) /\ i \in 1..(n + 1 + k)
    BY <1>2
  <2> QED BY <1>3, <1>4, <2>1
<1>6. t[n + 1] = Dot
  <2>1. /\ n + 1 \in 1..(n + 1) /\ n + 1 \in 1..(n + 1 + k)
        /\ n + 1 <= n + 1 /\ ~(n + 1 <= n) /\ (n + 1) - n = 1
    BY <1>2
  <2> QED BY <1>1, <1>3, <1>4, <2>1
<1>7. \A i \in 1..k : t[n + 1 + i] = d[i]
  <2>1. \A i \in 1..k : /\ n + 1 + i \in 1..(n + 1 + k) /\ ~(n + 1 + i <= n + 1)
                        /\ (n + 1 + i) - (n + 1) = i
    BY <1>2
  <2> QED BY <1>4, <2>1
<1> QED BY <1>4, <1>5, <1>6, <1>7 DEF t, m, one, n, k

\* Where the components of a version are in its text.
Laid(v, q, a, b, c) ==
    /\ a = Len(Decimal[v[1]]) + 1 /\ b = a + Len(Decimal[v[2]]) + 1
    /\ c = b + Len(Decimal[v[3]]) + 1 /\ Len(q) = c + Len(Decimal[v[4]])
    /\ q[a] = Dot /\ q[b] = Dot /\ q[c] = Dot
    /\ \A i \in 1..Len(Decimal[v[1]]) : q[i] = Decimal[v[1]][i]
    /\ \A i \in 1..Len(Decimal[v[2]]) : q[a + i] = Decimal[v[2]][i]
    /\ \A i \in 1..Len(Decimal[v[3]]) : q[b + i] = Decimal[v[3]][i]
    /\ \A i \in 1..Len(Decimal[v[4]]) : q[c + i] = Decimal[v[4]][i]

\* What version.c writes: four components, a dot between two of them, a line end.
LEMMA LineLayout ==
    ASSUME NEW v \in Version
    PROVE  \E q \in Seq(Character) :
              /\ Line(v) = Append(q, White)
              /\ \E a, b, c \in Nat : Laid(v, q, a, b, c)
<1> DEFINE d1 == Decimal[v[1]]
           d2 == Decimal[v[2]]
           d3 == Decimal[v[3]]
           d4 == Decimal[v[4]]
           s2 == (d1 \o <<Dot>>) \o d2
           s3 == (s2 \o <<Dot>>) \o d3
           q == (s3 \o <<Dot>>) \o d4
           a == Len(d1) + 1
           b == a + Len(d2) + 1
           c == b + Len(d3) + 1
<1>1. v[1] \in Nat /\ v[2] \in Nat /\ v[3] \in Nat /\ v[4] \in Nat
  BY MaxPartAssumption DEF Version, Part
<1>2. d1 \in Seq(Digit) /\ d2 \in Seq(Digit) /\ d3 \in Seq(Digit) /\ d4 \in Seq(Digit)
  BY <1>1, DecimalSteps
<1>3. Line(v) = q \o <<White>>
  BY DEF Line
<1> HIDE DEF d1, d2, d3, d4
<1>4. d1 \in Seq(Character)
  <2>1. Digit \subseteq Character
    BY DEF Character
  <2> QED BY <1>2, <2>1, SeqMonotonic
<1>5. /\ Len(d1) \in Nat /\ Len(d2) \in Nat /\ Len(d3) \in Nat /\ Len(d4) \in Nat
      /\ a \in Nat /\ b \in Nat /\ c \in Nat
  BY <1>2
<1>6. /\ s2 \in Seq(Character) /\ Len(s2) = a + Len(d2)
      /\ \A i \in 1..Len(d1) : s2[i] = d1[i]
      /\ s2[a] = Dot
      /\ \A i \in 1..Len(d2) : s2[a + i] = d2[i]
  BY <1>2, <1>4, DotAndDigits
<1> HIDE DEF s2
<1>7. /\ s3 \in Seq(Character) /\ Len(s3) = b + Len(d3)
      /\ \A i \in 1..Len(s2) : s3[i] = s2[i]
      /\ s3[b] = Dot
      /\ \A i \in 1..Len(d3) : s3[b + i] = d3[i]
  <2>1. /\ s3 \in Seq(Character) /\ Len(s3) = Len(s2) + 1 + Len(d3)
        /\ \A i \in 1..Len(s2) : s3[i] = s2[i]
        /\ s3[Len(s2) + 1] = Dot
        /\ \A i \in 1..Len(d3) : s3[Len(s2) + 1 + i] = d3[i]
    BY <1>2, <1>6, DotAndDigits
  <2>2. Len(s2) + 1 = b
    BY <1>6
  <2> HIDE DEF b, s3
  <2> QED BY <2>1, <2>2
<1> HIDE DEF s3
<1>8. /\ q \in Seq(Character) /\ Len(q) = c + Len(d4)
      /\ \A i \in 1..Len(s3) : q[i] = s3[i]
      /\ q[c] = Dot
      /\ \A i \in 1..Len(d4) : q[c + i] = d4[i]
  <2>1. /\ q \in Seq(Character) /\ Len(q) = Len(s3) + 1 + Len(d4)
        /\ \A i \in 1..Len(s3) : q[i] = s3[i]
        /\ q[Len(s3) + 1] = Dot
        /\ \A i \in 1..Len(d4) : q[Len(s3) + 1 + i] = d4[i]
    BY <1>2, <1>7, DotAndDigits
  <2>2. Len(s3) + 1 = c
    BY <1>7
  <2> HIDE DEF c, q
  <2> QED BY <2>1, <2>2
<1>9. Line(v) = Append(q, White)
  <2> HIDE DEF q
  <2>1. Append(q, White) = q \o <<White>>
    BY <1>8, AppendIsConcat DEF Character
  <2> QED BY <1>3, <2>1
<1> HIDE DEF q
<1>10. \A i \in 1..Len(s2) : q[i] = s2[i]
  <2>1. \A i \in 1..Len(s2) : i \in 1..Len(s3)
    BY <1>5, <1>6, <1>7
  <2> QED BY <1>7, <1>8, <2>1
<1>11. \A i \in 1..Len(d1) : q[i] = d1[i]
  <2>1. \A i \in 1..Len(d1) : i \in 1..Len(s2)
    BY <1>5, <1>6
  <2> QED BY <1>6, <1>10, <2>1
<1>12. q[a] = Dot /\ \A i \in 1..Len(d2) : q[a + i] = d2[i]
  <2>1. a \in 1..Len(s2) /\ \A i \in 1..Len(d2) : a + i \in 1..Len(s2)
    BY <1>5, <1>6
  <2> HIDE DEF a
  <2> QED BY <1>6, <1>10, <2>1
<1>13. q[b] = Dot /\ \A i \in 1..Len(d3) : q[b + i] = d3[i]
  <2>1. b \in 1..Len(s3) /\ \A i \in 1..Len(d3) : b + i \in 1..Len(s3)
    BY <1>5, <1>7
  <2> HIDE DEF b
  <2> QED BY <1>7, <1>8, <2>1
<1>14. a = Len(d1) + 1 /\ b = a + Len(d2) + 1 /\ c = b + Len(d3) + 1
  OBVIOUS
<1> HIDE DEF a, b, c
<1>15. Laid(v, q, a, b, c)
  BY <1>8, <1>11, <1>12, <1>13, <1>14, Zenon DEF Laid, d1, d2, d3, d4
<1> QED BY <1>5, <1>8, <1>9, <1>15

\* A text of digits and dots has no end before its end, and nothing to trim.
PlainText == {p \in Seq(Character) : \A i \in 1..Len(p) : p[i] \in Digit \/ p[i] = Dot}

\* A text of components is not shortened: it holds no NUL and no white space.
LEMMA PlainIsKept ==
    ASSUME NEW p \in PlainText
    PROVE  /\ ContentOf(p) = p /\ Trimmed(p) = p
           /\ Trimmed(Append(p, White)) = p
<1> DEFINE n == Len(p)
           t == Append(p, White)
<1>1. /\ p \in Seq(Character) /\ n \in Nat /\ DOMAIN p = 1..n
      /\ \A i \in 1..n : p[i] # Nul /\ p[i] # White
  BY DEF PlainText, Digit, Dot, Nul, White
<1>2. SubSeq(p, 1, n) = p
  BY <1>1
<1>3. /\ DOMAIN t = 1..(n + 1) /\ t[n + 1] = White
      /\ \A i \in 1..n : t[i] = p[i]
      /\ SubSeq(t, 1, n) = p
  <2>1. White \in Character
    BY DEF Character
  <2>2. /\ t \in Seq(Character) /\ Len(t) = n + 1 /\ t[n + 1] = White
        /\ \A i \in 1..n : t[i] = p[i]
    BY <1>1, <2>1, AppendProperties
  <2> HIDE DEF t, n
  <2> DEFINE s == SubSeq(t, 1, n)
  <2>3. /\ s \in Seq(Character) /\ Len(s) = n /\ \A i \in 1..n : s[i] = t[i]
    BY <1>1, <2>2
  <2> HIDE DEF s
  <2>4. s = p
    BY <1>1, <2>2, <2>3, SeqEqual DEF n
  <2> QED BY <1>1, <2>2, <2>4 DEF s
<1> HIDE DEF n, t
<1>4. ContentOf(p) = p
  <2> DEFINE ends == {i \in DOMAIN p : p[i] = Nul} \cup {Len(p) + 1}
  <2>1. ends = {n + 1}
    BY <1>1 DEF n
  <2>2. ContentOf(p) = SubSeq(p, 1, Min(ends) - 1)
    BY DEF ContentOf
  <2> HIDE DEF ends
  <2>3. Min(ends) \in ends
    <3>1. \E x \in ends : \A y \in ends : x <= y
      BY <1>1, <2>1
    <3> QED BY <3>1 DEF Min
  <2>4. Min(ends) - 1 = n
    BY <1>1, <2>1, <2>3
  <2> QED BY <1>2, <2>2, <2>4
<1>5. ASSUME NEW kept, kept = (1..n) \cup {0}
      PROVE  Max(kept) = n
  <2>1. n \in kept /\ \A y \in kept : n >= y
    BY <1>1, <1>5
  <2>2. Max(kept) \in kept /\ \A y \in kept : Max(kept) >= y
    BY <2>1 DEF Max
  <2> DEFINE m == Max(kept)
  <2>3. m \in kept /\ m >= n /\ n >= m
    BY <2>1, <2>2
  <2> HIDE DEF m
  <2>4. m \in Nat
    BY <1>1, <1>5, <2>3
  <2>5. m = n
    BY <1>1, <2>3, <2>4
  <2> QED BY <2>5 DEF m
<1>6. Trimmed(p) = p
  <2> DEFINE kept == {i \in DOMAIN p : p[i] # White} \cup {0}
  <2>1. Trimmed(p) = SubSeq(p, 1, Max(kept))
    BY DEF Trimmed
  <2>2. kept = (1..n) \cup {0}
    BY <1>1
  <2> HIDE DEF kept
  <2>3. Max(kept) = n
    BY <1>5, <2>2
  <2> QED BY <1>2, <2>1, <2>3
<1>7. Trimmed(t) = p
  <2> DEFINE kept == {i \in DOMAIN t : t[i] # White} \cup {0}
  <2>1. Trimmed(t) = SubSeq(t, 1, Max(kept))
    BY DEF Trimmed
  <2>2. kept = (1..n) \cup {0}
    <3>1. \A i \in 1..(n + 1) : i = n + 1 \/ i \in 1..n
      BY <1>1
    <3>2. \A i \in 1..n : i \in 1..(n + 1)
      BY <1>1
    <3> QED BY <1>1, <1>3, <3>1, <3>2
  <2> HIDE DEF kept
  <2>3. Max(kept) = n
    BY <1>5, <2>2
  <2> QED BY <1>3, <2>1, <2>3
<1> QED BY <1>4, <1>6, <1>7 DEF t

\* The first k characters.
LEMMA FirstOfPlain ==
    ASSUME NEW q \in PlainText, NEW k \in 0..Len(q)
    PROVE  /\ SubSeq(q, 1, k) \in PlainText /\ Len(SubSeq(q, 1, k)) = k
           /\ \A i \in 1..k : SubSeq(q, 1, k)[i] = q[i]
           /\ SubSeq(Append(q, White), 1, k) = SubSeq(q, 1, k)
<1> DEFINE p == SubSeq(q, 1, k)
           t == Append(q, White)
           r == SubSeq(t, 1, k)
           n == Len(q)
<1>1. /\ q \in Seq(Character) /\ n \in Nat
      /\ \A i \in 1..n : q[i] \in Digit \/ q[i] = Dot
      /\ \A i \in 1..k : i \in 1..n
  BY DEF PlainText
<1>2. /\ p \in Seq(Character) /\ Len(p) = k /\ \A i \in 1..k : p[i] = q[i]
  BY <1>1
<1>3. White \in Character
  BY DEF Character
<1>4. /\ t \in Seq(Character) /\ Len(t) = n + 1 /\ \A i \in 1..n : t[i] = q[i]
  BY <1>1, <1>3, AppendProperties
<1> HIDE DEF t, p
<1>5. /\ r \in Seq(Character) /\ Len(r) = k /\ \A i \in 1..k : r[i] = t[i]
  <2>1. k \in Nat /\ k <= Len(t)
    BY <1>1, <1>4
  <2> QED BY <1>4, <2>1
<1> HIDE DEF r
<1>6. r = p
  BY <1>1, <1>2, <1>4, <1>5, SeqEqual
<1>7. p \in PlainText
  BY <1>1, <1>2 DEF PlainText
<1> QED BY <1>2, <1>6, <1>7 DEF r, t, p

\* What is trimmed of the first n characters of a line is its end.
LEMMA FirstOfLine ==
    ASSUME NEW q \in PlainText, NEW n \in 0..(Len(q) + 1)
    PROVE  Trimmed(SubSeq(Append(q, White), 1, n))
             = SubSeq(q, 1, IF n <= Len(q) THEN n ELSE Len(q))
<1> DEFINE t == Append(q, White)
<1>1. q \in Seq(Character) /\ Len(q) \in Nat
  BY DEF PlainText
<1>2. CASE n <= Len(q)
  <2>1. n \in 0..Len(q)
    BY <1>1, <1>2
  <2>2. SubSeq(t, 1, n) = SubSeq(q, 1, n) /\ SubSeq(q, 1, n) \in PlainText
    BY <2>1, FirstOfPlain
  <2>3. Trimmed(SubSeq(q, 1, n)) = SubSeq(q, 1, n)
    BY <2>2, PlainIsKept
  <2> QED BY <1>2, <2>2, <2>3
<1>3. CASE ~(n <= Len(q))
  <2>1. n = Len(q) + 1
    BY <1>1, <1>3
  <2>2. t \in Seq(Character) /\ Len(t) = n
    BY <1>1, <2>1, AppendProperties DEF Character
  <2>3. Trimmed(t) = q
    BY PlainIsKept
  <2> HIDE DEF t
  <2>4. SubSeq(t, 1, n) = t
    BY <2>2
  <2>5. SubSeq(q, 1, Len(q)) = q
    BY <1>1
  <2> QED BY <1>3, <2>3, <2>4, <2>5 DEF t
<1> QED BY <1>2, <1>3

\* A text of components has dots between them and nowhere else.
LEMMA LaidIs ==
    ASSUME NEW v \in Version, NEW q \in Seq(Character),
           NEW a \in Nat, NEW b \in Nat, NEW c \in Nat, Laid(v, q, a, b, c)
    PROVE  /\ q \in PlainText
           /\ 1 < a /\ a + 1 < b /\ b + 1 < c /\ c < Len(q)
           /\ \A i \in 1..Len(q) : q[i] = Dot <=> i \in {a, b, c}
<1> DEFINE d(k) == Decimal[v[k]]
           l(k) == Len(d(k))
<1>1. ASSUME NEW k \in 1..4
      PROVE  d(k) \in Seq(Digit) /\ l(k) \in Nat /\ l(k) >= 1
  <2>1. v[k] \in Nat
    BY MaxPartAssumption DEF Version, Part
  <2> QED BY <2>1, DecimalIs
<1>2. 1 \in 1..4 /\ 2 \in 1..4 /\ 3 \in 1..4 /\ 4 \in 1..4
  OBVIOUS
<1>3. /\ a = l(1) + 1 /\ b = a + l(2) + 1 /\ c = b + l(3) + 1 /\ Len(q) = c + l(4)
      /\ q[a] = Dot /\ q[b] = Dot /\ q[c] = Dot
      /\ \A i \in 1..l(1) : q[i] = d(1)[i]
      /\ \A i \in 1..l(2) : q[a + i] = d(2)[i]
      /\ \A i \in 1..l(3) : q[b + i] = d(3)[i]
      /\ \A i \in 1..l(4) : q[c + i] = d(4)[i]
  BY Zenon DEF Laid
<1>4. \A k \in 1..4 : \A i \in 1..l(k) : d(k)[i] \in Digit
  <2> TAKE k \in 1..4
  <2> DEFINE s == d(k)
  <2>1. s \in Seq(Digit)
    BY <1>1
  <2> HIDE DEF s
  <2>2. \A i \in 1..Len(s) : s[i] \in Digit
    BY <2>1
  <2> QED BY <2>2 DEF s
<1> HIDE DEF d
<1>5. \A i \in 1..l(1) : q[i] \in Digit
  BY <1>2, <1>3, <1>4
<1>6. \A i \in 1..l(2) : q[a + i] \in Digit
  BY <1>2, <1>3, <1>4
<1>7. \A i \in 1..l(3) : q[b + i] \in Digit
  BY <1>2, <1>3, <1>4
<1>8. \A i \in 1..l(4) : q[c + i] \in Digit
  BY <1>2, <1>3, <1>4
<1>9. /\ l(1) \in Nat /\ l(2) \in Nat /\ l(3) \in Nat /\ l(4) \in Nat
      /\ l(1) >= 1 /\ l(2) >= 1 /\ l(3) >= 1 /\ l(4) >= 1
  BY <1>1, <1>2
<1> DEFINE n == Len(q)
           l1 == l(1)
           l2 == l(2)
           l3 == l(3)
           l4 == l(4)
<1>20. /\ n \in Nat
       /\ a = l1 + 1 /\ b = a + l2 + 1 /\ c = b + l3 + 1 /\ n = c + l4
       /\ l1 \in Nat /\ l2 \in Nat /\ l3 \in Nat /\ l4 \in Nat
       /\ l1 >= 1 /\ l2 >= 1 /\ l3 >= 1 /\ l4 >= 1
  BY <1>3, <1>9
<1> HIDE DEF l, n, l1, l2, l3, l4
<1>10. 1 < a /\ a + 1 < b /\ b + 1 < c /\ c < Len(q)
  <2>1. 1 < a /\ a + 1 < b /\ b + 1 < c /\ c < n
    BY <1>20
  <2> QED BY <2>1 DEF n
<1>11. ASSUME NEW i \in 1..Len(q), i \notin {a, b, c}
       PROVE  q[i] \in Digit
  <2>1. \/ i \in 1..l(1)
        \/ i - a \in 1..l(2)
        \/ i - b \in 1..l(3)
        \/ i - c \in 1..l(4)
    <3>1. i \in 1..n /\ i # a /\ i # b /\ i # c
      BY <1>11 DEF n
    <3>2. i \in 1..l1 \/ i - a \in 1..l2 \/ i - b \in 1..l3 \/ i - c \in 1..l4
      BY <1>20, <3>1
    <3> QED BY <3>2 DEF l1, l2, l3, l4
  <2>2. a + (i - a) = i /\ b + (i - b) = i /\ c + (i - c) = i
    OBVIOUS
  <2> QED BY <1>5, <1>6, <1>7, <1>8, <2>1, <2>2
<1>12. \A x \in Digit : x # Dot
  BY DEF Digit, Dot
<1>13. \A i \in 1..Len(q) : q[i] = Dot <=> i \in {a, b, c}
  BY <1>3, <1>11, <1>12
<1>14. q \in PlainText
  BY <1>11, <1>13 DEF PlainText
<1> QED BY <1>10, <1>13, <1>14

\* Where a text has the first digits of a number.
LEMMA PartOf ==
    ASSUME NEW p \in Seq(Character), NEW s \in Seq(Digit), NEW from \in Nat,
           NEW n \in 0..Len(s), from + n <= Len(p),
           \A i \in 1..n : p[from + i] = s[i]
    PROVE  SubSeq(p, from + 1, from + n) = SubSeq(s, 1, n)
<1> DEFINE x == SubSeq(p, from + 1, from + n)
           y == SubSeq(s, 1, n)
<1>1. /\ n \in Nat /\ Len(p) \in Nat /\ Len(s) \in Nat
      /\ from + 1 \in Int /\ from + n \in Int
      /\ \A i \in (from + 1)..(from + n) : i \in 1..Len(p)
  OBVIOUS
<1>2. \A i \in (from + 1)..(from + n) : p[i] \in Character
  BY <1>1
<1>3. (from + n) - (from + 1) + 1 = n /\ (~(from + 1 <= from + n) => n = 0)
  BY <1>1
<1>4. /\ x \in Seq(Character)
      /\ Len(x) = IF from + 1 <= from + n THEN (from + n) - (from + 1) + 1 ELSE 0
      /\ \A i \in 1..((from + n) - (from + 1) + 1) : x[i] = p[(from + 1) + i - 1]
  <2> DEFINE first == from + 1
             last == from + n
  <2>1. /\ first \in Int /\ last \in Int
        /\ \A i \in first..last : p[i] \in Character /\ i \in 1..Len(p)
    BY <1>1, <1>2
  <2> HIDE DEF first, last
  <2>2. /\ SubSeq(p, first, last) \in Seq(Character)
        /\ Len(SubSeq(p, first, last))
             = IF first <= last THEN last - first + 1 ELSE 0
        /\ \A i \in 1..(last - first + 1) :
             SubSeq(p, first, last)[i] = p[first + i - 1]
    BY <2>1, SubSeqProperties
  <2> QED BY <2>2 DEF first, last
<1>5. Len(x) = n /\ \A i \in 1..n : x[i] = p[from + i]
  <2>1. \A i \in 1..n : (from + 1) + i - 1 = from + i
    BY <1>1
  <2> HIDE DEF x
  <2> QED BY <1>3, <1>4, <2>1
<1>6. /\ y \in Seq(Digit) /\ Len(y) = n /\ \A i \in 1..n : y[i] = s[i]
  BY <1>1
<1>7. y \in Seq(Character)
  <2>1. Digit \subseteq Character
    BY DEF Character
  <2> HIDE DEF y
  <2> QED BY <1>6, <2>1, SeqMonotonic
<1> HIDE DEF x, y
<1>8. x = y
  BY <1>1, <1>4, <1>5, <1>6, <1>7, SeqEqual
<1> QED BY <1>8 DEF x, y

\* The first digits of a component are a numeral.
LEMMA HeadIsNumeral ==
    ASSUME NEW n \in Nat, n <= MaxPart, NEW j \in 1..Len(Decimal[n])
    PROVE  /\ IsNumeral(SubSeq(Decimal[n], 1, j))
           /\ NumberOf(SubSeq(Decimal[n], 1, j), 10) \in Heads(n, Tens)
<1> DEFINE s == Decimal[n]
           p == SubSeq(s, 1, j)
<1>1. s \in Seq(Digit) /\ Len(s) \in Nat /\ j \in 1..Len(s)
  BY DecimalIs
<1>2. NumberOf(p, 10) \in HeadNumbers(n)
  BY DEF HeadNumbers
<1>3. NumberOf(p, 10) \in Heads(n, Tens)
  BY <1>2, HeadsAre
<1>4. ASSUME NEW x \in Heads(n, Tens)
      PROVE  x <= MaxPart
  <2>1. \A t \in Tens : n \div t \in Nat /\ n \div t <= n
    BY DEF Tens
  <2>2. x = n \/ \E t \in Tens : x = n \div t
    BY DEF Heads
  <2> QED BY <2>1, <2>2, MaxPartAssumption
<1> HIDE DEF s
<1>5. p \in Seq(Digit) /\ Len(p) = j
  BY <1>1
<1> HIDE DEF p
<1>6. p # <<>> /\ Range(p) \subseteq Digit
  <2>1. j # 0
    OBVIOUS
  <2>2. p # <<>>
    BY <1>5, <2>1, EmptySeq
  <2>3. Range(p) \subseteq Digit
    BY <1>5 DEF Range
  <2> QED BY <2>2, <2>3
<1>7. IsNumeral(p)
  BY <1>3, <1>4, <1>6 DEF IsNumeral
<1> QED BY <1>3, <1>7 DEF p, s

-----------------------------------------------------------------------------
(* A version file that was cut short.                                      *)

\* The only places where the dots of a version can be.
LEMMA DotsOfPrefix ==
    ASSUME NEW q \in PlainText, NEW a \in Nat, NEW b \in Nat, NEW c \in Nat,
           1 < a, a + 1 < b, b + 1 < c, c < Len(q),
           \A i \in 1..Len(q) : q[i] = Dot <=> i \in {a, b, c},
           NEW k \in 0..Len(q), NEW d \in VersionDots(SubSeq(q, 1, k))
    PROVE  d = <<a, b, c>> /\ c < k
<1> DEFINE p == SubSeq(q, 1, k)
           dots == {i \in DOMAIN p : p[i] = Dot}
<1>1. p \in PlainText /\ Len(p) = k /\ \A i \in 1..k : p[i] = q[i]
  BY FirstOfPlain
<1>2. p \in Seq(Character) /\ DOMAIN p = 1..k
  <2> HIDE DEF p
  <2>1. p \in Seq(Character)
    BY <1>1 DEF PlainText
  <2> QED BY <1>1, <2>1
<1>3. Len(q) \in Nat
  BY DEF PlainText
<1>4. /\ d \in dots \X dots \X dots /\ d[1] < d[2] /\ d[2] < d[3]
      /\ \A i \in 1..4 : IsNumeral(Components(p, d)[i])
  BY DEF VersionDots
<1>5. dots \subseteq {a, b, c} /\ dots \subseteq 1..k
  <2>1. \A i \in 1..k : i \in 1..Len(q)
    BY <1>3
  <2> QED BY <1>1, <1>2, <2>1
<1> HIDE DEF p, dots
<1>6. d[1] \in dots /\ d[2] \in dots /\ d[3] \in dots /\ d = <<d[1], d[2], d[3]>>
  BY <1>4
<1>7. d[1] = a /\ d[2] = b /\ d[3] = c
  <2>1. /\ d[1] = a \/ d[1] = b \/ d[1] = c
        /\ d[2] = a \/ d[2] = b \/ d[2] = c
        /\ d[3] = a \/ d[3] = b \/ d[3] = c
    BY <1>5, <1>6
  <2> QED BY <1>4, <2>1
<1>8. d = <<a, b, c>>
  BY <1>6, <1>7
<1>9. c \in 1..k
  BY <1>5, <1>6, <1>7
<1>10. c # k
  <2> SUFFICES ASSUME c = k
               PROVE  FALSE
    OBVIOUS
  <2>1. Components(p, d)[4] = SubSeq(p, c + 1, k)
    <3>1. Components(p, d)[4] = SubSeq(p, d[3] + 1, Len(p))
      BY Zenon DEF Components
    <3> QED BY <1>1, <1>7, <3>1
  <2>2. SubSeq(p, c + 1, k) = <<>>
    <3>1. /\ c + 1 \in Int /\ k \in Int /\ ~(c + 1 <= k)
          /\ \A i \in (c + 1)..k : p[i] \in Character
      OBVIOUS
    <3>2. SubSeq(p, c + 1, k) \in Seq(Character) /\ Len(SubSeq(p, c + 1, k)) = 0
      BY <3>1, SubSeqProperties
    <3> QED BY <3>2, EmptySeq
  <2>3. 4 \in 1..4
    OBVIOUS
  <2>4. IsNumeral(Components(p, d)[4])
    BY <1>4, <2>3
  <2> QED BY <2>1, <2>2, <2>4 DEF IsNumeral
<1> QED BY <1>8, <1>9, <1>10

\* A text that has something behind its third dot has all four components.
LEMMA PrefixComponents ==
    ASSUME NEW v \in Version, NEW q \in Seq(Character),
           NEW a \in Nat, NEW b \in Nat, NEW c \in Nat, Laid(v, q, a, b, c),
           NEW k \in (c + 1)..Len(q)
    PROVE  LET p == SubSeq(q, 1, k)
           IN  /\ SubSeq(p, 1, a - 1) = Decimal[v[1]]
               /\ SubSeq(p, a + 1, b - 1) = Decimal[v[2]]
               /\ SubSeq(p, b + 1, c - 1) = Decimal[v[3]]
               /\ SubSeq(p, c + 1, k) = SubSeq(Decimal[v[4]], 1, k - c)
               /\ k - c \in 1..Len(Decimal[v[4]])
<1> DEFINE p == SubSeq(q, 1, k)
           d1 == Decimal[v[1]]
           d2 == Decimal[v[2]]
           d3 == Decimal[v[3]]
           d4 == Decimal[v[4]]
<1>1. v[1] \in Nat /\ v[2] \in Nat /\ v[3] \in Nat /\ v[4] \in Nat
  BY MaxPartAssumption DEF Version, Part
<1>2. d1 \in Seq(Digit) /\ d2 \in Seq(Digit) /\ d3 \in Seq(Digit) /\ d4 \in Seq(Digit)
  BY <1>1, DecimalSteps
<1>3. /\ a = Len(d1) + 1 /\ b = a + Len(d2) + 1
      /\ c = b + Len(d3) + 1 /\ Len(q) = c + Len(d4)
      /\ \A i \in 1..Len(d1) : q[i] = d1[i]
      /\ \A i \in 1..Len(d2) : q[a + i] = d2[i]
      /\ \A i \in 1..Len(d3) : q[b + i] = d3[i]
      /\ \A i \in 1..Len(d4) : q[c + i] = d4[i]
  BY Zenon DEF Laid
<1>4. q \in PlainText /\ k \in 0..Len(q)
  <2>1. q \in PlainText
    BY LaidIs
  <2>2. Len(q) \in Nat
    OBVIOUS
  <2> QED BY <2>1, <2>2
<1>5. p \in Seq(Character) /\ Len(p) = k /\ \A i \in 1..k : p[i] = q[i]
  <2>1. p \in PlainText /\ Len(p) = k /\ \A i \in 1..k : p[i] = q[i]
    BY <1>4, FirstOfPlain
  <2> HIDE DEF p
  <2> QED BY <2>1 DEF PlainText
<1> HIDE DEF p, d1, d2, d3, d4
<1>6. /\ Len(d1) \in Nat /\ Len(d2) \in Nat /\ Len(d3) \in Nat /\ Len(d4) \in Nat
      /\ k \in Nat /\ c < k /\ k <= Len(q)
  BY <1>2, <1>4
<1>7. SubSeq(p, 1, a - 1) = d1
  <2> DEFINE n == Len(d1)
  <2>1. n \in 0..Len(d1) /\ 0 \in Nat /\ 0 + n <= Len(p) /\ \A i \in 1..n : 0 + i \in 1..k
    BY <1>3, <1>5, <1>6
  <2>2. \A i \in 1..n : p[0 + i] = d1[i]
    <3>1. \A i \in 1..n : 0 + i = i
      OBVIOUS
    <3> QED BY <1>3, <1>5, <2>1, <3>1
  <2>3. SubSeq(p, 0 + 1, 0 + n) = SubSeq(d1, 1, n)
    BY <1>2, <1>5, <2>1, <2>2, PartOf
  <2>4. 0 + 1 = 1 /\ 0 + n = a - 1
    BY <1>3, <1>6
  <2>5. SubSeq(d1, 1, n) = d1
    BY <1>2
  <2> HIDE DEF n
  <2> QED BY <2>3, <2>4, <2>5
<1>8. SubSeq(p, a + 1, b - 1) = d2
  <2> DEFINE n == Len(d2)
  <2>1. n \in 0..Len(d2) /\ a + n <= Len(p) /\ \A i \in 1..n : a + i \in 1..k
    BY <1>3, <1>5, <1>6
  <2>2. \A i \in 1..n : p[a + i] = d2[i]
    BY <1>3, <1>5, <2>1
  <2>3. SubSeq(p, a + 1, a + n) = SubSeq(d2, 1, n)
    BY <1>2, <1>5, <2>1, <2>2, PartOf
  <2>4. a + n = b - 1
    BY <1>3, <1>6
  <2>5. SubSeq(d2, 1, n) = d2
    BY <1>2
  <2> HIDE DEF n
  <2> QED BY <2>3, <2>4, <2>5
<1>9. SubSeq(p, b + 1, c - 1) = d3
  <2> DEFINE n == Len(d3)
  <2>1. n \in 0..Len(d3) /\ b + n <= Len(p) /\ \A i \in 1..n : b + i \in 1..k
    BY <1>3, <1>5, <1>6
  <2>2. \A i \in 1..n : p[b + i] = d3[i]
    BY <1>3, <1>5, <2>1
  <2>3. SubSeq(p, b + 1, b + n) = SubSeq(d3, 1, n)
    BY <1>2, <1>5, <2>1, <2>2, PartOf
  <2>4. b + n = c - 1
    BY <1>3, <1>6
  <2>5. SubSeq(d3, 1, n) = d3
    BY <1>2
  <2> HIDE DEF n
  <2> QED BY <2>3, <2>4, <2>5
<1>10. k - c \in 1..Len(d4)
  BY <1>3, <1>6
<1>11. SubSeq(p, c + 1, k) = SubSeq(d4, 1, k - c)
  <2> DEFINE n == k - c
  <2>1. n \in 0..Len(d4) /\ c + n <= Len(p) /\ c + n = k
        /\ \A i \in 1..n : c + i \in 1..k /\ i \in 1..Len(d4)
    BY <1>5, <1>6, <1>10
  <2>2. \A i \in 1..n : p[c + i] = d4[i]
    <3> HIDE DEF n
    <3> QED BY <1>3, <1>5, <2>1
  <2> HIDE DEF n
  <2>3. SubSeq(p, c + 1, c + n) = SubSeq(d4, 1, n)
    BY <1>2, <1>5, <2>1, <2>2, PartOf
  <2> QED BY <2>1, <2>3 DEF n
<1> QED BY <1>7, <1>8, <1>9, <1>10, <1>11 DEF p, d1, d2, d3, d4

\* What the first k characters of a text say of a version.
LEMMA LongPrefix ==
    ASSUME NEW v \in Version, NEW q \in Seq(Character),
           NEW a \in Nat, NEW b \in Nat, NEW c \in Nat, Laid(v, q, a, b, c),
           NEW k \in (c + 1)..Len(q)
    PROVE  VersionsIn(SubSeq(q, 1, k))
             = {[v EXCEPT ![4] = NumberOf(SubSeq(Decimal[v[4]], 1, k - c), 10)]}
<1> DEFINE p == SubSeq(q, 1, k)
           d == <<a, b, c>>
           last == SubSeq(Decimal[v[4]], 1, k - c)
           part == Components(p, d)
           Meant(e) == [i \in 1..4 |-> NumberOf(Components(p, e)[i], 10)]
<1>1. /\ \A i \in 1..4 : v[i] \in Nat /\ v[i] <= MaxPart
      /\ v = [i \in 1..4 |-> v[i]]
  BY MaxPartAssumption DEF Version, Part
<1>2. /\ q \in PlainText
      /\ 1 < a /\ a + 1 < b /\ b + 1 < c /\ c < Len(q)
      /\ \A i \in 1..Len(q) : q[i] = Dot <=> i \in {a, b, c}
  BY LaidIs
<1>3. Len(q) \in Nat /\ k \in 0..Len(q) /\ c < k /\ k <= Len(q)
  OBVIOUS
<1>4. p \in PlainText /\ Len(p) = k /\ \A i \in 1..k : p[i] = q[i]
  BY <1>2, <1>3, FirstOfPlain
<1>5. /\ SubSeq(p, 1, a - 1) = Decimal[v[1]]
      /\ SubSeq(p, a + 1, b - 1) = Decimal[v[2]]
      /\ SubSeq(p, b + 1, c - 1) = Decimal[v[3]]
      /\ SubSeq(p, c + 1, k) = last
      /\ k - c \in 1..Len(Decimal[v[4]])
  BY PrefixComponents
<1> HIDE DEF p
<1>6. /\ part[1] = Decimal[v[1]] /\ part[2] = Decimal[v[2]]
      /\ part[3] = Decimal[v[3]] /\ part[4] = last
  <2>1. d[1] = a /\ d[2] = b /\ d[3] = c
    OBVIOUS
  <2> HIDE DEF d
  <2>2. /\ part[1] = SubSeq(p, 1, d[1] - 1)
        /\ part[2] = SubSeq(p, d[1] + 1, d[2] - 1)
        /\ part[3] = SubSeq(p, d[2] + 1, d[3] - 1)
        /\ part[4] = SubSeq(p, d[3] + 1, Len(p))
    BY Zenon DEF Components
  <2> HIDE DEF part, last
  <2> QED BY <1>4, <1>5, <2>1, <2>2
<1>7. ASSUME NEW i \in 1..3
      PROVE  IsNumeral(Decimal[v[i]]) /\ NumberOf(Decimal[v[i]], 10) = v[i]
  <2> DEFINE n == v[i]
             s == Decimal[n]
  <2>1. n \in Nat /\ n <= MaxPart
    BY <1>1
  <2> HIDE DEF n
  <2>2. s \in Seq(Digit) /\ Len(s) \in Nat /\ Len(s) >= 1 /\ NumberOf(s, 10) = n
    BY <2>1, DecimalIs
  <2>3. \A j \in 1..Len(s) : IsNumeral(SubSeq(s, 1, j))
    BY <2>1, HeadIsNumeral
  <2> HIDE DEF s
  <2>4. Len(s) \in 1..Len(s) /\ SubSeq(s, 1, Len(s)) = s
    BY <2>2
  <2>5. IsNumeral(s)
    BY <2>3, <2>4
  <2> QED BY <2>2, <2>5 DEF s, n
<1>8. IsNumeral(last)
  <2>1. v[4] \in Nat /\ v[4] <= MaxPart
    BY <1>1
  <2> QED BY <1>5, <2>1, HeadIsNumeral
<1> HIDE DEF part, last
<1>9. \A i \in 1..4 : IsNumeral(part[i])
  <2>1. \A i \in 1..4 : i = 4 \/ i \in 1..3
    OBVIOUS
  <2>2. IsNumeral(part[1]) /\ IsNumeral(part[2]) /\ IsNumeral(part[3]) /\ IsNumeral(part[4])
    BY <1>6, <1>7, <1>8
  <2>3. \A i \in 1..4 : i = 1 \/ i = 2 \/ i = 3 \/ i = 4
    OBVIOUS
  <2> QED BY <2>2, <2>3
<1>10. d \in VersionDots(p)
  <2> DEFINE dots == {i \in DOMAIN p : p[i] = Dot}
  <2>1. DOMAIN p = 1..k
    BY <1>4 DEF PlainText
  <2>2. /\ a \in 1..k /\ b \in 1..k /\ c \in 1..k
        /\ a \in 1..Len(q) /\ b \in 1..Len(q) /\ c \in 1..Len(q)
    BY <1>2, <1>3
  <2>3. a \in dots /\ b \in dots /\ c \in dots
    BY <1>2, <1>4, <2>1, <2>2
  <2>4. a < b /\ b < c
    BY <1>2
  <2> HIDE DEF dots
  <2>5. d \in dots \X dots \X dots /\ d[1] < d[2] /\ d[2] < d[3]
    BY <2>3, <2>4
  <2> HIDE DEF d
  <2> QED BY <1>9, <2>5 DEF VersionDots, dots, part
<1>11. \A e \in VersionDots(p) : e = d
  <2>1. \A e \in VersionDots(SubSeq(q, 1, k)) : e = <<a, b, c>> /\ c < k
    BY <1>2, <1>3, DotsOfPrefix
  <2> QED BY <2>1 DEF p
<1>12. VersionsIn(p) = {Meant(e) : e \in VersionDots(p)}
  <2>1. ContentOf(p) = p
    BY <1>4, PlainIsKept
  <2>2. VersionsIn(p) = {[i \in 1..4 |-> NumberOf(Components(ContentOf(p), e)[i], 10)] :
                            e \in VersionDots(ContentOf(p))}
    BY Zenon DEF VersionsIn
  <2> QED BY <2>1, <2>2
<1>13. Meant(d) = [v EXCEPT ![4] = NumberOf(last, 10)]
  <2> DEFINE x == NumberOf(last, 10)
             w == [v EXCEPT ![4] = x]
  <2>1. /\ NumberOf(part[1], 10) = v[1] /\ NumberOf(part[2], 10) = v[2]
        /\ NumberOf(part[3], 10) = v[3] /\ NumberOf(part[4], 10) = x
    BY <1>6, <1>7
  <2>2. Meant(d) = [i \in 1..4 |-> NumberOf(part[i], 10)]
    BY DEF part
  <2> HIDE DEF x, d, Meant
  <2>3. w = [i \in 1..4 |-> IF i = 4 THEN x ELSE v[i]]
    BY <1>1
  <2>4. \A i \in 1..4 : NumberOf(part[i], 10) = IF i = 4 THEN x ELSE v[i]
    <3>1. \A i \in 1..4 : i = 1 \/ i = 2 \/ i = 3 \/ i = 4
      OBVIOUS
    <3> QED BY <2>1, <3>1
  <2> HIDE DEF w
  <2>5. Meant(d) = w
    BY <2>2, <2>3, <2>4
  <2> QED BY <2>5 DEF w, x
<1> HIDE DEF d, Meant
<1>14. {Meant(e) : e \in VersionDots(p)} = {Meant(d)}
  BY <1>10, <1>11
<1> QED BY <1>12, <1>13, <1>14 DEF p, last

\* Without a digit of the last component it is no version.
LEMMA ShortPrefix ==
    ASSUME NEW v \in Version, NEW q \in Seq(Character),
           NEW a \in Nat, NEW b \in Nat, NEW c \in Nat, Laid(v, q, a, b, c),
           NEW k \in 0..c
    PROVE  VersionsIn(SubSeq(q, 1, k)) = {}
<1> DEFINE p == SubSeq(q, 1, k)
<1>1. /\ q \in PlainText
      /\ 1 < a /\ a + 1 < b /\ b + 1 < c /\ c < Len(q)
      /\ \A i \in 1..Len(q) : q[i] = Dot <=> i \in {a, b, c}
  BY LaidIs
<1>2. k \in 0..Len(q) /\ ~(c < k)
  <2>1. Len(q) \in Nat
    OBVIOUS
  <2> QED BY <1>1, <2>1
<1>3. p \in PlainText
  BY <1>1, <1>2, FirstOfPlain
<1>4. ContentOf(p) = p
  BY <1>3, PlainIsKept
<1>5. \A e \in VersionDots(SubSeq(q, 1, k)) : c < k
  BY <1>1, <1>2, DotsOfPrefix
<1>6. VersionDots(p) = {}
  BY <1>2, <1>5
<1> HIDE DEF p
<1>7. VersionsIn(p) = {[i \in 1..4 |-> NumberOf(Components(ContentOf(p), e)[i], 10)] :
                          e \in VersionDots(ContentOf(p))}
  BY Zenon DEF VersionsIn
<1>8. VersionsIn(p) = {}
  BY <1>4, <1>6, <1>7
<1> QED BY <1>8 DEF p

\* Every line fits the buffer.
LEMMA LineFits ==
    ASSUME NEW v \in Version, NEW q \in Seq(Character),
           NEW a \in Nat, NEW b \in Nat, NEW c \in Nat, Laid(v, q, a, b, c)
    PROVE  Len(q) + 1 <= BufferSize
<1> DEFINE l1 == Len(Decimal[v[1]])
           l2 == Len(Decimal[v[2]])
           l3 == Len(Decimal[v[3]])
           l4 == Len(Decimal[v[4]])
           most == Len(Decimal[MaxPart])
           n == Len(q)
<1>1. ASSUME NEW i \in 1..4
      PROVE  Len(Decimal[v[i]]) \in Nat /\ Len(Decimal[v[i]]) <= most
  <2>1. v[i] \in Nat /\ v[i] <= MaxPart
    BY MaxPartAssumption DEF Version, Part
  <2> QED BY <2>1, DecimalIs, DecimalLength, MaxPartAssumption
<1>2. /\ l1 \in Nat /\ l2 \in Nat /\ l3 \in Nat /\ l4 \in Nat
      /\ l1 <= most /\ l2 <= most /\ l3 <= most /\ l4 <= most
  BY <1>1
<1>3. most \in Nat
  BY DecimalIs, MaxPartAssumption
<1>4. a = l1 + 1 /\ b = a + l2 + 1 /\ c = b + l3 + 1 /\ n = c + l4
  BY Zenon DEF Laid
<1>5. BufferSize \in Nat /\ 4 * most + 4 <= BufferSize
  BY BufferAssumption
<1> HIDE DEF l1, l2, l3, l4, most, n
<1>6. n + 1 <= BufferSize
  BY <1>2, <1>3, <1>4, <1>5
<1> QED BY <1>6 DEF n

\* The text is trimmed and parsed, if it is not too long.
LEMMA ReadingIs ==
    ASSUME NEW text, NEW p \in Seq(Character), Trimmed(text) = p,
           Len(text) \in Nat, Len(text) <= BufferSize
    PROVE  /\ p = <<>> => Reading(text) = BlankFile
           /\ p # <<>> /\ VersionsIn(p) = {} => Reading(text) = MalformedFile
           /\ \A w : p # <<>> /\ VersionsIn(p) = {w} => Reading(text) = FileOf(w)
<1>1. fota_version_parse(p) = VersionsIn(p)
  BY VersionIsRead
<1>2. ~(Len(text) > BufferSize)
  BY BufferAssumption
<1> DEFINE parsed == fota_version_parse(p)
<1>3. Reading(text) = CASE Len(text) > BufferSize -> MalformedFile
                        [] Len(text) <= BufferSize /\ p = <<>> -> BlankFile
                        [] OTHER -> IF parsed = {} THEN MalformedFile
                                    ELSE FileOf(CHOOSE w \in parsed : TRUE)
  BY DEF Reading
<1> HIDE DEF parsed
<1>4. p = <<>> => Reading(text) = BlankFile
  BY <1>2, <1>3
<1>5. p # <<>> => Reading(text) = IF parsed = {} THEN MalformedFile
                                  ELSE FileOf(CHOOSE w \in parsed : TRUE)
  BY <1>2, <1>3
<1>6. \A w : parsed = {w} => (CHOOSE x \in parsed : TRUE) = w /\ parsed # {}
  OBVIOUS
<1>7. parsed = VersionsIn(p)
  BY <1>1 DEF parsed
<1> QED BY <1>4, <1>5, <1>6, <1>7

\* The version of which the last component has its first j digits only.
HeadOf(v, j) == [v EXCEPT ![4] = NumberOf(SubSeq(Decimal[v[4]], 1, j), 10)]

\* The digits of the last component that are among the first n characters of a
\* line q and its line end, when the last component starts after c.
LastDigits(q, c, n) == IF n <= Len(q) THEN n - c ELSE Len(q) - c

\* What the first n characters of the line of v read as.
ReadsAs(v, q, c, n) ==
    /\ n = 0 => Reading(SubSeq(Line(v), 1, n)) = BlankFile
    /\ n \in 1..c => Reading(SubSeq(Line(v), 1, n)) = MalformedFile
    /\ n \in (c + 1)..(Len(q) + 1) =>
         Reading(SubSeq(Line(v), 1, n)) = FileOf(HeadOf(v, LastDigits(q, c, n)))

\* A line of which n characters have been written.
LEMMA ReadingOfLine ==
    ASSUME NEW v \in Version, NEW q \in Seq(Character),
           NEW a \in Nat, NEW b \in Nat, NEW c \in Nat, Laid(v, q, a, b, c),
           Line(v) = Append(q, White), NEW n \in 0..(Len(q) + 1)
    PROVE  ReadsAs(v, q, c, n)
<1> DEFINE k == IF n <= Len(q) THEN n ELSE Len(q)
           t == Append(q, White)
           text == SubSeq(t, 1, n)
           p == SubSeq(q, 1, k)
           w == [v EXCEPT ![4] = NumberOf(SubSeq(Decimal[v[4]], 1, k - c), 10)]
<1>1. q \in PlainText /\ c < Len(q) /\ Len(q) \in Nat
  BY LaidIs
<1>2. k \in 0..Len(q)
  BY <1>1
<1>3. Trimmed(text) = p
  BY <1>1, FirstOfLine
<1>4. p \in Seq(Character) /\ Len(p) = k
  <2>1. p \in PlainText /\ Len(p) = k
    BY <1>1, <1>2, FirstOfPlain
  <2> HIDE DEF p
  <2> QED BY <2>1 DEF PlainText
<1>5. Len(text) \in Nat /\ Len(text) <= BufferSize
  <2>1. White \in Character
    BY DEF Character
  <2>2. t \in Seq(Character) /\ Len(t) = Len(q) + 1
    BY <2>1, AppendProperties
  <2> HIDE DEF t
  <2>3. Len(text) = n
    BY <2>2
  <2>4. Len(q) + 1 <= BufferSize
    BY LineFits
  <2> HIDE DEF text
  <2> QED BY <1>1, <2>3, <2>4, BufferAssumption
<1>6. p = <<>> <=> k = 0
  BY <1>4, EmptySeq
<1> HIDE DEF text, t, p
<1>7. /\ p = <<>> => Reading(text) = BlankFile
      /\ p # <<>> /\ VersionsIn(p) = {} => Reading(text) = MalformedFile
      /\ p # <<>> /\ VersionsIn(p) = {w} => Reading(text) = FileOf(w)
  <2> HIDE DEF w
  <2> QED BY <1>3, <1>4, <1>5, ReadingIs
<1>8. ASSUME n = 0
      PROVE  Reading(text) = BlankFile
  <2>1. k = 0
    BY <1>1, <1>8
  <2> QED BY <1>6, <1>7, <2>1
<1>9. ASSUME n \in 1..c
      PROVE  Reading(text) = MalformedFile
  <2>1. k \in 0..c /\ k # 0
    BY <1>1, <1>9
  <2>2. VersionsIn(p) = {}
    <3> HIDE DEF k
    <3> QED BY <2>1, ShortPrefix DEF p
  <2> QED BY <1>6, <1>7, <2>1, <2>2
<1>10. ASSUME n \in (c + 1)..(Len(q) + 1)
       PROVE  Reading(text) = FileOf(w)
  <2>1. k \in (c + 1)..Len(q) /\ k # 0
    BY <1>1, <1>10
  <2>2. VersionsIn(p) = {w}
    <3> HIDE DEF k
    <3> QED BY <2>1, LongPrefix DEF p
  <2> QED BY <1>6, <1>7, <2>1, <2>2
<1>11. SubSeq(Line(v), 1, n) = text
  BY DEF text, t
<1>12. LastDigits(q, c, n) = k - c
  BY DEF LastDigits
<1>13. w = HeadOf(v, LastDigits(q, c, n))
  <2> HIDE DEF k
  <2> QED BY <1>12 DEF HeadOf
<1> HIDE DEF k, w
<1>14. n \in (c + 1)..(Len(q) + 1) =>
         Reading(SubSeq(Line(v), 1, n)) = FileOf(HeadOf(v, LastDigits(q, c, n)))
  BY <1>10, <1>11, <1>13
<1>15. /\ n = 0 => Reading(SubSeq(Line(v), 1, n)) = BlankFile
       /\ n \in 1..c => Reading(SubSeq(Line(v), 1, n)) = MalformedFile
  BY <1>8, <1>9, <1>11
<1> QED BY <1>14, <1>15, Zenon DEF ReadsAs

\* The shorter last components are those that its first digits stand for.
LEMMA CutLastIs ==
    ASSUME NEW v \in Version
    PROVE  {FileOf(v)} \cup {FileOf(w) : w \in CutLast(v)}
             = {FileOf(HeadOf(v, j)) : j \in 1..Len(Decimal[v[4]])}
<1> DEFINE n == v[4]
           with(x) == FileOf([v EXCEPT ![4] = x])
           num(j) == NumberOf(SubSeq(Decimal[n], 1, j), 10)
           l == Len(Decimal[n])
           K == {u \in Tens : u <= n}
<1>1. n \in Nat /\ n <= MaxPart
  BY MaxPartAssumption DEF Version, Part
<1>2. {num(j) : j \in 1..l} = {n} \cup {n \div t : t \in K}
  <2>1. HeadNumbers(n) = Heads(n, Tens)
    BY <1>1, HeadsAre
  <2> HIDE DEF n
  <2> QED BY <2>1, Zenon DEF HeadNumbers, Heads
<1>3. CutLast(v) = {[v EXCEPT ![4] = n \div t] : t \in K}
  BY DEF CutLast
<1>4. with(n) = FileOf(v)
  <2>1. [v EXCEPT ![4] = v[4]] = v
    BY DEF Version, Part
  <2> QED BY <2>1
<1>5. \A j : FileOf(HeadOf(v, j)) = with(num(j))
  BY DEF HeadOf
<1> HIDE DEF K, num, l, n
<1>6. {FileOf(w) : w \in CutLast(v)} = {with(n \div t) : t \in K}
  BY <1>3, Zenon
<1> HIDE DEF with
<1>7. {with(num(j)) : j \in 1..l} = {with(n)} \cup {with(n \div t) : t \in K}
  BY <1>2
<1>8. {FileOf(v)} \cup {FileOf(w) : w \in CutLast(v)} = {with(num(j)) : j \in 1..l}
  BY <1>4, <1>6, <1>7
<1>9. {with(num(j)) : j \in 1..l} = {FileOf(HeadOf(v, j)) : j \in 1..l}
  BY <1>5
<1> QED BY <1>8, <1>9 DEF l, n

\* A line that is cut anywhere reads as one of the short writes, and each of
\* them is what some cut reads as.
LEMMA CutLineReads ==
    ASSUME NEW v \in Version
    PROVE  /\ {Reading(SubSeq(Line(v), 1, n)) : n \in 0..Len(Line(v))} = ShortWrites(v)
           /\ Reading(Line(v)) = FileOf(v)
<1>1. PICK q \in Seq(Character) :
         /\ Line(v) = Append(q, White)
         /\ \E a, b, c \in Nat : Laid(v, q, a, b, c)
  BY LineLayout
<1>2. PICK a \in Nat, b \in Nat, c \in Nat : Laid(v, q, a, b, c)
  BY <1>1
<1> DEFINE t == Line(v)
           m == Len(q)
           d == Decimal[v[4]]
           l == Len(d)
           read(n) == Reading(SubSeq(t, 1, n))
           with(j) == FileOf(HeadOf(v, j))
           upTo(n) == LastDigits(q, c, n)
<1>3. d \in Seq(Digit) /\ l \in Nat /\ l >= 1 /\ NumberOf(d, 10) = v[4]
      /\ v[4] \in Nat
  <2>1. v[4] \in Nat
    BY MaxPartAssumption DEF Version, Part
  <2> QED BY <2>1, DecimalIs
<1>4. m \in Nat /\ m = c + l /\ c \in Nat /\ 1 < c
  <2>1. m = c + l
    BY <1>2, Zenon DEF Laid
  <2>2. m \in Nat
    OBVIOUS
  <2>3. /\ 1 < a /\ a + 1 < b /\ b + 1 < c
    BY <1>2, LaidIs
  <2> HIDE DEF m, l
  <2> QED BY <2>1, <2>2, <2>3
<1>5. t \in Seq(Character) /\ Len(t) = m + 1
  BY <1>1, AppendProperties DEF Character
<1>6. ASSUME NEW n \in 0..(m + 1)
      PROVE  /\ n = 0 => read(n) = BlankFile
             /\ n \in 1..c => read(n) = MalformedFile
             /\ n \in (c + 1)..(m + 1) => read(n) = with(upTo(n))
  <2>1. ReadsAs(v, q, c, n)
    BY <1>1, <1>2, ReadingOfLine
  <2> QED BY <2>1, Zenon DEF ReadsAs
<1>7. with(l) = FileOf(v)
  <2> HIDE DEF d
  <2>1. SubSeq(d, 1, l) = d
    BY <1>3
  <2>2. [v EXCEPT ![4] = v[4]] = v
    BY DEF Version, Part
  <2> QED BY <1>3, <2>1, <2>2 DEF HeadOf, d
<1>8. {FileOf(v)} \cup {FileOf(w) : w \in CutLast(v)} = {with(j) : j \in 1..l}
  BY CutLastIs
<1>9. ASSUME NEW n \in (c + 1)..(m + 1)
      PROVE  upTo(n) = IF n <= m THEN n - c ELSE l
  BY <1>4 DEF LastDigits
<1> HIDE DEF t, m, d, l, read, with, upTo
<1>10. ShortWrites(v) = {BlankFile, MalformedFile} \cup {with(j) : j \in 1..l}
  BY <1>8 DEF ShortWrites
<1>11. ASSUME NEW n \in 0..(m + 1)
       PROVE  read(n) \in {BlankFile, MalformedFile} \cup {with(j) : j \in 1..l}
  <2>1. n = 0 \/ n \in 1..c \/ n \in (c + 1)..(m + 1)
    BY <1>4
  <2>2. n \in (c + 1)..(m + 1) => upTo(n) \in 1..l
    BY <1>3, <1>4, <1>9
  <2> QED BY <1>6, <2>1, <2>2
<1>12. BlankFile \in {read(n) : n \in 0..(m + 1)}
  <2>1. 0 \in 0..(m + 1)
    BY <1>4
  <2> QED BY <1>6, <2>1
<1>13. MalformedFile \in {read(n) : n \in 0..(m + 1)}
  <2>1. 1 \in 0..(m + 1) /\ 1 \in 1..c
    BY <1>3, <1>4
  <2> QED BY <1>6, <2>1
<1>14. ASSUME NEW j \in 1..l
       PROVE  with(j) \in {read(n) : n \in 0..(m + 1)}
  <2> DEFINE n == c + j
  <2>1. n \in 0..(m + 1) /\ n \in (c + 1)..(m + 1) /\ upTo(n) = j
    BY <1>3, <1>4, <1>9
  <2> HIDE DEF n
  <2>2. read(n) = with(j)
    BY <1>6, <2>1
  <2> QED BY <2>1, <2>2
<1>15. {read(n) : n \in 0..(m + 1)} = ShortWrites(v)
  BY <1>10, <1>11, <1>12, <1>13, <1>14
<1>16. read(m + 1) = FileOf(v)
  <2>1. m + 1 \in 0..(m + 1) /\ m + 1 \in (c + 1)..(m + 1) /\ upTo(m + 1) = l
    BY <1>3, <1>4, <1>9
  <2> QED BY <1>6, <1>7, <2>1
<1>17. SubSeq(t, 1, m + 1) = t
  BY <1>5
<1> QED BY <1>5, <1>15, <1>16, <1>17 DEF t, read

-----------------------------------------------------------------------------
(* The loops of the manifest parser.                                       *)

\* The symbols the parser tells apart are different.
LEMMA Symbols ==
    /\ {Quote, Backslash, Slash, Space, Special, ":", ",", "[", "]", "{", "}",
        "platform", "fw_version", "build_date_utc", "git_commit", "files",
        "path", "sha256", "now", "unknown", "u00e9"} \subseteq Symbol
    /\ Quote \notin {Backslash, Slash, Space, Special, ":", ",", "[", "]", "{", "}",
                     "files", "path", "sha256", "u00e9"}
    /\ Backslash \notin {Slash, Space, Special, ":", ",", "[", "]", "{", "}",
                         "files", "path", "sha256", "u00e9"}
    /\ Space \notin {Special, ":", ",", "[", "]", "{", "}", "files"}
    /\ Special \notin {"files", "path", "sha256"}
    /\ "u00e9" \notin {Slash, "files"}
<1>1. {Quote, Backslash, Slash, Space, Special, ":", ",", "[", "]", "{", "}",
       "platform", "fw_version", "build_date_utc", "git_commit", "files",
       "path", "sha256", "now", "unknown", "u00e9"} \subseteq Symbol
  BY WidthAssumption DEF Symbol
<1>2. /\ Quote \notin {Backslash, Slash, Space, Special, ":", ",", "[", "]", "{", "}",
                       "files", "path", "sha256", "u00e9"}
      /\ Backslash \notin {Slash, Space, Special, ":", ",", "[", "]", "{", "}",
                           "files", "path", "sha256", "u00e9"}
      /\ Space \notin {Special, ":", ",", "[", "]", "{", "}", "files"}
      /\ Special \notin {"files", "path", "sha256"}
      /\ "u00e9" \notin {Slash, "files"}
  BY DEF Quote, Backslash, Slash, Space, Special
<1> QED BY <1>1, <1>2

\* A symbol more makes a text wider by its width.
LEMMA CharactersSteps ==
    ASSUME NEW v \in Seq(Symbol)
    PROVE  \E f \in [0..Len(v) -> Nat] :
              /\ f[0] = 0
              /\ \A i \in 1..Len(v) : f[i] = f[i - 1] + WidthOf(v[i])
              /\ Characters(v) = f[Len(v)]
<1> DEFINE n == Len(v)
           Is(f) == f = [i \in 0..n |-> IF i = 0 THEN 0 ELSE f[i - 1] + WidthOf(v[i])]
           before == CHOOSE f : Is(f)
           D == [p \in Nat \X Nat |-> IF p[2] \in 1..n THEN p[1] + WidthOf(v[p[2]])
                                      ELSE p[1]]
<1>1. n \in Nat
  OBVIOUS
<1>2. Characters(v) = before[n]
  BY Zenon DEF Characters
<1>3. \A w : WidthOf(w) \in Nat
  BY WidthAssumption DEF WidthOf
<1> HIDE DEF n
<1>4. /\ D \in [Nat \X Nat -> Nat]
      /\ \A a \in Nat, i \in 1..n : D[<<a, i>>] = a + WidthOf(v[i])
  BY <1>1, <1>3
<1> HIDE DEF D
<1>5. PICK f \in [0..n -> Nat] : Steps(f, n, 0, D)
  BY <1>1, <1>4, StepsExist
<1>6. /\ f[0] = 0
      /\ \A i \in 1..n : f[i] = f[i - 1] + WidthOf(v[i])
  <2>1. f[0] = 0
    BY <1>5 DEF Steps
  <2>2. ASSUME NEW i \in 1..n
        PROVE  f[i] = f[i - 1] + WidthOf(v[i])
    <3>1. i - 1 \in 0..n
      BY <1>1
    <3> QED BY <1>4, <1>5, <3>1 DEF Steps
  <2> QED BY <2>1, <2>2
<1> DEFINE step(g, i) == g[i - 1] + WidthOf(v[i])
<1>7. /\ \A i \in 0..n : i # 0 => i \in 1..n
      /\ 0 \in 0..n /\ \A i \in 1..n : i \in 0..n /\ i # 0
  BY <1>1
<1>8. Is(f)
  <2>1. \A i \in 1..n : f[i] = step(f, i)
    BY <1>6
  <2> HIDE DEF step
  <2>2. f = [i \in 0..n |-> IF i = 0 THEN 0 ELSE step(f, i)]
    BY <1>5, <1>6, <1>7, <2>1
  <2> QED BY <2>2 DEF step
<1>9. Is(before)
  BY <1>8, Zenon
<1> HIDE DEF before
<1>10. /\ DOMAIN before = 0..n
       /\ before[0] = 0
       /\ \A i \in 1..n : before[i] = step(before, i)
  <2>1. before = [i \in 0..n |-> IF i = 0 THEN 0 ELSE step(before, i)]
    BY <1>9
  <2> HIDE DEF step
  <2> QED BY <1>7, <2>1
<1>11. \A k \in Nat : k <= n => before[k] = f[k]
  <2> DEFINE Same == {k \in Nat : k <= n => before[k] = f[k]}
  <2>1. 0 \in Same
    BY <1>6, <1>10
  <2>2. ASSUME NEW k \in Nat, k \in Same
        PROVE  k + 1 \in Same
    <3> SUFFICES ASSUME k + 1 <= n
                 PROVE  before[k + 1] = f[k + 1]
      OBVIOUS
    <3>1. k + 1 \in 1..n /\ (k + 1) - 1 = k /\ k <= n
      BY <1>1
    <3>2. before[k + 1] = before[k] + WidthOf(v[k + 1])
      BY <1>10, <3>1
    <3>3. f[k + 1] = f[k] + WidthOf(v[k + 1])
      BY <1>6, <3>1
    <3> QED BY <2>2, <3>1, <3>2, <3>3
  <2> HIDE DEF Same
  <2>3. Nat \subseteq Same
    BY <2>1, <2>2, Induction
  <2> QED BY <2>3 DEF Same
<1>12. before[n] = f[n]
  BY <1>1, <1>11
<1> QED BY <1>2, <1>6, <1>12 DEF n

\* What the width of a text is made of.
LEMMA CharactersOfAppend ==
    /\ Characters(<<>>) = 0
    /\ \A v \in Seq(Symbol) : Characters(v) \in Nat
    /\ \A v \in Seq(Symbol), c \in Symbol :
          Characters(Append(v, c)) = Characters(v) + WidthOf(c)
<1>1. Characters(<<>>) = 0
  <2>1. <<>> \in Seq(Symbol) /\ Len(<<>>) = 0
    OBVIOUS
  <2> QED BY <2>1, CharactersSteps
<1>2. ASSUME NEW v \in Seq(Symbol)
      PROVE  Characters(v) \in Nat
  <2>1. Len(v) \in 0..Len(v)
    OBVIOUS
  <2> QED BY <2>1, CharactersSteps
<1>3. ASSUME NEW v \in Seq(Symbol), NEW c \in Symbol
      PROVE  Characters(Append(v, c)) = Characters(v) + WidthOf(c)
  <2> DEFINE w == Append(v, c)
             n == Len(v)
  <2>1. /\ n \in Nat /\ w \in Seq(Symbol) /\ Len(w) = n + 1
        /\ w[n + 1] = c /\ \A i \in 1..n : w[i] = v[i]
    OBVIOUS
  <2>2. PICK f \in [0..n -> Nat] :
           /\ f[0] = 0
           /\ \A i \in 1..n : f[i] = f[i - 1] + WidthOf(v[i])
           /\ Characters(v) = f[n]
    BY CharactersSteps
  <2>3. \E g \in [0..Len(w) -> Nat] :
           /\ g[0] = 0
           /\ \A i \in 1..Len(w) : g[i] = g[i - 1] + WidthOf(w[i])
           /\ Characters(w) = g[Len(w)]
    <3> HIDE DEF w
    <3> QED BY <2>1, CharactersSteps
  <2> HIDE DEF w, n
  <2>4. PICK g \in [0..(n + 1) -> Nat] :
           /\ g[0] = 0
           /\ \A i \in 1..(n + 1) : g[i] = g[i - 1] + WidthOf(w[i])
           /\ Characters(w) = g[n + 1]
    BY <2>1, <2>3
  <2>5. \A k \in Nat : k <= n => g[k] = f[k]
    <3> DEFINE Same == {k \in Nat : k <= n => g[k] = f[k]}
    <3>1. 0 \in Same
      BY <2>2, <2>4
    <3>2. ASSUME NEW k \in Nat, k \in Same
          PROVE  k + 1 \in Same
      <4> SUFFICES ASSUME k + 1 <= n
                   PROVE  g[k + 1] = f[k + 1]
        OBVIOUS
      <4>1. /\ k + 1 \in 1..n /\ k + 1 \in 1..(n + 1) /\ (k + 1) - 1 = k /\ k <= n
        BY <2>1
      <4>2. g[k + 1] = g[k] + WidthOf(v[k + 1])
        BY <2>1, <2>4, <4>1
      <4>3. f[k + 1] = f[k] + WidthOf(v[k + 1])
        BY <2>2, <4>1
      <4> QED BY <3>2, <4>1, <4>2, <4>3
    <3> HIDE DEF Same
    <3>3. Nat \subseteq Same
      BY <3>1, <3>2, Induction
    <3> QED BY <3>3 DEF Same
  <2>6. g[n] = f[n] /\ n + 1 \in 1..(n + 1) /\ (n + 1) - 1 = n
    BY <2>1, <2>5
  <2>7. Characters(w) = g[n] + WidthOf(c)
    BY <2>1, <2>4, <2>6
  <2> QED BY <2>2, <2>6, <2>7 DEF w
<1> QED BY <1>1, <1>2, <1>3

\* Where the parser is after white space.
LEMMA SkipIs ==
    ASSUME NEW t \in Seq(Symbol), NEW p \in Nat, p >= 1
    PROVE  LET q == skip_json_whitespace(t, p)
           IN  /\ q \in Nat /\ q >= 1 /\ q <= Len(t) + 1
               /\ p <= Len(t) + 1 => p <= q
               /\ q <= Len(t) => p <= q /\ t[q] # Space
               /\ \A i \in p..Len(t) : i < q => t[i] = Space
<1> DEFINE n == Len(t)
           S == {i \in p..n : t[i] # Space} \cup {n + 1}
           q == skip_json_whitespace(t, p)
<1>1. n \in Nat
  OBVIOUS
<1> HIDE DEF n
<1>2. S \subseteq Nat /\ S # {}
  BY <1>1
<1>3. q = Min(S)
  BY DEF skip_json_whitespace, n
<1>4. \E i \in S : \A j \in S : i <= j
  BY <1>2, LeastNatural
<1> HIDE DEF q
<1>5. q \in S /\ \A j \in S : q <= j
  <2> HIDE DEF S
  <2> QED BY <1>3, <1>4 DEF Min
<1>6. \A i \in p..n : i < q => t[i] = Space
  BY <1>1, <1>5
<1>7. q \in Nat /\ q >= 1 /\ q <= n + 1 /\ (q <= n => p <= q /\ t[q] # Space)
      /\ (p <= n + 1 => p <= q)
  BY <1>1, <1>5
<1> QED BY <1>6, <1>7 DEF n, q

\* No white space, or one piece of it.
LEMMA SkipOne ==
    ASSUME NEW t \in Seq(Symbol), NEW p \in Nat, p >= 1
    PROVE  /\ p <= Len(t) /\ t[p] # Space => skip_json_whitespace(t, p) = p
           /\ p + 1 <= Len(t) /\ t[p] = Space /\ t[p + 1] # Space =>
                skip_json_whitespace(t, p) = p + 1
<1> DEFINE n == Len(t)
           q == skip_json_whitespace(t, p)
<1>1. /\ q \in Nat /\ q >= 1 /\ q <= n + 1
      /\ p <= n + 1 => p <= q
      /\ q <= n => p <= q /\ t[q] # Space
      /\ \A i \in p..n : i < q => t[i] = Space
  BY SkipIs
<1>2. n \in Nat
  OBVIOUS
<1> HIDE DEF n, q
<1>3. ASSUME p <= n, t[p] # Space
      PROVE  q = p
  BY <1>1, <1>2, <1>3
<1>4. ASSUME p + 1 <= n, t[p] = Space, t[p + 1] # Space
      PROVE  q = p + 1
  <2>1. ~(p + 1 < q)
    BY <1>1, <1>2, <1>4
  <2>2. q # p
    BY <1>1, <1>2, <1>4
  <2> QED BY <1>1, <1>2, <1>4, <2>1, <2>2
<1> QED BY <1>3, <1>4 DEF n, q

StringState == [value : Seq(Symbol), next : Nat \ {0},
                state : {"reading", "ok", "failed"}]

\* A symbol is taken if the buffer has room for it.
LEMMA TakenIs ==
    ASSUME NEW s \in StringState, NEW c \in Symbol, NEW cap, NEW next \in Nat \ {0}
    PROVE  LET u == Taken(s, c, cap, next)
           IN  /\ u \in StringState
               /\ IF Characters(Append(s.value, c)) < cap
                  THEN u.value = Append(s.value, c) /\ u.next = next /\ u.state = s.state
                  ELSE u.state = "failed"
<1>1. Append(s.value, c) \in Seq(Symbol)
  BY DEF StringState
<1>2. [s EXCEPT !.value = Append(@, c), !.next = next] \in StringState
  BY <1>1 DEF StringState
<1>3. Failed(s) \in StringState
  BY DEF StringState, Failed
<1> QED BY <1>2, <1>3 DEF Taken, StringState, Failed

\* What a pass of the loop of extract_json_string does.
LEMMA PassOfString ==
    ASSUME NEW t \in Seq(Symbol), NEW cap, NEW s \in StringState
    PROVE  LET u == StringPass(t, cap, s)
           IN  /\ u \in StringState
               /\ s.state # "reading" => u = s
               /\ s.state = "reading" =>
                    /\ s.next > Len(t) => u.state = "failed"
                    /\ Has(t, s.next, Quote) =>
                         u.state = "ok" /\ u.value = s.value /\ u.next = s.next + 1
                    /\ Has(t, s.next, Backslash) =>
                         IF /\ s.next + 1 <= Len(t)
                            /\ t[s.next + 1] \in {Quote, Backslash, Slash}
                         THEN u = Taken(s, t[s.next + 1], cap, s.next + 2)
                         ELSE u.state = "failed"
                    /\ s.next <= Len(t) /\ t[s.next] \notin {Quote, Backslash} =>
                         u = Taken(s, t[s.next], cap, s.next + 1)
<1> DEFINE u == StringPass(t, cap, s)
           n == Len(t)
           i == s.next
           escapes == i + 1 <= n /\ t[i + 1] \in {Quote, Backslash, Slash}
<1>1. i \in Nat /\ i >= 1 /\ n \in Nat /\ \A j \in 1..n : t[j] \in Symbol
  BY DEF StringState
<1>2. Quote # Backslash
  BY DEF Quote, Backslash
<1>3. /\ Has(t, i, Quote) <=> i <= n /\ t[i] = Quote
      /\ Has(t, i, Backslash) <=> i <= n /\ t[i] = Backslash
  BY DEF Has
<1> HIDE DEF n
<1>4. Failed(s) \in StringState /\ Failed(s).state = "failed"
  BY DEF StringState, Failed
<1>5. s.state # "reading" => u = s
  BY DEF StringPass
<1>6. s.state = "reading" /\ i > n => u = Failed(s)
  BY <1>1, <1>3 DEF StringPass, n
<1>7. s.state = "reading" /\ Has(t, i, Quote) =>
        u = [s EXCEPT !.state = "ok", !.next = @ + 1]
  BY <1>1, <1>2, <1>3 DEF StringPass, n
<1>8. s.state = "reading" /\ Has(t, i, Backslash) =>
        u = IF escapes THEN Taken(s, t[i + 1], cap, i + 2) ELSE Failed(s)
  BY <1>1, <1>2, <1>3 DEF StringPass, n
<1>9. s.state = "reading" /\ i <= n /\ t[i] \notin {Quote, Backslash} =>
        u = Taken(s, t[i], cap, i + 1)
  BY <1>1, <1>2, <1>3 DEF StringPass, n
<1>10. [s EXCEPT !.state = "ok", !.next = @ + 1] \in StringState
  <2>1. s.next + 1 \in Nat \ {0} /\ s \in StringState
    BY <1>1
  <2> HIDE DEF i
  <2> QED BY <2>1 DEF StringState
<1>11. escapes => Taken(s, t[i + 1], cap, i + 2) \in StringState
  <2> SUFFICES ASSUME escapes
               PROVE  Taken(s, t[i + 1], cap, i + 2) \in StringState
    OBVIOUS
  <2>1. t[i + 1] \in Symbol /\ i + 2 \in Nat \ {0}
    BY <1>1
  <2> QED BY <2>1, TakenIs
<1>12. i <= n => Taken(s, t[i], cap, i + 1) \in StringState
  <2> SUFFICES ASSUME i <= n
               PROVE  Taken(s, t[i], cap, i + 1) \in StringState
    OBVIOUS
  <2>1. t[i] \in Symbol /\ i + 1 \in Nat \ {0}
    BY <1>1
  <2> QED BY <2>1, TakenIs
<1> HIDE DEF u, escapes
<1>13. u \in StringState
  <2>1. \/ s.state # "reading"
        \/ s.state = "reading" /\ i > n
        \/ s.state = "reading" /\ Has(t, i, Quote)
        \/ s.state = "reading" /\ Has(t, i, Backslash)
        \/ s.state = "reading" /\ i <= n /\ t[i] \notin {Quote, Backslash}
    <3> HIDE DEF i
    <3> QED BY <1>1, <1>3
  <2> HIDE DEF i
  <2> QED BY <1>4, <1>5, <1>6, <1>7, <1>8, <1>9, <1>10, <1>11, <1>12, <2>1
<1>14. s.state = "reading" /\ Has(t, i, Quote) =>
         u.state = "ok" /\ u.value = s.value /\ u.next = i + 1
  BY <1>7 DEF StringState
<1>15. s.state = "reading" /\ Has(t, i, Backslash) =>
         IF escapes THEN u = Taken(s, t[i + 1], cap, i + 2) ELSE u.state = "failed"
  BY <1>4, <1>8
<1>16. s.state = "reading" /\ i > n => u.state = "failed"
  BY <1>4, <1>6
<1> QED BY <1>5, <1>9, <1>13, <1>14, <1>15, <1>16, Zenon DEF u, n, escapes

\* The states of the loop of extract_json_string, one after another.
StringRun(t, pos, cap, f) ==
    /\ f \in [0..(Len(t) + 1) -> StringState]
    /\ f[0] = StringStart(t, pos)
    /\ \A i \in 1..(Len(t) + 1) : f[i] = StringPass(t, cap, f[i - 1])
    /\ extract_json_string(t, pos, cap) = f[Len(t) + 1]

\* The states of the loop of extract_json_string are a run.
LEMMA StringLoop ==
    ASSUME NEW t \in Seq(Symbol), NEW pos \in Nat, NEW cap
    PROVE  \E f : StringRun(t, pos, cap, f)
<1> DEFINE n == Len(t) + 1
           first == StringStart(t, pos)
           Is(f) == f = [i \in 0..n |-> IF i = 0 THEN first
                                        ELSE StringPass(t, cap, f[i - 1])]
           after == CHOOSE f : Is(f)
           D == [p \in StringState \X Nat |-> StringPass(t, cap, p[1])]
<1>1. n \in Nat
  OBVIOUS
<1>2. extract_json_string(t, pos, cap) = after[n]
  BY Zenon DEF extract_json_string
<1> HIDE DEF n
<1>3. \A s \in StringState : StringPass(t, cap, s) \in StringState
  BY PassOfString
<1>4. D \in [StringState \X Nat -> StringState]
  BY <1>3
<1>5. \A s \in StringState, i \in Nat : D[<<s, i>>] = StringPass(t, cap, s)
  <2> TAKE s \in StringState, i \in Nat
  <2>1. <<s, i>> \in StringState \X Nat /\ <<s, i>>[1] = s
    OBVIOUS
  <2> QED BY <2>1, Zenon
<1> HIDE DEF D
<1>6. first \in StringState
  <2>1. <<>> \in Seq(Symbol) /\ pos + 1 \in Nat \ {0}
    OBVIOUS
  <2> QED BY <2>1 DEF StringStart, StringState
<1> HIDE DEF first
<1>7. PICK f \in [0..n -> StringState] : Steps(f, n, first, D)
  BY <1>1, <1>4, <1>6, StepsExist
<1> DEFINE step(g, i) == StringPass(t, cap, g[i - 1])
<1>8. /\ f[0] = first
      /\ \A i \in 1..n : f[i] = step(f, i)
  <2>1. ASSUME NEW i \in 1..n
        PROVE  f[i] = StringPass(t, cap, f[i - 1])
    <3>1. i - 1 \in 0..n /\ i \in Nat
      BY <1>1
    <3>2. f[i - 1] \in StringState
      BY <1>7, <3>1
    <3> QED BY <1>5, <1>7, <3>1, <3>2 DEF Steps
  <2> QED BY <1>7, <2>1 DEF Steps
<1>9. /\ \A i \in 0..n : i # 0 => i \in 1..n
      /\ 0 \in 0..n /\ \A i \in 1..n : i \in 0..n /\ i # 0
  BY <1>1
<1>10. Is(f)
  <2> HIDE DEF step
  <2>1. f = [i \in 0..n |-> IF i = 0 THEN first ELSE step(f, i)]
    BY <1>7, <1>8, <1>9
  <2> QED BY <2>1 DEF step
<1>11. Is(after)
  BY <1>10, Zenon
<1> HIDE DEF after
<1>12. /\ DOMAIN after = 0..n
       /\ after[0] = first
       /\ \A i \in 1..n : after[i] = step(after, i)
  <2>1. after = [i \in 0..n |-> IF i = 0 THEN first ELSE step(after, i)]
    BY <1>11
  <2> HIDE DEF step
  <2> QED BY <1>9, <2>1
<1>13. \A k \in Nat : k <= n => after[k] = f[k]
  <2> DEFINE Same == {k \in Nat : k <= n => after[k] = f[k]}
  <2>1. 0 \in Same
    BY <1>8, <1>12
  <2>2. ASSUME NEW k \in Nat, k \in Same
        PROVE  k + 1 \in Same
    <3> SUFFICES ASSUME k + 1 <= n
                 PROVE  after[k + 1] = f[k + 1]
      OBVIOUS
    <3>1. k + 1 \in 1..n /\ (k + 1) - 1 = k /\ k <= n
      BY <1>1
    <3>2. after[k + 1] = StringPass(t, cap, after[k])
      BY <1>12, <3>1
    <3>3. f[k + 1] = StringPass(t, cap, f[k])
      BY <1>8, <3>1
    <3> QED BY <2>2, <3>1, <3>2, <3>3
  <2> HIDE DEF Same
  <2>3. Nat \subseteq Same
    BY <2>1, <2>2, Induction
  <2> QED BY <2>3 DEF Same
<1>14. extract_json_string(t, pos, cap) = f[n]
  BY <1>1, <1>2, <1>13
<1> QED BY <1>7, <1>8, <1>14 DEF StringRun, n, first

\* One step of such a run.
LEMMA StringNext ==
    ASSUME NEW t \in Seq(Symbol), NEW pos, NEW cap, NEW f, StringRun(t, pos, cap, f),
           NEW k \in Nat, k <= Len(t)
    PROVE  f[k] \in StringState /\ f[k + 1] = StringPass(t, cap, f[k])
<1>1. k \in 0..(Len(t) + 1) /\ k + 1 \in 1..(Len(t) + 1) /\ (k + 1) - 1 = k
  OBVIOUS
<1>2. f[k + 1] = StringPass(t, cap, f[(k + 1) - 1])
  BY <1>1 DEF StringRun
<1> QED BY <1>1, <1>2 DEF StringRun

\* What the loop has come to does not change.
LEMMA StringSettles ==
    ASSUME NEW t \in Seq(Symbol), NEW pos, NEW cap, NEW f, StringRun(t, pos, cap, f),
           NEW k \in Nat, k <= Len(t) + 1, f[k].state # "reading"
    PROVE  extract_json_string(t, pos, cap) = f[k]
<1> DEFINE n == Len(t) + 1
           Same == {j \in Nat : k + j <= n => f[k + j] = f[k]}
<1>1. n \in Nat
  OBVIOUS
<1>2. 0 \in Same
  OBVIOUS
<1>3. ASSUME NEW j \in Nat, j \in Same
      PROVE  j + 1 \in Same
  <2> SUFFICES ASSUME k + (j + 1) <= n
               PROVE  f[k + (j + 1)] = f[k]
    OBVIOUS
  <2>1. k + j \in Nat /\ k + j <= Len(t) /\ k + j <= n /\ k + (j + 1) = (k + j) + 1
    OBVIOUS
  <2>2. f[k + j] = f[k]
    BY <1>3, <2>1
  <2>3. /\ f[k + j] \in StringState
        /\ f[(k + j) + 1] = StringPass(t, cap, f[k + j])
    BY <2>1, StringNext
  <2>4. StringPass(t, cap, f[k]) = f[k]
    BY <2>2, <2>3, PassOfString
  <2> QED BY <2>1, <2>2, <2>3, <2>4
<1> HIDE DEF Same
<1>4. Nat \subseteq Same
  BY <1>2, <1>3, Induction
<1>5. n - k \in Nat /\ k + (n - k) = n
  BY <1>1
<1>6. f[n] = f[k]
  <2>1. n - k \in Same /\ k + (n - k) <= n
    BY <1>1, <1>4, <1>5
  <2>2. f[k + (n - k)] = f[k]
    BY <2>1 DEF Same
  <2> QED BY <1>5, <2>2
<1> QED BY <1>6 DEF StringRun

-----------------------------------------------------------------------------
(* A manifest that was cut off.                                            *)

\* A text of which the first n symbols are left.
LEMMA FirstSymbols ==
    ASSUME NEW t \in Seq(Symbol), NEW n \in 0..Len(t)
    PROVE  /\ SubSeq(t, 1, n) \in Seq(Symbol) /\ Len(SubSeq(t, 1, n)) = n
           /\ \A i \in 1..n : SubSeq(t, 1, n)[i] = t[i]
  OBVIOUS

\* The first symbols of a text.
IsCutOf(u, t) ==
    /\ t \in Seq(Symbol) /\ u \in Seq(Symbol)
    /\ Len(u) <= Len(t) /\ \A i \in 1..Len(u) : u[i] = t[i]

\* What is found in a text that was cut is in the whole one at that place.
LEMMA CutHas ==
    ASSUME NEW u, NEW t, IsCutOf(u, t), NEW p \in Nat, p >= 1, NEW c, Has(u, p, c)
    PROVE  Has(t, p, c)
<1>1. p \in 1..Len(u) /\ p <= Len(t)
  BY DEF IsCutOf, Has
<1> QED BY <1>1 DEF IsCutOf, Has

\* What is skipped to in a cut text is skipped to in the whole one.
LEMMA CutSkip ==
    ASSUME NEW u, NEW t, IsCutOf(u, t), NEW p \in Nat, p >= 1,
           skip_json_whitespace(u, p) <= Len(u)
    PROVE  skip_json_whitespace(t, p) = skip_json_whitespace(u, p)
<1> DEFINE q == skip_json_whitespace(u, p)
           r == skip_json_whitespace(t, p)
           m == Len(u)
           n == Len(t)
<1>1. /\ q \in Nat /\ p <= q /\ q <= m /\ u[q] # Space
      /\ \A i \in p..m : i < q => u[i] = Space
  BY SkipIs DEF IsCutOf
<1>2. /\ r \in Nat /\ r <= n + 1 /\ r >= 1
      /\ p <= n + 1 => p <= r
      /\ r <= n => p <= r /\ t[r] # Space
      /\ \A i \in p..n : i < r => t[i] = Space
  BY SkipIs DEF IsCutOf
<1>3. m \in Nat /\ n \in Nat /\ m <= n /\ \A i \in 1..m : u[i] = t[i]
  BY DEF IsCutOf
<1> HIDE DEF q, r, m, n
<1>4. ~(q < r)
  <2>1. q \in p..n /\ t[q] # Space
    BY <1>1, <1>3
  <2> QED BY <1>2, <2>1
<1>5. ~(r < q)
  <2> SUFFICES ASSUME r < q
               PROVE  FALSE
    OBVIOUS
  <2>1. r <= n /\ r \in 1..m
    BY <1>1, <1>2, <1>3
  <2>2. p <= r /\ t[r] # Space
    BY <1>2, <2>1
  <2>3. u[r] = Space
    BY <1>1, <2>1, <2>2
  <2> QED BY <1>3, <2>1, <2>2, <2>3
<1>6. q = r
  BY <1>1, <1>2, <1>4, <1>5
<1> QED BY <1>6 DEF q, r

\* A pass that does not fail on a cut text does the same on the whole one.
LEMMA CutPassOfString ==
    ASSUME NEW u, NEW t, IsCutOf(u, t), NEW cap, NEW s \in StringState,
           StringPass(u, cap, s).state # "failed"
    PROVE  StringPass(t, cap, s) = StringPass(u, cap, s)
<1> DEFINE i == s.next
<1>1. /\ i \in Nat /\ i >= 1 /\ Len(u) \in Nat /\ Len(t) \in Nat
      /\ u \in Seq(Symbol) /\ t \in Seq(Symbol) /\ Len(u) <= Len(t)
      /\ \A j \in 1..Len(u) : u[j] = t[j]
  BY DEF StringState, IsCutOf
<1>2. CASE s.state # "reading"
  BY <1>1, <1>2, PassOfString
<1>3. CASE s.state = "reading"
  <2>1. i <= Len(u)
    BY <1>1, <1>3, PassOfString
  <2>2. i \in 1..Len(u) /\ i \in 1..Len(t) /\ t[i] = u[i]
    BY <1>1, <2>1
  <2>3. CASE u[i] = Quote
    BY <1>3, <2>2, <2>3 DEF StringPass, Has
  <2>4. CASE u[i] = Backslash
    <3>1. Has(u, i, Backslash)
      BY <2>2, <2>4 DEF Has
    <3>2. i + 1 <= Len(u)
      BY <1>1, <1>3, <3>1, PassOfString
    <3>3. i + 1 <= Len(t) /\ t[i + 1] = u[i + 1]
      BY <1>1, <3>2
    <3> HIDE DEF i
    <3> QED BY <1>1, <1>3, <2>2, <3>2, <3>3 DEF StringPass, Has, i
  <2>5. CASE u[i] \notin {Quote, Backslash}
    BY <1>3, <2>2, <2>5 DEF StringPass, Has
  <2> QED BY <2>3, <2>4, <2>5
<1> QED BY <1>2, <1>3

\* A string that is read from a cut text is read from the whole one.
LEMMA CutString ==
    ASSUME NEW u, NEW t, IsCutOf(u, t), NEW pos \in Nat, pos >= 1, NEW cap,
           extract_json_string(u, pos, cap).state = "ok"
    PROVE  extract_json_string(t, pos, cap) = extract_json_string(u, pos, cap)
<1> DEFINE m == Len(u) + 1
<1>1. /\ u \in Seq(Symbol) /\ t \in Seq(Symbol) /\ Len(u) \in Nat /\ Len(t) \in Nat
      /\ Len(u) <= Len(t) /\ m \in Nat
  BY DEF IsCutOf
<1>2. PICK f : StringRun(u, pos, cap, f)
  BY <1>1, StringLoop
<1>3. PICK g : StringRun(t, pos, cap, g)
  BY <1>1, StringLoop
<1> DEFINE Same == {k \in Nat : k <= m => f[k].state = "failed" \/ g[k] = f[k]}
<1>4. 0 \in Same
  <2>1. f[0] = StringStart(u, pos) /\ g[0] = StringStart(t, pos)
    BY <1>2, <1>3 DEF StringRun
  <2>2. CASE Has(u, pos, Quote)
    <3>1. Has(t, pos, Quote)
      BY <2>2, CutHas
    <3> QED BY <2>1, <2>2, <3>1 DEF StringStart
  <2>3. CASE ~Has(u, pos, Quote)
    <3>1. f[0].state = "failed"
      BY <2>1, <2>3 DEF StringStart
    <3> QED BY <3>1
  <2> QED BY <2>2, <2>3
<1>5. ASSUME NEW k \in Nat, k \in Same
      PROVE  k + 1 \in Same
  <2> SUFFICES ASSUME k + 1 <= m, f[k + 1].state # "failed"
               PROVE  g[k + 1] = f[k + 1]
    OBVIOUS
  <2>1. k <= Len(u) /\ k <= Len(t) /\ k <= m
    BY <1>1
  <2>2. f[k] \in StringState /\ f[k + 1] = StringPass(u, cap, f[k])
    BY <1>1, <1>2, <2>1, StringNext
  <2>3. g[k + 1] = StringPass(t, cap, g[k])
    BY <1>1, <1>3, <2>1, StringNext
  <2>4. f[k].state # "failed"
    <3> SUFFICES ASSUME f[k].state = "failed"
                 PROVE  FALSE
      OBVIOUS
    <3>1. f[k].state # "reading"
      OBVIOUS
    <3>2. f[k + 1] = f[k]
      BY <1>1, <2>2, <3>1, PassOfString
    <3> QED BY <3>2
  <2>5. g[k] = f[k]
    BY <1>5, <2>1, <2>4
  <2> QED BY <2>2, <2>3, <2>5, CutPassOfString
<1> HIDE DEF Same
<1>6. Nat \subseteq Same
  BY <1>4, <1>5, Induction
<1>7. extract_json_string(u, pos, cap) = f[m]
  BY <1>2 DEF StringRun
<1>8. g[m] = f[m] /\ f[m].state = "ok"
  BY <1>1, <1>6, <1>7 DEF Same
<1>9. m <= Len(t) + 1 /\ g[m].state # "reading"
  BY <1>1, <1>8
<1>10. extract_json_string(t, pos, cap) = g[m]
  BY <1>1, <1>3, <1>9, StringSettles
<1> QED BY <1>7, <1>8, <1>10

\* Of a string that was read, the end is known.
LEMMA StringEnd ==
    ASSUME NEW t \in Seq(Symbol), NEW pos \in Nat, NEW cap
    PROVE  extract_json_string(t, pos, cap) \in StringState
<1>1. PICK f : StringRun(t, pos, cap, f)
  BY StringLoop
<1>2. Len(t) + 1 \in 0..(Len(t) + 1)
  OBVIOUS
<1> QED BY <1>1, <1>2 DEF StringRun

\* A string that is read opens with a quote.
LEMMA StringOpens ==
    ASSUME NEW t \in Seq(Symbol), NEW pos \in Nat, NEW cap, ~Has(t, pos, Quote)
    PROVE  extract_json_string(t, pos, cap).state = "failed"
<1>1. PICK f : StringRun(t, pos, cap, f)
  BY StringLoop
<1>2. f[0].state = "failed"
  BY <1>1 DEF StringRun, StringStart
<1>3. 0 \in Nat /\ 0 <= Len(t) + 1 /\ f[0].state # "reading"
  BY <1>2
<1>4. extract_json_string(t, pos, cap) = f[0]
  BY <1>1, <1>3, StringSettles
<1> QED BY <1>2, <1>4

FileRead == [path : Seq(Symbol), sha256 : Seq(Symbol)]

ListState == [next : Nat \ {0}, path : Seq(Symbol), sha256 : Seq(Symbol),
              have : SUBSET {"path", "sha256"}, files : Seq(FileRead),
              state : {"list", "file", "ok", "failed"}]

FieldKey(t, p) == extract_json_string(t, p, 16)

FieldColon(t, p) == skip_json_whitespace(t, FieldKey(t, p).next)

FieldValueAt(t, p) == skip_json_whitespace(t, FieldColon(t, p) + 1)

FieldValue(t, p) ==
    extract_json_string(t, FieldValueAt(t, p),
                        IF FieldKey(t, p).value = <<"path">> THEN 256 ELSE 65)

FieldRead(t, p) ==
    /\ FieldKey(t, p).state = "ok" /\ FieldValue(t, p).state = "ok"
    /\ Has(t, FieldColon(t, p), ":")

WithPath(t, p, s) ==
    [s EXCEPT !.next = FieldValue(t, p).next, !.path = FieldValue(t, p).value,
              !.have = @ \cup {"path"}]

WithHash(t, p, s) ==
    [s EXCEPT !.next = FieldValue(t, p).next, !.sha256 = FieldValue(t, p).value,
              !.have = @ \cup {"sha256"}]

\* The parts of a field are texts at places of the text.
LEMMA FieldParts ==
    ASSUME NEW t \in Seq(Symbol), NEW p \in Nat, p >= 1
    PROVE  /\ FieldKey(t, p) \in StringState
           /\ FieldColon(t, p) \in Nat /\ FieldColon(t, p) >= 1
           /\ FieldValueAt(t, p) \in Nat /\ FieldValueAt(t, p) >= 1
           /\ FieldValue(t, p) \in StringState
<1>1. FieldKey(t, p) \in StringState
  BY StringEnd DEF FieldKey
<1>2. FieldKey(t, p).next \in Nat /\ FieldKey(t, p).next >= 1
  BY <1>1 DEF StringState
<1>3. FieldColon(t, p) \in Nat /\ FieldColon(t, p) >= 1
  BY <1>2, SkipIs DEF FieldColon
<1>4. FieldColon(t, p) + 1 \in Nat /\ FieldColon(t, p) + 1 >= 1
  BY <1>3
<1>5. FieldValueAt(t, p) \in Nat /\ FieldValueAt(t, p) >= 1
  BY <1>4, SkipIs DEF FieldValueAt
<1>6. FieldValue(t, p) \in StringState
  BY <1>5, StringEnd DEF FieldValue
<1> QED BY <1>1, <1>3, <1>5, <1>6

\* What Field makes of a key and a value.
LEMMA FieldIs ==
    ASSUME NEW t, NEW p, NEW s
    PROVE  /\ FieldRead(t, p) /\ FieldKey(t, p).value = <<"path">> =>
                Field(t, p, s) = WithPath(t, p, s)
           /\ (/\ FieldRead(t, p) /\ FieldKey(t, p).value = <<"sha256">>
               /\ Characters(FieldValue(t, p).value) = 64) =>
                Field(t, p, s) = WithHash(t, p, s)
           /\ ~FieldRead(t, p) => Field(t, p, s) = Failed(s)
           /\ (/\ FieldKey(t, p).value # <<"path">>
               /\ \/ FieldKey(t, p).value # <<"sha256">>
                  \/ Characters(FieldValue(t, p).value) # 64) =>
                Field(t, p, s) = Failed(s)
<1> DEFINE key == FieldKey(t, p)
           value == FieldValue(t, p)
           read == FieldRead(t, p)
<1>1. Field(t, p, s) =
        CASE read /\ key.value = <<"path">> -> WithPath(t, p, s)
          [] read /\ key.value = <<"sha256">> /\ Characters(value.value) = 64 ->
                WithHash(t, p, s)
          [] OTHER -> Failed(s)
  BY DEF Field, FieldRead, FieldKey, FieldColon, FieldValueAt, FieldValue,
         WithPath, WithHash
<1>2. <<"path">> # <<"sha256">>
  OBVIOUS
<1> HIDE DEF key, value, read
<1>3. read /\ key.value = <<"path">> => Field(t, p, s) = WithPath(t, p, s)
  BY <1>1, <1>2
<1>4. read /\ key.value = <<"sha256">> /\ Characters(value.value) = 64 =>
        Field(t, p, s) = WithHash(t, p, s)
  BY <1>1, <1>2
<1>5. ~read => Field(t, p, s) = Failed(s)
  BY <1>1
<1>6. (/\ key.value # <<"path">>
       /\ key.value # <<"sha256">> \/ Characters(value.value) # 64) =>
         Field(t, p, s) = Failed(s)
  BY <1>1
<1> QED BY <1>3, <1>4, <1>5, <1>6 DEF key, value, read

\* A failure is a state of the loop.
LEMMA FailedList ==
    ASSUME NEW s \in ListState
    PROVE  Failed(s) \in ListState /\ Failed(s).state = "failed"
  BY DEF ListState, Failed

\* A field leaves the loop in one of its states.
LEMMA FieldInState ==
    ASSUME NEW t \in Seq(Symbol), NEW p \in Nat, p >= 1, NEW s \in ListState
    PROVE  Field(t, p, s) \in ListState
<1>1. FieldValue(t, p).next \in Nat \ {0} /\ FieldValue(t, p).value \in Seq(Symbol)
  <2>1. FieldValue(t, p) \in StringState
    BY FieldParts
  <2> QED BY <2>1 DEF StringState
<1>2. WithPath(t, p, s) \in ListState
  BY <1>1 DEF ListState, WithPath
<1>3. WithHash(t, p, s) \in ListState
  BY <1>1 DEF ListState, WithHash
<1>4. Failed(s) \in ListState
  BY FailedList
<1>5. \/ Field(t, p, s) = WithPath(t, p, s)
      \/ Field(t, p, s) = WithHash(t, p, s)
      \/ Field(t, p, s) = Failed(s)
  BY FieldIs
<1> QED BY <1>2, <1>3, <1>4, <1>5

\* A field that is read from a cut text is read from the whole one.
LEMMA CutField ==
    ASSUME NEW u, NEW t, IsCutOf(u, t), NEW p \in Nat, p >= 1, NEW s \in ListState,
           Field(u, p, s).state # "failed"
    PROVE  Field(t, p, s) = Field(u, p, s)
<1>1. u \in Seq(Symbol) /\ t \in Seq(Symbol)
  BY DEF IsCutOf
<1>2. FieldRead(u, p)
  <2> SUFFICES ASSUME ~FieldRead(u, p)
               PROVE  FALSE
    OBVIOUS
  <2>1. Field(u, p, s) = Failed(s)
    BY FieldIs
  <2> QED BY <2>1, FailedList
<1>3. /\ FieldKey(u, p) \in StringState
      /\ FieldColon(u, p) \in Nat /\ FieldColon(u, p) >= 1
      /\ FieldValueAt(u, p) \in Nat /\ FieldValueAt(u, p) >= 1
  BY <1>1, FieldParts
<1>4. FieldKey(t, p) = FieldKey(u, p)
  BY <1>2, CutString DEF FieldRead, FieldKey
<1>5. FieldColon(u, p) <= Len(u)
  BY <1>2 DEF FieldRead, Has
<1>6. FieldKey(u, p).next \in Nat /\ FieldKey(u, p).next >= 1
  BY <1>3 DEF StringState
<1>7. FieldColon(t, p) = FieldColon(u, p)
  BY <1>4, <1>5, <1>6, CutSkip DEF FieldColon
<1>8. Has(u, FieldValueAt(u, p), Quote)
  <2> SUFFICES ASSUME ~Has(u, FieldValueAt(u, p), Quote)
               PROVE  FALSE
    OBVIOUS
  <2>1. FieldValue(u, p).state = "failed"
    BY <1>1, <1>3, StringOpens DEF FieldValue
  <2> QED BY <1>2, <2>1 DEF FieldRead
<1>9. FieldColon(u, p) + 1 \in Nat /\ FieldColon(u, p) + 1 >= 1
  BY <1>3
<1>10. FieldValueAt(t, p) = FieldValueAt(u, p)
  <2>1. FieldValueAt(u, p) <= Len(u)
    BY <1>8 DEF Has
  <2> QED BY <1>7, <1>9, <2>1, CutSkip DEF FieldValueAt
<1>11. FieldValue(t, p) = FieldValue(u, p)
  <2>1. FieldValue(u, p).state = "ok"
    BY <1>2 DEF FieldRead
  <2> QED BY <1>3, <1>4, <1>10, <2>1, CutString DEF FieldValue
<1>12. FieldRead(t, p)
  <2>1. Has(t, FieldColon(u, p), ":")
    BY <1>2, <1>3, CutHas DEF FieldRead
  <2> QED BY <1>2, <1>4, <1>7, <1>11, <2>1 DEF FieldRead
<1>13. CASE FieldKey(u, p).value = <<"path">>
  <2>1. WithPath(t, p, s) = WithPath(u, p, s)
    BY <1>11 DEF WithPath
  <2>2. Field(u, p, s) = WithPath(u, p, s)
    BY <1>2, <1>13, FieldIs
  <2>3. Field(t, p, s) = WithPath(t, p, s)
    BY <1>4, <1>12, <1>13, FieldIs
  <2> QED BY <2>1, <2>2, <2>3
<1>14. CASE /\ FieldKey(u, p).value = <<"sha256">>
            /\ Characters(FieldValue(u, p).value) = 64
  <2>1. WithHash(t, p, s) = WithHash(u, p, s)
    BY <1>11 DEF WithHash
  <2>2. Field(u, p, s) = WithHash(u, p, s)
    BY <1>2, <1>14, FieldIs
  <2>3. Field(t, p, s) = WithHash(t, p, s)
    BY <1>4, <1>11, <1>12, <1>14, FieldIs
  <2> QED BY <2>1, <2>2, <2>3
<1>15. CASE /\ FieldKey(u, p).value # <<"path">>
            /\ \/ FieldKey(u, p).value # <<"sha256">>
               \/ Characters(FieldValue(u, p).value) # 64
  <2>1. Field(u, p, s) = Failed(s)
    BY <1>15, FieldIs
  <2> QED BY <2>1, FailedList
<1> QED BY <1>13, <1>14, <1>15

\* What a pass of the loops over a file and over the list does.
LEMMA FilePassIs ==
    ASSUME NEW t \in Seq(Symbol), NEW s \in ListState
    PROVE  LET pos == skip_json_whitespace(t, s.next)
               u == FilePass(t, s)
           IN  /\ u \in ListState
               /\ Has(t, pos, "}") /\ s.have = {"path", "sha256"} =>
                    u = [s EXCEPT !.state = "list", !.next = pos + 1,
                                  !.files = Append(@, [path |-> s.path,
                                                       sha256 |-> s.sha256])]
               /\ Has(t, pos, "}") /\ s.have # {"path", "sha256"} => u = Failed(s)
               /\ Has(t, pos, ",") => u = [s EXCEPT !.next = pos + 1]
               /\ ~Has(t, pos, "}") /\ ~Has(t, pos, ",") => u = Field(t, pos, s)
<1> DEFINE pos == skip_json_whitespace(t, s.next)
           u == FilePass(t, s)
           entry == [path |-> s.path, sha256 |-> s.sha256]
           taken == [s EXCEPT !.state = "list", !.next = pos + 1,
                              !.files = Append(@, entry)]
           after == [s EXCEPT !.next = pos + 1]
<1>1. s.next \in Nat /\ s.next >= 1
  BY DEF ListState
<1>2. pos \in Nat /\ pos >= 1 /\ pos + 1 \in Nat \ {0}
  <2>1. pos \in Nat /\ pos >= 1
    BY <1>1, SkipIs
  <2> HIDE DEF pos
  <2> QED BY <2>1
<1> HIDE DEF pos
<1>3. u = CASE Has(t, pos, "}") ->
                 IF s.have = {"path", "sha256"} THEN taken ELSE Failed(s)
            [] Has(t, pos, ",") -> after
            [] OTHER -> Field(t, pos, s)
  BY DEF FilePass, pos
<1>4. ~(Has(t, pos, "}") /\ Has(t, pos, ","))
  BY DEF Has
<1>5. after \in ListState
  BY <1>2 DEF ListState
<1>6. taken \in ListState
  <2>1. entry \in FileRead
    BY DEF ListState, FileRead
  <2> HIDE DEF entry
  <2>2. Append(s.files, entry) \in Seq(FileRead)
    BY <2>1 DEF ListState
  <2> QED BY <1>2, <2>2 DEF ListState
<1>7. Failed(s) \in ListState /\ Field(t, pos, s) \in ListState
  BY <1>2, FailedList, FieldInState
<1> HIDE DEF taken, after, u
<1>8. Has(t, pos, "}") /\ s.have = {"path", "sha256"} => u = taken
  BY <1>3, <1>4
<1>9. Has(t, pos, "}") /\ s.have # {"path", "sha256"} => u = Failed(s)
  BY <1>3, <1>4
<1>10. Has(t, pos, ",") => u = after
  BY <1>3, <1>4
<1>11. ~Has(t, pos, "}") /\ ~Has(t, pos, ",") => u = Field(t, pos, s)
  BY <1>3
<1>12. u \in ListState
  BY <1>5, <1>6, <1>7, <1>8, <1>9, <1>10, <1>11
<1> QED BY <1>8, <1>9, <1>10, <1>11, <1>12, Zenon DEF pos, u, taken, after, entry

\* A pass between two files, symbol by symbol.
LEMMA ListPassIs ==
    ASSUME NEW t \in Seq(Symbol), NEW s \in ListState
    PROVE  LET pos == skip_json_whitespace(t, s.next)
               u == ListPass(t, s)
           IN  /\ u \in ListState
               /\ Has(t, pos, "]") => u = [s EXCEPT !.state = "ok"]
               /\ Has(t, pos, ",") => u = [s EXCEPT !.next = pos + 1]
               /\ Has(t, pos, "{") =>
                    u = [s EXCEPT !.state = "file", !.next = pos + 1, !.have = {}]
               /\ ~Has(t, pos, "]") /\ ~Has(t, pos, ",") /\ ~Has(t, pos, "{") =>
                    u = Failed(s)
<1> DEFINE pos == skip_json_whitespace(t, s.next)
           u == ListPass(t, s)
           ended == [s EXCEPT !.state = "ok"]
           after == [s EXCEPT !.next = pos + 1]
           opened == [s EXCEPT !.state = "file", !.next = pos + 1, !.have = {}]
<1>1. s.next \in Nat /\ s.next >= 1
  BY DEF ListState
<1>2. pos + 1 \in Nat \ {0}
  <2>1. pos \in Nat /\ pos >= 1
    BY <1>1, SkipIs
  <2> HIDE DEF pos
  <2> QED BY <2>1
<1> HIDE DEF pos
<1>3. u = CASE Has(t, pos, "]") -> ended
            [] Has(t, pos, ",") -> after
            [] Has(t, pos, "{") -> opened
            [] OTHER -> Failed(s)
  BY DEF ListPass, ListEnds, pos
<1>4. /\ ~(Has(t, pos, "]") /\ Has(t, pos, ","))
      /\ ~(Has(t, pos, "]") /\ Has(t, pos, "{"))
      /\ ~(Has(t, pos, "{") /\ Has(t, pos, ","))
  BY DEF Has
<1>5. ended \in ListState /\ after \in ListState /\ opened \in ListState
  BY <1>2 DEF ListState
<1>6. Failed(s) \in ListState
  BY FailedList
<1> HIDE DEF ended, after, opened, u
<1>7. Has(t, pos, "]") => u = ended
  BY <1>3, <1>4
<1>8. Has(t, pos, ",") => u = after
  BY <1>3, <1>4
<1>9. Has(t, pos, "{") => u = opened
  BY <1>3, <1>4
<1>10. ~Has(t, pos, "]") /\ ~Has(t, pos, ",") /\ ~Has(t, pos, "{") => u = Failed(s)
  BY <1>3
<1>11. u \in ListState
  BY <1>5, <1>6, <1>7, <1>8, <1>9, <1>10
<1> QED BY <1>7, <1>8, <1>9, <1>10, <1>11, Zenon DEF pos, u, ended, after, opened

\* Which of the two loops a pass belongs to.
LEMMA PassOfList ==
    ASSUME NEW t \in Seq(Symbol), NEW s \in ListState
    PROVE  /\ Pass(t, s) \in ListState
           /\ s.state \notin {"list", "file"} => Pass(t, s) = s
           /\ s.state = "list" => Pass(t, s) = ListPass(t, s)
           /\ s.state = "file" => Pass(t, s) = FilePass(t, s)
<1>1. /\ s.state \notin {"list", "file"} => Pass(t, s) = s
      /\ s.state = "list" => Pass(t, s) = ListPass(t, s)
      /\ s.state = "file" => Pass(t, s) = FilePass(t, s)
  BY DEF Pass
<1>2. ListPass(t, s) \in ListState /\ FilePass(t, s) \in ListState
  BY FilePassIs, ListPassIs
<1> QED BY <1>1, <1>2

\* The states of the loop over the list of files, one after another.
ListRun(t, pos, f) ==
    /\ f \in [0..(Len(t) + 1) -> ListState]
    /\ f[0] = ListStart(pos)
    /\ \A i \in 1..(Len(t) + 1) : f[i] = Pass(t, f[i - 1])
    /\ FileList(t, pos) = f[Len(t) + 1]

\* The states of the loop over the list are a run.
LEMMA ListLoop ==
    ASSUME NEW t \in Seq(Symbol), NEW pos \in Nat, pos >= 1
    PROVE  \E f : ListRun(t, pos, f)
<1> DEFINE n == Len(t) + 1
           first == ListStart(pos)
           Is(f) == f = [i \in 0..n |-> IF i = 0 THEN first
                                        ELSE Pass(t, f[i - 1])]
           after == CHOOSE f : Is(f)
           D == [p \in ListState \X Nat |-> Pass(t, p[1])]
<1>1. n \in Nat
  OBVIOUS
<1>2. FileList(t, pos) = after[n]
  BY Zenon DEF FileList
<1> HIDE DEF n
<1>3. \A s \in ListState : Pass(t, s) \in ListState
  BY PassOfList
<1>4. D \in [ListState \X Nat -> ListState]
  BY <1>3
<1>5. \A s \in ListState, i \in Nat : D[<<s, i>>] = Pass(t, s)
  <2> TAKE s \in ListState, i \in Nat
  <2>1. <<s, i>> \in ListState \X Nat /\ <<s, i>>[1] = s
    OBVIOUS
  <2> QED BY <2>1, Zenon
<1> HIDE DEF D
<1>6. first \in ListState
  <2>1. <<>> \in Seq(Symbol) /\ pos + 1 \in Nat \ {0}
    OBVIOUS
  <2> QED BY <2>1 DEF ListStart, ListState
<1> HIDE DEF first
<1>7. PICK f \in [0..n -> ListState] : Steps(f, n, first, D)
  BY <1>1, <1>4, <1>6, StepsExist
<1> DEFINE step(g, i) == Pass(t, g[i - 1])
<1>8. /\ f[0] = first
      /\ \A i \in 1..n : f[i] = step(f, i)
  <2>1. ASSUME NEW i \in 1..n
        PROVE  f[i] = Pass(t, f[i - 1])
    <3>1. i - 1 \in 0..n /\ i \in Nat
      BY <1>1
    <3>2. f[i - 1] \in ListState
      BY <1>7, <3>1
    <3> QED BY <1>5, <1>7, <3>1, <3>2 DEF Steps
  <2> QED BY <1>7, <2>1 DEF Steps
<1>9. /\ \A i \in 0..n : i # 0 => i \in 1..n
      /\ 0 \in 0..n /\ \A i \in 1..n : i \in 0..n /\ i # 0
  BY <1>1
<1>10. Is(f)
  <2> HIDE DEF step
  <2>1. f = [i \in 0..n |-> IF i = 0 THEN first ELSE step(f, i)]
    BY <1>7, <1>8, <1>9
  <2> QED BY <2>1 DEF step
<1>11. Is(after)
  BY <1>10, Zenon
<1> HIDE DEF after
<1>12. /\ DOMAIN after = 0..n
       /\ after[0] = first
       /\ \A i \in 1..n : after[i] = step(after, i)
  <2>1. after = [i \in 0..n |-> IF i = 0 THEN first ELSE step(after, i)]
    BY <1>11
  <2> HIDE DEF step
  <2> QED BY <1>9, <2>1
<1>13. \A k \in Nat : k <= n => after[k] = f[k]
  <2> DEFINE Same == {k \in Nat : k <= n => after[k] = f[k]}
  <2>1. 0 \in Same
    BY <1>8, <1>12
  <2>2. ASSUME NEW k \in Nat, k \in Same
        PROVE  k + 1 \in Same
    <3> SUFFICES ASSUME k + 1 <= n
                 PROVE  after[k + 1] = f[k + 1]
      OBVIOUS
    <3>1. k + 1 \in 1..n /\ (k + 1) - 1 = k /\ k <= n
      BY <1>1
    <3>2. after[k + 1] = Pass(t, after[k])
      BY <1>12, <3>1
    <3>3. f[k + 1] = Pass(t, f[k])
      BY <1>8, <3>1
    <3> QED BY <2>2, <3>1, <3>2, <3>3
  <2> HIDE DEF Same
  <2>3. Nat \subseteq Same
    BY <2>1, <2>2, Induction
  <2> QED BY <2>3 DEF Same
<1>14. FileList(t, pos) = f[n]
  BY <1>1, <1>2, <1>13
<1> QED BY <1>7, <1>8, <1>14 DEF ListRun, n, first

\* One step of such a run.
LEMMA ListNext ==
    ASSUME NEW t \in Seq(Symbol), NEW pos, NEW f, ListRun(t, pos, f),
           NEW k \in Nat, k <= Len(t)
    PROVE  f[k] \in ListState /\ f[k + 1] = Pass(t, f[k])
<1>1. k \in 0..(Len(t) + 1) /\ k + 1 \in 1..(Len(t) + 1) /\ (k + 1) - 1 = k
  OBVIOUS
<1>2. f[k + 1] = Pass(t, f[(k + 1) - 1])
  BY <1>1 DEF ListRun
<1> QED BY <1>1, <1>2 DEF ListRun

\* What the loop has come to does not change.
LEMMA ListSettles ==
    ASSUME NEW t \in Seq(Symbol), NEW pos, NEW f, ListRun(t, pos, f),
           NEW k \in Nat, k <= Len(t) + 1, f[k].state \notin {"list", "file"}
    PROVE  FileList(t, pos) = f[k]
<1> DEFINE n == Len(t) + 1
           Same == {j \in Nat : k + j <= n => f[k + j] = f[k]}
<1>1. n \in Nat
  OBVIOUS
<1>2. 0 \in Same
  OBVIOUS
<1>3. ASSUME NEW j \in Nat, j \in Same
      PROVE  j + 1 \in Same
  <2> SUFFICES ASSUME k + (j + 1) <= n
               PROVE  f[k + (j + 1)] = f[k]
    OBVIOUS
  <2>1. k + j \in Nat /\ k + j <= Len(t) /\ k + j <= n /\ k + (j + 1) = (k + j) + 1
    OBVIOUS
  <2>2. f[k + j] = f[k]
    BY <1>3, <2>1
  <2>3. /\ f[k + j] \in ListState
        /\ f[(k + j) + 1] = Pass(t, f[k + j])
    BY <2>1, ListNext
  <2>4. Pass(t, f[k]) = f[k]
    BY <2>2, <2>3, PassOfList
  <2> QED BY <2>1, <2>2, <2>3, <2>4
<1> HIDE DEF Same
<1>4. Nat \subseteq Same
  BY <1>2, <1>3, Induction
<1>5. n - k \in Nat /\ k + (n - k) = n
  BY <1>1
<1>6. f[n] = f[k]
  <2>1. n - k \in Same /\ k + (n - k) <= n
    BY <1>1, <1>4, <1>5
  <2>2. f[k + (n - k)] = f[k]
    BY <2>1 DEF Same
  <2> QED BY <1>5, <2>2
<1> QED BY <1>6 DEF ListRun

\* A pass over the list that does not fail on a cut text does the same on the
\* whole one.
LEMMA CutPassOfList ==
    ASSUME NEW u, NEW t, IsCutOf(u, t), NEW s \in ListState,
           Pass(u, s).state # "failed"
    PROVE  Pass(t, s) = Pass(u, s)
<1> DEFINE p == skip_json_whitespace(u, s.next)
<1>1. u \in Seq(Symbol) /\ t \in Seq(Symbol) /\ s.next \in Nat /\ s.next >= 1
  BY DEF IsCutOf, ListState
<1>2. p \in Nat /\ p >= 1
  BY <1>1, SkipIs
<1>3. ASSUME NEW c, Has(u, p, c)
      PROVE  skip_json_whitespace(t, s.next) = p /\ Has(t, p, c)
  <2>1. p <= Len(u)
    BY <1>3 DEF Has
  <2> QED BY <1>1, <1>2, <1>3, <2>1, CutSkip, CutHas
<1> HIDE DEF p
<1>4. CASE s.state \notin {"list", "file"}
  BY <1>1, <1>4, PassOfList
<1>5. CASE s.state = "list"
  <2>1. Pass(u, s) = ListPass(u, s) /\ Pass(t, s) = ListPass(t, s)
    BY <1>1, <1>5, PassOfList
  <2>2. Has(u, p, "]") \/ Has(u, p, ",") \/ Has(u, p, "{")
    <3> SUFFICES ASSUME ~Has(u, p, "]"), ~Has(u, p, ","), ~Has(u, p, "{")
                 PROVE  FALSE
      OBVIOUS
    <3>1. ListPass(u, s) = Failed(s)
      BY <1>1, ListPassIs DEF p
    <3> QED BY <2>1, <3>1, FailedList
  <2>3. skip_json_whitespace(t, s.next) = p
    BY <1>3, <2>2
  <2>4. CASE Has(u, p, "]")
    <3>1. ListPass(u, s) = [s EXCEPT !.state = "ok"]
      BY <1>1, <2>4, ListPassIs DEF p
    <3>2. ListPass(t, s) = [s EXCEPT !.state = "ok"]
      BY <1>1, <1>3, <2>3, <2>4, ListPassIs
    <3> QED BY <2>1, <3>1, <3>2
  <2>5. CASE Has(u, p, ",")
    <3>1. ListPass(u, s) = [s EXCEPT !.next = p + 1]
      BY <1>1, <2>5, ListPassIs DEF p
    <3>2. ListPass(t, s) = [s EXCEPT !.next = p + 1]
      BY <1>1, <1>3, <2>3, <2>5, ListPassIs
    <3> QED BY <2>1, <3>1, <3>2
  <2>6. CASE Has(u, p, "{")
    <3>1. ListPass(u, s) = [s EXCEPT !.state = "file", !.next = p + 1, !.have = {}]
      BY <1>1, <2>6, ListPassIs DEF p
    <3>2. ListPass(t, s) = [s EXCEPT !.state = "file", !.next = p + 1, !.have = {}]
      BY <1>1, <1>3, <2>3, <2>6, ListPassIs
    <3> QED BY <2>1, <3>1, <3>2
  <2> QED BY <2>2, <2>4, <2>5, <2>6
<1>6. CASE s.state = "file"
  <2>1. Pass(u, s) = FilePass(u, s) /\ Pass(t, s) = FilePass(t, s)
    BY <1>1, <1>6, PassOfList
  <2>2. CASE Has(u, p, "}")
    <3>1. s.have = {"path", "sha256"}
      <4> SUFFICES ASSUME s.have # {"path", "sha256"}
                   PROVE  FALSE
        OBVIOUS
      <4>1. FilePass(u, s) = Failed(s)
        BY <1>1, <2>2, FilePassIs DEF p
      <4> QED BY <2>1, <4>1, FailedList
    <3> DEFINE after == [s EXCEPT !.state = "list", !.next = p + 1,
                                  !.files = Append(@, [path |-> s.path,
                                                       sha256 |-> s.sha256])]
    <3>2. FilePass(u, s) = after
      BY <1>1, <2>2, <3>1, FilePassIs DEF p
    <3>3. FilePass(t, s) = after
      <4>1. skip_json_whitespace(t, s.next) = p /\ Has(t, p, "}")
        BY <1>3, <2>2
      <4> QED BY <1>1, <2>2, <3>1, <4>1, FilePassIs
    <3> QED BY <2>1, <3>2, <3>3
  <2>3. CASE Has(u, p, ",")
    <3>1. FilePass(u, s) = [s EXCEPT !.next = p + 1]
      BY <1>1, <2>3, FilePassIs DEF p
    <3>2. FilePass(t, s) = [s EXCEPT !.next = p + 1]
      <4>1. skip_json_whitespace(t, s.next) = p /\ Has(t, p, ",")
        BY <1>3, <2>3
      <4> QED BY <1>1, <2>3, <4>1, FilePassIs
    <3> QED BY <2>1, <3>1, <3>2
  <2>4. CASE ~Has(u, p, "}") /\ ~Has(u, p, ",")
    <3>1. FilePass(u, s) = Field(u, p, s)
      BY <1>1, <2>4, FilePassIs DEF p
    <3>2. Has(u, p, Quote)
      <4> SUFFICES ASSUME ~Has(u, p, Quote)
                   PROVE  FALSE
        OBVIOUS
      <4>1. FieldKey(u, p).state = "failed"
        BY <1>1, <1>2, StringOpens DEF FieldKey
      <4>2. Field(u, p, s) = Failed(s)
        BY <4>1, FieldIs DEF FieldRead
      <4> QED BY <2>1, <3>1, <4>2, FailedList
    <3>3. skip_json_whitespace(t, s.next) = p /\ Has(t, p, Quote)
      BY <1>3, <3>2
    <3>4. ~Has(t, p, "}") /\ ~Has(t, p, ",")
      BY <3>3, Symbols DEF Has
    <3>5. FilePass(t, s) = Field(t, p, s)
      BY <1>1, <3>3, <3>4, FilePassIs
    <3>6. Field(t, p, s) = Field(u, p, s)
      BY <1>2, <2>1, <3>1, CutField
    <3> QED BY <2>1, <3>1, <3>5, <3>6
  <2> QED BY <2>2, <2>3, <2>4
<1> QED BY <1>4, <1>5, <1>6

\* So a list that is read to its end in a cut text is the whole list.
LEMMA CutList ==
    ASSUME NEW u, NEW t, IsCutOf(u, t), NEW pos \in Nat, pos >= 1,
           FileList(u, pos).state = "ok"
    PROVE  FileList(t, pos) = FileList(u, pos)
<1> DEFINE m == Len(u) + 1
<1>1. /\ u \in Seq(Symbol) /\ t \in Seq(Symbol) /\ Len(u) \in Nat /\ Len(t) \in Nat
      /\ Len(u) <= Len(t) /\ m \in Nat
  BY DEF IsCutOf
<1>2. PICK f : ListRun(u, pos, f)
  BY <1>1, ListLoop
<1>3. PICK g : ListRun(t, pos, g)
  BY <1>1, ListLoop
<1> DEFINE Same == {k \in Nat : k <= m => f[k].state = "failed" \/ g[k] = f[k]}
<1>4. 0 \in Same
  BY <1>2, <1>3 DEF ListRun
<1>5. ASSUME NEW k \in Nat, k \in Same
      PROVE  k + 1 \in Same
  <2> SUFFICES ASSUME k + 1 <= m, f[k + 1].state # "failed"
               PROVE  g[k + 1] = f[k + 1]
    OBVIOUS
  <2>1. k <= Len(u) /\ k <= Len(t) /\ k <= m
    BY <1>1
  <2>2. f[k] \in ListState /\ f[k + 1] = Pass(u, f[k])
    BY <1>1, <1>2, <2>1, ListNext
  <2>3. g[k + 1] = Pass(t, g[k])
    BY <1>1, <1>3, <2>1, ListNext
  <2>4. f[k].state # "failed"
    <3> SUFFICES ASSUME f[k].state = "failed"
                 PROVE  FALSE
      OBVIOUS
    <3>1. f[k].state \notin {"list", "file"}
      OBVIOUS
    <3>2. f[k + 1] = f[k]
      BY <1>1, <2>2, <3>1, PassOfList
    <3> QED BY <3>2
  <2>5. g[k] = f[k]
    BY <1>5, <2>1, <2>4
  <2> QED BY <2>2, <2>3, <2>5, CutPassOfList
<1> HIDE DEF Same
<1>6. Nat \subseteq Same
  BY <1>4, <1>5, Induction
<1>7. FileList(u, pos) = f[m]
  BY <1>2 DEF ListRun
<1>8. g[m] = f[m] /\ f[m].state = "ok"
  BY <1>1, <1>6, <1>7 DEF Same
<1>9. m <= Len(t) + 1 /\ g[m].state \notin {"list", "file"}
  BY <1>1, <1>8
<1>10. FileList(t, pos) = g[m]
  BY <1>1, <1>3, <1>9, ListSettles
<1> QED BY <1>7, <1>8, <1>10

\* The place of the key is the first place where its text is.
KeyAt(t, i) ==
    /\ i \in Nat /\ i >= 1 /\ i + 2 <= Len(t)
    /\ t[i] = Quote /\ t[i + 1] = "files" /\ t[i + 2] = Quote

Keys(t) ==
    {i \in 1..(Len(t) - 2) : SubSeq(t, i, i + 2) = <<Quote, "files", Quote>>}

\* Where the text of the key is.
LEMMA KeysAre ==
    ASSUME NEW t \in Seq(Symbol), NEW i
    PROVE  i \in Keys(t) <=> KeyAt(t, i)
<1> DEFINE n == Len(t)
           key == <<Quote, "files", Quote>>
<1>1. n \in Nat
  OBVIOUS
<1>2. i \in 1..(n - 2) <=> i \in Nat /\ i >= 1 /\ i + 2 <= n
  <2> HIDE DEF n
  <2> QED BY <1>1
<1>3. ASSUME i \in 1..(n - 2)
      PROVE  SubSeq(t, i, i + 2) = key <=>
               t[i] = Quote /\ t[i + 1] = "files" /\ t[i + 2] = Quote
  <2> DEFINE w == SubSeq(t, i, i + 2)
  <2>1. i \in Nat /\ i >= 1 /\ i + 2 <= n
    BY <1>2, <1>3
  <2>2. /\ Len(w) = 3 /\ w \in Seq(Symbol)
        /\ w[1] = t[i] /\ w[2] = t[i + 1] /\ w[3] = t[i + 2]
    BY <2>1
  <2>3. /\ key \in Seq({Quote, "files"}) /\ Len(key) = 3
        /\ key[1] = Quote /\ key[2] = "files" /\ key[3] = Quote
    OBVIOUS
  <2> HIDE DEF w, key
  <2>4. w = key <=> w[1] = key[1] /\ w[2] = key[2] /\ w[3] = key[3]
    BY <2>2, <2>3
  <2> QED BY <2>2, <2>3, <2>4 DEF w
<1> HIDE DEF n
<1> QED BY <1>2, <1>3 DEF Keys, KeyAt, n

\* The first of those places.
LEMMA FirstKey ==
    ASSUME NEW t \in Seq(Symbol), NEW a, KeyAt(t, a),
           \A j : KeyAt(t, j) => a <= j
    PROVE  Keys(t) # {} /\ Min(Keys(t)) = a
<1>1. a \in Keys(t) /\ \A j \in Keys(t) : a <= j
  BY KeysAre
<1>2. \A x \in Keys(t) : x \in Nat
  BY KeysAre DEF KeyAt
<1> DEFINE b == Min(Keys(t))
<1>3. b \in Keys(t) /\ \A j \in Keys(t) : b <= j
  BY <1>1, Zenon DEF Min
<1> HIDE DEF b
<1>4. b = a
  BY <1>1, <1>2, <1>3
<1> QED BY <1>1, <1>4 DEF b

KeyColon(t) == skip_json_whitespace(t, Min(Keys(t)) + 3)

ListBracket(t) == skip_json_whitespace(t, KeyColon(t) + 1)

ListRead(t) == FileList(t, ListBracket(t) + 1)

\* What parse_manifest_files reads, part by part.
LEMMA ManifestParts ==
    ASSUME NEW t
    PROVE  parse_manifest_files(t) =
             IF /\ Keys(t) # {} /\ Has(t, KeyColon(t), ":") /\ Has(t, ListBracket(t), "[")
                /\ ListRead(t).state = "ok"
             THEN {ListRead(t).files} ELSE {}
  BY DEF parse_manifest_files, Keys, KeyColon, ListBracket, ListRead

\* What is read from a manifest that was cut off is read from the whole one.
LEMMA CutManifest ==
    ASSUME NEW u, NEW t, IsCutOf(u, t)
    PROVE  parse_manifest_files(u) \subseteq parse_manifest_files(t)
<1> SUFFICES ASSUME parse_manifest_files(u) # {}
             PROVE  parse_manifest_files(t) = parse_manifest_files(u)
  OBVIOUS
<1>1. /\ u \in Seq(Symbol) /\ t \in Seq(Symbol) /\ Len(u) \in Nat /\ Len(t) \in Nat
      /\ Len(u) <= Len(t) /\ \A i \in 1..Len(u) : u[i] = t[i]
  BY DEF IsCutOf
<1>2. /\ Keys(u) # {} /\ Has(u, KeyColon(u), ":") /\ Has(u, ListBracket(u), "[")
      /\ ListRead(u).state = "ok"
  BY ManifestParts
<1>3. ASSUME NEW i, i \in Nat, i + 2 <= Len(u)
      PROVE  KeyAt(u, i) <=> KeyAt(t, i)
  BY <1>1, <1>3 DEF KeyAt
<1> DEFINE a == Min(Keys(u))
<1>4. a \in Keys(u) /\ \A j \in Keys(u) : a <= j
  <2>1. Keys(u) \subseteq Nat
    BY <1>1, KeysAre DEF KeyAt
  <2>2. \E x \in Keys(u) : \A j \in Keys(u) : x <= j
    BY <1>2, <2>1, LeastNatural
  <2> QED BY <2>2, Zenon DEF Min
<1> HIDE DEF a
<1>5. KeyAt(u, a) /\ a \in Nat /\ a >= 1 /\ a + 2 <= Len(u)
  BY <1>1, <1>4, KeysAre DEF KeyAt
<1>6. Keys(t) # {} /\ Min(Keys(t)) = a
  <2>1. KeyAt(t, a)
    BY <1>3, <1>5
  <2>2. ASSUME NEW j, KeyAt(t, j)
        PROVE  a <= j
    <3>1. j \in Nat
      BY <2>2 DEF KeyAt
    <3>2. CASE j + 2 <= Len(u)
      <4>1. j \in Keys(u)
        BY <1>1, <1>3, <2>2, <3>1, <3>2, KeysAre
      <4> QED BY <1>4, <4>1
    <3>3. CASE ~(j + 2 <= Len(u))
      BY <1>1, <1>5, <3>1, <3>3
    <3> QED BY <3>2, <3>3
  <2> QED BY <1>1, <2>1, <2>2, FirstKey
<1>7. KeyColon(t) = KeyColon(u) /\ KeyColon(u) \in Nat /\ KeyColon(u) >= 1
  <2>1. a + 3 \in Nat /\ a + 3 >= 1
    BY <1>5
  <2>2. KeyColon(u) <= Len(u)
    BY <1>2 DEF Has
  <2>3. KeyColon(u) = skip_json_whitespace(u, a + 3)
    BY DEF KeyColon, a
  <2>4. KeyColon(t) = skip_json_whitespace(t, a + 3)
    BY <1>6 DEF KeyColon
  <2> QED BY <1>1, <2>1, <2>2, <2>3, <2>4, CutSkip, SkipIs
<1>8. ListBracket(t) = ListBracket(u) /\ ListBracket(u) \in Nat /\ ListBracket(u) >= 1
  <2>1. KeyColon(u) + 1 \in Nat /\ KeyColon(u) + 1 >= 1
    BY <1>7
  <2>2. ListBracket(u) <= Len(u)
    BY <1>2 DEF Has
  <2> QED BY <1>1, <1>7, <2>1, <2>2, CutSkip, SkipIs DEF ListBracket
<1>9. ListRead(t) = ListRead(u)
  <2>1. ListBracket(u) + 1 \in Nat /\ ListBracket(u) + 1 >= 1
    BY <1>8
  <2> QED BY <1>2, <1>8, <2>1, CutList DEF ListRead
<1>10. Has(t, KeyColon(t), ":") /\ Has(t, ListBracket(t), "[")
  BY <1>2, <1>7, <1>8, CutHas
<1> QED BY <1>2, <1>6, <1>9, <1>10, ManifestParts

-----------------------------------------------------------------------------
(* A manifest that is read back.                                           *)

\* After the first p symbols of t, those of x.
At(t, p, x) ==
    /\ p \in Nat /\ p + Len(x) <= Len(t)
    /\ \A i \in 1..Len(x) : t[p + i] = x[i]

\* A text made of two has the one behind the other.
LEMMA AtJoined ==
    ASSUME NEW x \in Seq(Symbol), NEW y \in Seq(Symbol), NEW t \in Seq(Symbol), NEW p,
           At(t, p, x \o y)
    PROVE  At(t, p, x) /\ At(t, p + Len(x), y)
<1> DEFINE z == x \o y
           m == Len(x)
           n == Len(y)
<1>1. /\ Len(z) = m + n
      /\ \A j \in 1..m : z[j] = x[j]
      /\ \A j \in 1..n : z[m + j] = y[j]
  BY Joined
<1>2. m \in Nat /\ n \in Nat /\ Len(t) \in Nat
  OBVIOUS
<1>3. At(t, p, z)
  OBVIOUS
<1> HIDE DEF z, m, n
<1>4. /\ p \in Nat /\ p + (m + n) <= Len(t)
      /\ \A i \in 1..(m + n) : t[p + i] = z[i]
  BY <1>1, <1>3 DEF At
<1>5. p + m <= Len(t) /\ \A i \in 1..m : t[p + i] = x[i]
  <2>1. \A i \in 1..m : i \in 1..(m + n)
    BY <1>2
  <2> QED BY <1>1, <1>2, <1>4, <2>1
<1>6. (p + m) + n <= Len(t) /\ \A i \in 1..n : t[(p + m) + i] = y[i]
  <2>1. ASSUME NEW i \in 1..n
        PROVE  t[(p + m) + i] = y[i]
    <3>1. m + i \in 1..(m + n) /\ (p + m) + i = p + (m + i)
      BY <1>2, <1>4
    <3>2. t[p + (m + i)] = z[m + i]
      BY <1>4, <3>1
    <3> QED BY <1>1, <3>1, <3>2
  <2> QED BY <1>2, <1>4, <2>1
<1> QED BY <1>2, <1>4, <1>5, <1>6 DEF At, m, n

\* Where each of the joined texts is.
Parted(s, t, p, off) ==
    /\ off \in [1..(Len(s) + 1) -> Nat]
    /\ off[1] = p
    /\ off[Len(s) + 1] = p + Len(FlattenSeq(s))
    /\ \A i \in 1..Len(s) : off[i + 1] = off[i] + Len(s[i]) /\ At(t, off[i], s[i])

\* A text made of many has each at a place of its own.
LEMMA AtFlatten ==
    ASSUME NEW s \in Seq(Seq(Symbol)), NEW t \in Seq(Symbol), NEW p,
           At(t, p, FlattenSeq(s))
    PROVE  /\ FlattenSeq(s) \in Seq(Symbol)
           /\ \E off : Parted(s, t, p, off)
<1> DEFINE n == Len(s)
           flat == FlattenSeq(s)
<1>1. n \in Nat /\ p \in Nat /\ \A i \in 1..n : s[i] \in Seq(Symbol) /\ Len(s[i]) \in Nat
  BY DEF At
<1>2. CASE n = 0
  <2>1. flat = <<>>
    BY <1>2 DEF FlattenSeq
  <2> DEFINE only == [i \in 1..(n + 1) |-> p]
  <2>2. only \in [1..(n + 1) -> Nat] /\ \A i \in 1..(n + 1) : only[i] = p
    BY <1>1
  <2> HIDE DEF only
  <2>3. Len(flat) = 0 /\ flat \in Seq(Symbol)
    BY <2>1
  <2>4. 1..n = {} /\ 1 \in 1..(n + 1) /\ n + 1 \in 1..(n + 1)
    BY <1>2
  <2>5. only[1] = p /\ only[n + 1] = p + Len(flat)
    BY <1>1, <2>2, <2>3, <2>4
  <2> HIDE DEF flat, n
  <2>6. Parted(s, t, p, only)
    BY <2>2, <2>4, <2>5 DEF flat, n, Parted
  <2> QED BY <2>3, <2>6 DEF flat
<1>3. CASE n > 0
  <2>1. flat \in Seq(Symbol)
    BY <1>3, FlattenLayout
  <2>2. PICK at \in [1..(n + 1) -> Nat] :
           /\ at[1] = 0
           /\ at[n + 1] = Len(flat)
           /\ \A i \in 1..n :
                 /\ at[i + 1] = at[i] + Len(s[i])
                 /\ \A j \in 1..Len(s[i]) :
                       /\ at[i] + j \in 1..Len(flat)
                       /\ flat[at[i] + j] = s[i][j]
    BY <1>3, FlattenLayout
  <2> DEFINE off == [i \in 1..(n + 1) |-> p + at[i]]
  <2>3. off \in [1..(n + 1) -> Nat]
    BY <1>1
  <2>4. /\ 1 \in 1..(n + 1) /\ n + 1 \in 1..(n + 1)
        /\ \A i \in 1..n : i \in 1..(n + 1) /\ i + 1 \in 1..(n + 1)
    BY <1>1
  <2>5. off[1] = p /\ off[n + 1] = p + Len(flat)
    <3>1. off[1] = p + at[1] /\ off[n + 1] = p + at[n + 1]
      BY <2>4
    <3> HIDE DEF off, flat
    <3> QED BY <1>1, <2>2, <3>1
  <2>6. p + Len(flat) <= Len(t) /\ \A j \in 1..Len(flat) : t[p + j] = flat[j]
    BY DEF At
  <2>7. Len(flat) \in Nat /\ Len(t) \in Nat
    BY <2>1
  <2> HIDE DEF flat, n
  <2>8. ASSUME NEW i \in 1..n
        PROVE  off[i + 1] = off[i] + Len(s[i])
    <3>1. at[i + 1] = at[i] + Len(s[i])
      BY <2>2
    <3>2. off[i] = p + at[i] /\ off[i + 1] = p + at[i + 1]
      BY <2>4
    <3>3. at[i] \in Nat /\ Len(s[i]) \in Nat
      BY <1>1, <2>4
    <3> HIDE DEF off
    <3> QED BY <1>1, <3>1, <3>2, <3>3
  <2>9. ASSUME NEW i \in 1..n
        PROVE  At(t, off[i], s[i])
    <3>1. at[i] \in Nat /\ Len(s[i]) \in Nat /\ off[i] = p + at[i]
      BY <1>1, <2>4
    <3> HIDE DEF off
    <3>2. ASSUME NEW j \in 1..Len(s[i])
          PROVE  t[off[i] + j] = s[i][j]
      <4>1. at[i] + j \in 1..Len(flat) /\ flat[at[i] + j] = s[i][j]
        BY <2>2
      <4>2. off[i] + j = p + (at[i] + j)
        BY <1>1, <3>1
      <4> QED BY <2>6, <4>1, <4>2
    <3>3. off[i] + Len(s[i]) <= Len(t)
      <4>1. CASE Len(s[i]) = 0
        <5>1. at[i] <= Len(flat)
          <6> DEFINE Below == {k \in Nat : k < n => at[n + 1 - k] <= Len(flat)}
          <6>1. 0 \in Below
            BY <1>1, <2>2, <2>7
          <6>2. ASSUME NEW k \in Nat, k \in Below
                PROVE  k + 1 \in Below
            <7> SUFFICES ASSUME k + 1 < n
                         PROVE  at[n + 1 - (k + 1)] <= Len(flat)
              OBVIOUS
            <7> DEFINE h == n + 1 - (k + 1)
            <7>1. k < n /\ h \in 1..n /\ h + 1 = n + 1 - k
              BY <1>1
            <7>2. at[h + 1] <= Len(flat)
              BY <6>2, <7>1
            <7>3. at[h + 1] = at[h] + Len(s[h]) /\ Len(s[h]) \in Nat /\ at[h] \in Nat
              BY <1>1, <2>2, <2>4, <7>1
            <7> HIDE DEF h
            <7>4. at[h] <= Len(flat)
              BY <2>7, <7>2, <7>3
            <7> QED BY <7>4 DEF h
          <6> HIDE DEF Below
          <6>3. Nat \subseteq Below
            BY <6>1, <6>2, Induction
          <6>4. CASE i = 1
            BY <2>2, <2>7, <6>4
          <6>5. CASE i # 1
            <7>1. n + 1 - i \in Nat /\ n + 1 - i < n /\ n + 1 - (n + 1 - i) = i
              BY <1>1, <6>5
            <7>2. n + 1 - i \in Below
              BY <6>3, <7>1
            <7>3. at[n + 1 - (n + 1 - i)] <= Len(flat)
              BY <7>1, <7>2 DEF Below
            <7> QED BY <7>1, <7>3
          <6> QED BY <6>4, <6>5
        <5> QED BY <1>1, <2>6, <2>7, <3>1, <4>1, <5>1
      <4>2. CASE Len(s[i]) > 0
        <5>1. Len(s[i]) \in 1..Len(s[i])
          BY <3>1, <4>2
        <5>2. at[i] + Len(s[i]) \in 1..Len(flat)
          BY <2>2, <5>1
        <5>3. p + Len(flat) <= Len(t) /\ p \in Nat
          BY <1>1, <2>6
        <5>4. off[i] + Len(s[i]) = p + (at[i] + Len(s[i]))
          BY <3>1, <5>3
        <5> QED BY <2>7, <3>1, <5>2, <5>3, <5>4
      <4> QED BY <3>1, <4>1, <4>2
    <3>4. off[i] \in Nat
      BY <1>1, <3>1
    <3> QED BY <3>2, <3>3, <3>4 DEF At
  <2>10. Parted(s, t, p, off)
    BY <2>3, <2>5, <2>8, <2>9 DEF n, flat, Parted
  <2> QED BY <2>1, <2>10 DEF flat
<1>4. n = 0 \/ n > 0
  BY <1>1
<1> QED BY <1>2, <1>3, <1>4, Zenon

\* A text of one symbol.
LEMMA OneSymbol ==
    ASSUME NEW c \in Symbol
    PROVE  /\ <<c>> \in Seq(Symbol) /\ Len(<<c>>) = 1 /\ <<c>>[1] = c
           /\ \A t, p : At(t, p, <<c>>) => Has(t, p + 1, c)
<1>1. <<c>> \in Seq(Symbol) /\ Len(<<c>>) = 1 /\ <<c>>[1] = c
  OBVIOUS
<1>2. ASSUME NEW t, NEW p, At(t, p, <<c>>)
      PROVE  Has(t, p + 1, c)
  <2>1. p \in Nat /\ p + 1 <= Len(t) /\ \A i \in 1..1 : t[p + i] = <<c>>[i]
    BY <1>1, <1>2 DEF At
  <2>2. 1 \in 1..1
    OBVIOUS
  <2> QED BY <1>1, <2>1, <2>2 DEF Has
<1> QED BY <1>1, <1>2

\* What json.dumps writes for a symbol.
LEMMA EscapedIs ==
    ASSUME NEW c \in Symbol
    PROVE  /\ Escaped(c) \in Seq(Symbol) /\ Len(Escaped(c)) >= 1
           /\ c \in {Quote, Backslash} =>
                /\ Len(Escaped(c)) = 2
                /\ Escaped(c)[1] = Backslash /\ Escaped(c)[2] = c
           /\ c = Special =>
                /\ Len(Escaped(c)) = 2
                /\ Escaped(c)[1] = Backslash /\ Escaped(c)[2] = "u00e9"
           /\ c \notin {Quote, Backslash, Special} =>
                Len(Escaped(c)) = 1 /\ Escaped(c)[1] = c
<1>1. Backslash \in Symbol /\ "u00e9" \in Symbol /\ Special \notin {Quote, Backslash}
  BY Symbols
<1>2. CASE c \in {Quote, Backslash}
  <2>1. Escaped(c) = <<Backslash, c>>
    BY <1>1, <1>2 DEF Escaped
  <2> QED BY <1>1, <1>2, <2>1
<1>3. CASE c = Special
  <2>1. Escaped(c) = <<Backslash, "u00e9">>
    BY <1>1, <1>3 DEF Escaped
  <2> QED BY <1>1, <1>3, <2>1
<1>4. CASE c \notin {Quote, Backslash, Special}
  <2>1. Escaped(c) = <<c>>
    BY <1>4 DEF Escaped
  <2> QED BY <1>4, <2>1
<1> QED BY <1>2, <1>3, <1>4

Escapes(v) == [i \in DOMAIN v |-> Escaped(v[i])]

\* What dumps writes for a text.
LEMMA StringLayout ==
    ASSUME NEW v \in Seq(Symbol)
    PROVE  /\ String(v) \in Seq(Symbol)
           /\ \A p : \A t \in Seq(Symbol) : At(t, p, String(v)) =>
                \E off \in [1..(Len(v) + 1) -> Nat] :
                   /\ off[1] = p + 1 /\ Has(t, p + 1, Quote)
                   /\ \A i \in 1..Len(v) :
                         /\ off[i + 1] = off[i] + Len(Escaped(v[i]))
                         /\ At(t, off[i], Escaped(v[i]))
                   /\ off[Len(v) + 1] + 1 = p + Len(String(v))
                   /\ Has(t, off[Len(v) + 1] + 1, Quote)
<1> DEFINE e == Escapes(v)
           flat == FlattenSeq(e)
           q == <<Quote>>
<1>1. /\ e \in Seq(Seq(Symbol)) /\ Len(e) = Len(v)
      /\ \A i \in 1..Len(v) : e[i] = Escaped(v[i])
  <2>1. DOMAIN v = 1..Len(v) /\ Len(v) \in Nat /\ \A i \in 1..Len(v) : v[i] \in Symbol
    OBVIOUS
  <2>2. e = [i \in 1..Len(v) |-> Escaped(v[i])]
    BY <2>1 DEF Escapes
  <2>3. \A i \in 1..Len(v) : Escaped(v[i]) \in Seq(Symbol)
    BY <2>1, EscapedIs
  <2> HIDE DEF e
  <2> QED BY <2>1, <2>2, <2>3
<1>2. String(v) = (q \o flat) \o q
  BY DEF String, Escapes
<1>3. flat \in Seq(Symbol)
  <2>1. CASE Len(e) > 0
    BY <1>1, <2>1, FlattenLayout
  <2>2. CASE Len(e) = 0
    BY <1>1, <2>2 DEF FlattenSeq
  <2> QED BY <1>1, <2>1, <2>2
<1> HIDE DEF flat, e
<1>4. q \in Seq(Symbol) /\ Len(q) = 1 /\ Quote \in Symbol
  <2>1. Quote \in Symbol
    BY Symbols
  <2> QED BY <2>1, OneSymbol
<1>5. q \o flat \in Seq(Symbol) /\ Len(q \o flat) = 1 + Len(flat)
  BY <1>3, <1>4, Joined
<1>6. String(v) \in Seq(Symbol) /\ Len(String(v)) = 1 + Len(flat) + 1
  BY <1>2, <1>4, <1>5, Joined
<1>7. ASSUME NEW t \in Seq(Symbol), NEW p, At(t, p, String(v))
      PROVE  \E off \in [1..(Len(v) + 1) -> Nat] :
                /\ off[1] = p + 1 /\ Has(t, p + 1, Quote)
                /\ \A i \in 1..Len(v) :
                      /\ off[i + 1] = off[i] + Len(Escaped(v[i]))
                      /\ At(t, off[i], Escaped(v[i]))
                /\ off[Len(v) + 1] + 1 = p + Len(String(v))
                /\ Has(t, off[Len(v) + 1] + 1, Quote)
  <2>1. At(t, p, q \o flat) /\ At(t, p + (1 + Len(flat)), q)
    BY <1>2, <1>4, <1>5, <1>7, AtJoined
  <2>2. At(t, p, q) /\ At(t, p + 1, flat)
    BY <1>3, <1>4, <2>1, AtJoined
  <2>3. PICK off : Parted(e, t, p + 1, off)
    BY <1>1, <2>2, AtFlatten DEF flat
  <2>4. /\ off \in [1..(Len(v) + 1) -> Nat]
        /\ off[1] = p + 1
        /\ off[Len(v) + 1] = (p + 1) + Len(flat)
        /\ \A i \in 1..Len(v) : off[i + 1] = off[i] + Len(e[i]) /\ At(t, off[i], e[i])
    BY <1>1, <2>3 DEF Parted, flat
  <2>5. p \in Nat /\ Len(flat) \in Nat
    BY <1>3, <1>7 DEF At
  <2>6. Has(t, p + 1, Quote) /\ Has(t, p + (1 + Len(flat)) + 1, Quote)
    BY <1>4, <2>1, <2>2, OneSymbol
  <2>7. off[Len(v) + 1] = (p + 1) + Len(flat)
    BY <2>4
  <2>8. /\ off[Len(v) + 1] + 1 = p + Len(String(v))
        /\ off[Len(v) + 1] + 1 = p + (1 + Len(flat)) + 1
    BY <1>6, <2>5, <2>7
  <2>9. \A i \in 1..Len(v) : /\ off[i + 1] = off[i] + Len(Escaped(v[i]))
                             /\ At(t, off[i], Escaped(v[i]))
    BY <1>1, <2>4
  <2> QED BY <2>4, <2>6, <2>8, <2>9
<1> QED BY <1>6, <1>7

\* A text that extract_json_string reads into a buffer of that size.
Extracts(v, cap) ==
    /\ \A i \in DOMAIN v : v[i] # Special
    /\ Characters(v) < cap

\* A text is extracted symbol by symbol.
LEMMA ExtractsAppend ==
    ASSUME NEW v \in Seq(Symbol), NEW c \in Symbol, NEW cap \in Nat
    PROVE  Extracts(Append(v, c), cap) <=>
             Extracts(v, cap) /\ c # Special /\ Characters(Append(v, c)) < cap
<1> DEFINE w == Append(v, c)
           n == Len(v)
<1>1. /\ w \in Seq(Symbol) /\ DOMAIN w = 1..(n + 1) /\ DOMAIN v = 1..n /\ n \in Nat
      /\ w[n + 1] = c /\ \A i \in 1..n : w[i] = v[i]
  OBVIOUS
<1>2. Characters(w) = Characters(v) + WidthOf(c)
  BY CharactersOfAppend
<1>3. Characters(v) \in Nat /\ WidthOf(c) \in Nat
  BY CharactersOfAppend, WidthAssumption DEF WidthOf
<1> HIDE DEF w, n
<1>4. (\A i \in 1..(n + 1) : w[i] # Special) <=>
        (\A i \in 1..n : v[i] # Special) /\ c # Special
  <2>1. \A i \in 1..(n + 1) : i \in 1..n \/ i = n + 1
    BY <1>1
  <2>2. n + 1 \in 1..(n + 1) /\ \A i \in 1..n : i \in 1..(n + 1)
    BY <1>1
  <2> QED BY <1>1, <2>1, <2>2
<1>5. Characters(w) < cap => Characters(v) < cap
  BY <1>2, <1>3
<1> QED BY <1>1, <1>4, <1>5 DEF Extracts, w

\* The first symbols of a text, and one more.
LEMMA LongerPart ==
    ASSUME NEW v \in Seq(Symbol), NEW k \in Nat, k < Len(v)
    PROVE  /\ SubSeq(v, 1, k) \in Seq(Symbol) /\ v[k + 1] \in Symbol
           /\ SubSeq(v, 1, k + 1) = Append(SubSeq(v, 1, k), v[k + 1])
<1>1. /\ 1 \in 1..Len(v) /\ k + 1 \in 1..Len(v) /\ (k + 1) - 1 = k
      /\ v[k + 1] \in Symbol
  OBVIOUS
<1>2. /\ SubSeq(v, 1, (k + 1) - 1) \in Seq(Symbol)
      /\ SubSeq(v, 1, k + 1) = Append(SubSeq(v, 1, (k + 1) - 1), v[k + 1])
  BY <1>1, OneMore
<1> QED BY <1>1, <1>2

\* One pass of the loop takes one symbol of the text that dumps was given.
LEMMA PassOfEscaped ==
    ASSUME NEW t \in Seq(Symbol), NEW cap \in Nat, NEW s \in StringState,
           s.state = "reading", NEW c \in Symbol, NEW o \in Nat, s.next = o + 1,
           At(t, o, Escaped(c))
    PROVE  LET u == StringPass(t, cap, s)
           IN  IF c # Special /\ Characters(Append(s.value, c)) < cap
               THEN /\ u.state = "reading" /\ u.value = Append(s.value, c)
                    /\ u.next = o + Len(Escaped(c)) + 1
               ELSE u.state = "failed"
<1> DEFINE u == StringPass(t, cap, s)
           e == Escaped(c)
           fits == Characters(Append(s.value, c)) < cap
<1>1. /\ o + Len(e) <= Len(t) /\ \A i \in 1..Len(e) : t[o + i] = e[i]
      /\ Len(t) \in Nat /\ Len(e) \in Nat
  <2>1. e \in Seq(Symbol)
    BY EscapedIs
  <2> HIDE DEF e
  <2> QED BY <2>1 DEF At, e
<1>2. /\ Quote # Backslash /\ Special \notin {Quote, Backslash}
      /\ "u00e9" \notin {Quote, Backslash, Slash}
  BY Symbols
<1>3. ASSUME NEW next \in Nat \ {0}
      PROVE  IF fits
             THEN /\ Taken(s, c, cap, next).state = "reading"
                  /\ Taken(s, c, cap, next).value = Append(s.value, c)
                  /\ Taken(s, c, cap, next).next = next
             ELSE Taken(s, c, cap, next).state = "failed"
  BY TakenIs
<1> HIDE DEF u, e, fits
<1>4. CASE c \notin {Quote, Backslash, Special}
  <2>1. Len(e) = 1 /\ e[1] = c
    BY <1>4, EscapedIs DEF e
  <2>2. o + 1 <= Len(t) /\ t[o + 1] = c
    BY <1>1, <2>1
  <2>3. u = Taken(s, c, cap, (o + 1) + 1)
    <3>1. s.next <= Len(t) /\ t[s.next] = c
      BY <2>2
    <3>2. u = Taken(s, t[s.next], cap, s.next + 1)
      BY <1>4, <3>1, PassOfString DEF u
    <3> QED BY <3>1, <3>2
  <2>4. (o + 1) + 1 \in Nat \ {0} /\ (o + 1) + 1 = o + Len(e) + 1
    BY <2>1
  <2> QED BY <1>3, <1>4, <2>3, <2>4 DEF u, e, fits
<1>5. CASE c \in {Quote, Backslash}
  <2>1. Len(e) = 2 /\ e[1] = Backslash /\ e[2] = c
    BY <1>5, EscapedIs DEF e
  <2>2. o + 2 <= Len(t) /\ t[o + 1] = Backslash /\ t[o + 2] = c
    BY <1>1, <2>1
  <2>3. u = Taken(s, c, cap, (o + 1) + 2)
    <3>1. Has(t, s.next, Backslash) /\ s.next + 1 = o + 2 /\ s.next + 2 = (o + 1) + 2
      BY <1>1, <2>2 DEF Has
    <3>2. s.next + 1 <= Len(t) /\ t[s.next + 1] = c
      BY <2>2, <3>1
    <3>3. u = Taken(s, t[s.next + 1], cap, s.next + 2)
      BY <1>5, <3>1, <3>2, PassOfString DEF u
    <3> QED BY <3>1, <3>2, <3>3
  <2>4. (o + 1) + 2 \in Nat \ {0} /\ (o + 1) + 2 = o + Len(e) + 1
    BY <2>1
  <2>5. c # Special
    BY <1>2, <1>5
  <2> QED BY <1>3, <2>3, <2>4, <2>5 DEF u, e, fits
<1>6. CASE c = Special
  <2>1. Len(e) = 2 /\ e[1] = Backslash /\ e[2] = "u00e9"
    BY <1>6, EscapedIs DEF e
  <2>2. o + 2 <= Len(t) /\ t[o + 1] = Backslash /\ t[o + 2] = "u00e9"
    BY <1>1, <2>1
  <2>3. Has(t, s.next, Backslash) /\ s.next + 1 = o + 2
    BY <1>1, <2>2 DEF Has
  <2>4. t[s.next + 1] \notin {Quote, Backslash, Slash}
    BY <1>2, <2>2, <2>3
  <2>5. u.state = "failed"
    BY <2>3, <2>4, PassOfString DEF u
  <2> QED BY <1>6, <2>5 DEF u
<1> QED BY <1>4, <1>5, <1>6

\* A text that dumps has written is read back, if it can be read at all.
LEMMA ReadString ==
    ASSUME NEW t \in Seq(Symbol), NEW v \in Seq(Symbol), NEW cap \in Nat, cap > 0,
           NEW p, At(t, p, String(v))
    PROVE  LET e == extract_json_string(t, p + 1, cap)
           IN  IF Extracts(v, cap)
               THEN e.state = "ok" /\ e.value = v /\ e.next = p + Len(String(v)) + 1
               ELSE e.state = "failed"
<1> DEFINE n == Len(v)
           e == extract_json_string(t, p + 1, cap)
           part(k) == SubSeq(v, 1, k)
<1>1. PICK off \in [1..(n + 1) -> Nat] :
         /\ off[1] = p + 1 /\ Has(t, p + 1, Quote)
         /\ \A i \in 1..n : /\ off[i + 1] = off[i] + Len(Escaped(v[i]))
                            /\ At(t, off[i], Escaped(v[i]))
         /\ off[n + 1] + 1 = p + Len(String(v))
         /\ Has(t, off[n + 1] + 1, Quote)
  BY StringLayout
<1>2. p \in Nat /\ n \in Nat /\ p + 1 \in Nat
  BY DEF At
<1>3. PICK f : StringRun(t, p + 1, cap, f)
  BY <1>2, StringLoop
<1>4. part(0) = <<>> /\ part(n) = v
  OBVIOUS
<1>5. Extracts(<<>>, cap)
  <2>1. DOMAIN <<>> = {}
    OBVIOUS
  <2> QED BY <2>1, CharactersOfAppend DEF Extracts
<1> DEFINE Read(k) == IF Extracts(part(k), cap)
                      THEN /\ f[k].state = "reading" /\ f[k].value = part(k)
                           /\ f[k].next = off[k + 1] + 1
                      ELSE f[k].state = "failed"
           Good == {k \in Nat : k <= n => k <= off[k + 1] /\ Read(k)}
<1> HIDE DEF n, part
<1>6. 0 \in Good
  <2>1. f[0] = StringStart(t, p + 1)
    BY <1>3 DEF StringRun
  <2>2. f[0].state = "reading" /\ f[0].value = <<>> /\ f[0].next = off[0 + 1] + 1
    BY <1>1, <2>1 DEF StringStart
  <2>3. Read(0)
    BY <1>4, <1>5, <2>2
  <2>4. 0 <= off[0 + 1]
    BY <1>1, <1>2
  <2> HIDE DEF Read
  <2> QED BY <2>3, <2>4
<1>7. ASSUME NEW k \in Nat, k <= n, k <= off[k + 1]
      PROVE  k <= Len(t)
  <2>1. off[n + 1] + 1 <= Len(t)
    BY <1>1 DEF Has
  <2>2. CASE k = n
    <3>1. off[n + 1] \in Nat /\ Len(t) \in Nat
      BY <1>1, <1>2
    <3> QED BY <1>2, <1>7, <2>1, <2>2, <3>1
  <2>3. CASE k # n
    <3>1. k + 1 \in 1..n /\ k + 1 \in 1..(n + 1)
      BY <1>2, <1>7, <2>3
    <3>2. At(t, off[k + 1], Escaped(v[k + 1])) /\ off[k + 1] \in Nat
      BY <1>1, <3>1
    <3>3. v[k + 1] \in Symbol
      BY <3>1 DEF n
    <3>4. Len(Escaped(v[k + 1])) \in Nat /\ Len(t) \in Nat
      BY <3>3, EscapedIs
    <3> QED BY <1>7, <3>2, <3>4 DEF At
  <2> QED BY <2>2, <2>3
<1>8. ASSUME NEW k \in Nat, k \in Good
      PROVE  k + 1 \in Good
  <2> SUFFICES ASSUME k + 1 <= n
               PROVE  k + 1 <= off[(k + 1) + 1] /\ Read(k + 1)
    OBVIOUS
  <2> DEFINE c == v[k + 1]
             o == off[k + 1]
  <2>1. k <= n /\ k < n /\ k + 1 \in 1..n /\ k + 1 \in 1..(n + 1)
    BY <1>2
  <2>2. k <= o /\ Read(k)
    BY <1>8, <2>1
  <2>3. /\ part(k) \in Seq(Symbol) /\ c \in Symbol
        /\ part(k + 1) = Append(part(k), c)
    BY <2>1, LongerPart DEF n, part
  <2>4. /\ o \in Nat /\ off[(k + 1) + 1] = o + Len(Escaped(c))
        /\ At(t, o, Escaped(c))
    BY <1>1, <2>1
  <2>5. Len(Escaped(c)) \in Nat /\ Len(Escaped(c)) >= 1
    BY <2>3, EscapedIs
  <2>6. k <= Len(t)
    BY <1>7, <2>1, <2>2
  <2>7. f[k] \in StringState /\ f[k + 1] = StringPass(t, cap, f[k])
    BY <1>3, <2>6, StringNext
  <2> HIDE DEF c, o
  <2>8. Extracts(part(k + 1), cap) <=>
          /\ Extracts(part(k), cap) /\ c # Special
          /\ Characters(Append(part(k), c)) < cap
    <3>1. Extracts(Append(part(k), c), cap) <=>
            /\ Extracts(part(k), cap) /\ c # Special
            /\ Characters(Append(part(k), c)) < cap
      BY <2>3, ExtractsAppend
    <3> QED BY <2>3, <3>1
  <2>9. k + 1 <= off[(k + 1) + 1]
    BY <2>2, <2>4, <2>5
  <2>10. CASE ~Extracts(part(k), cap)
    <3>1. f[k].state = "failed"
      BY <2>2, <2>10
    <3>2. f[k].state # "reading"
      BY <3>1
    <3>3. f[k + 1] = f[k]
      BY <2>7, <3>2, PassOfString
    <3>4. Read(k + 1)
      BY <2>8, <2>10, <3>1, <3>3
    <3> QED BY <2>9, <3>4
  <2>11. CASE Extracts(part(k), cap)
    <3>1. f[k].state = "reading" /\ f[k].value = part(k) /\ f[k].next = o + 1
      BY <2>2, <2>11 DEF o
    <3>2. IF c # Special /\ Characters(Append(f[k].value, c)) < cap
          THEN /\ f[k + 1].state = "reading" /\ f[k + 1].value = Append(f[k].value, c)
               /\ f[k + 1].next = o + Len(Escaped(c)) + 1
          ELSE f[k + 1].state = "failed"
      <4> DEFINE s == f[k]
      <4>1. s \in StringState /\ s.state = "reading" /\ s.next = o + 1
        BY <2>7, <3>1
      <4>2. f[k + 1] = StringPass(t, cap, s)
        BY <2>7
      <4>3. c \in Symbol /\ o \in Nat /\ At(t, o, Escaped(c))
        BY <2>3, <2>4
      <4> HIDE DEF s
      <4>4. IF c # Special /\ Characters(Append(s.value, c)) < cap
            THEN /\ StringPass(t, cap, s).state = "reading"
                 /\ StringPass(t, cap, s).value = Append(s.value, c)
                 /\ StringPass(t, cap, s).next = o + Len(Escaped(c)) + 1
            ELSE StringPass(t, cap, s).state = "failed"
        BY <4>1, <4>3, PassOfEscaped
      <4> QED BY <4>2, <4>4 DEF s
    <3>3. Read(k + 1)
      BY <2>3, <2>4, <2>8, <2>11, <3>1, <3>2
    <3> QED BY <2>9, <3>3
  <2> QED BY <2>10, <2>11
<1> HIDE DEF Good
<1>9. Nat \subseteq Good
  BY <1>6, <1>8, Induction
<1>10. n <= off[n + 1] /\ Read(n)
  BY <1>2, <1>9 DEF Good
<1>11. n <= Len(t) /\ Len(t) \in Nat
  BY <1>2, <1>7, <1>10
<1>12. CASE ~Extracts(v, cap)
  <2>1. f[n].state = "failed"
    BY <1>4, <1>10, <1>12
  <2>2. n <= Len(t) + 1 /\ f[n].state # "reading"
    BY <1>2, <1>11, <2>1
  <2>3. e = f[n]
    BY <1>2, <1>3, <2>2, StringSettles
  <2> QED BY <1>12, <2>1, <2>3
<1>13. CASE Extracts(v, cap)
  <2>1. f[n].state = "reading" /\ f[n].value = v /\ f[n].next = off[n + 1] + 1
    BY <1>4, <1>10, <1>13
  <2>2. f[n] \in StringState /\ f[n + 1] = StringPass(t, cap, f[n])
    BY <1>2, <1>3, <1>11, StringNext
  <2>3. f[n + 1].state = "ok" /\ f[n + 1].value = v /\ f[n + 1].next = off[n + 1] + 1 + 1
    BY <1>1, <2>1, <2>2, PassOfString
  <2>4. n + 1 \in Nat /\ n + 1 <= Len(t) + 1 /\ f[n + 1].state # "reading"
    BY <1>2, <1>11, <2>3
  <2>5. e = f[n + 1]
    BY <1>2, <1>3, <2>4, StringSettles
  <2>6. e.next = p + Len(String(v)) + 1
    BY <1>1, <2>3, <2>5
  <2> QED BY <1>13, <2>3, <2>5, <2>6
<1> QED BY <1>12, <1>13

\* A text of two symbols.
LEMMA AtTwo ==
    ASSUME NEW t, NEW p, NEW a \in Symbol, NEW b \in Symbol, At(t, p, <<a, b>>)
    PROVE  Has(t, p + 1, a) /\ Has(t, p + 2, b)
<1>1. Len(<<a, b>>) = 2 /\ <<a, b>>[1] = a /\ <<a, b>>[2] = b
  OBVIOUS
<1>2. p \in Nat /\ p + 2 <= Len(t) /\ \A i \in 1..2 : t[p + i] = <<a, b>>[i]
  BY <1>1 DEF At
<1>3. 1 \in 1..2 /\ 2 \in 1..2 /\ (p + 2 <= Len(t) => p + 1 <= Len(t))
  <2>1. CASE Len(t) \in Int
    BY <1>2, <2>1
  <2> QED BY <1>2
<1> QED BY <1>1, <1>2, <1>3 DEF Has

\* What dumps writes for a key and its value.
LEMMA MemberLayout ==
    ASSUME NEW k \in Symbol, NEW w \in Seq(Symbol)
    PROVE  /\ Member(k, w) \in Seq(Symbol)
           /\ Len(Member(k, w)) = Len(String(<<k>>)) + 2 + Len(w)
           /\ \A p : \A t \in Seq(Symbol) : At(t, p, Member(k, w)) =>
                /\ At(t, p, String(<<k>>))
                /\ Has(t, p + Len(String(<<k>>)) + 1, ":")
                /\ Has(t, p + Len(String(<<k>>)) + 2, Space)
                /\ At(t, p + Len(String(<<k>>)) + 2, w)
<1> DEFINE x == String(<<k>>)
           y == <<":", Space>>
<1>1. x \in Seq(Symbol) /\ Len(x) \in Nat
  <2>1. <<k>> \in Seq(Symbol)
    OBVIOUS
  <2>2. x \in Seq(Symbol)
    BY <2>1, StringLayout
  <2> HIDE DEF x
  <2> QED BY <2>2
<1>2. ":" \in Symbol /\ Space \in Symbol
  BY Symbols
<1>3. y \in Seq(Symbol) /\ Len(y) = 2
  BY <1>2
<1>4. Member(k, w) = (x \o y) \o w
  BY DEF Member
<1> HIDE DEF x, y
<1>5. x \o y \in Seq(Symbol) /\ Len(x \o y) = Len(x) + 2
  <2>1. x \o y \in Seq(Symbol) /\ Len(x \o y) = Len(x) + Len(y)
    BY <1>1, <1>3, Joined, Zenon
  <2> QED BY <1>3, <2>1
<1>6. Member(k, w) \in Seq(Symbol) /\ Len(Member(k, w)) = Len(x) + 2 + Len(w)
  <2>1. /\ (x \o y) \o w \in Seq(Symbol)
        /\ Len((x \o y) \o w) = Len(x \o y) + Len(w)
    BY <1>5, Joined, Zenon
  <2> QED BY <1>4, <1>5, <2>1
<1>7. ASSUME NEW p, NEW t \in Seq(Symbol), At(t, p, Member(k, w))
      PROVE  /\ At(t, p, x) /\ Has(t, p + Len(x) + 1, ":")
             /\ Has(t, p + Len(x) + 2, Space) /\ At(t, p + Len(x) + 2, w)
  <2>1. At(t, p, x \o y) /\ At(t, p + (Len(x) + 2), w)
    BY <1>4, <1>5, <1>7, AtJoined
  <2>2. At(t, p, x) /\ At(t, p + Len(x), y)
    BY <1>1, <1>3, <2>1, AtJoined
  <2>3. Has(t, p + Len(x) + 1, ":") /\ Has(t, p + Len(x) + 2, Space)
    BY <1>2, <2>2, AtTwo DEF y
  <2>4. p \in Nat /\ p + (Len(x) + 2) = p + Len(x) + 2
    BY <1>1, <1>7 DEF At
  <2> QED BY <2>1, <2>2, <2>3, <2>4
<1> QED BY <1>6, <1>7 DEF x

\* Where a value is after a key, a colon and a blank.
LEMMA SkipBlank ==
    ASSUME NEW t \in Seq(Symbol), NEW p \in Nat, p >= 1
    PROVE  /\ \A c : Has(t, p, c) /\ c # Space => skip_json_whitespace(t, p) = p
           /\ \A c : Has(t, p, Space) /\ Has(t, p + 1, c) /\ c # Space =>
                skip_json_whitespace(t, p) = p + 1
  BY SkipOne DEF Has

\* The keys of a file fit their buffer.
LEMMA Keys16 ==
    ASSUME NEW k \in {"path", "sha256"}
    PROVE  k \in Symbol /\ <<k>> \in Seq(Symbol) /\ Extracts(<<k>>, 16)
<1>1. k \in Symbol /\ k # Special /\ k \in DOMAIN Width /\ Width[k] < 16 /\ Width[k] \in Nat
  BY Symbols, WidthAssumption
<1>2. <<k>> \in Seq(Symbol) /\ <<k>> = Append(<<>>, k) /\ <<>> \in Seq(Symbol)
      /\ DOMAIN <<k>> = 1..1 /\ <<k>>[1] = k
  BY <1>1
<1>3. Characters(<<k>>) = 0 + WidthOf(k)
  BY <1>1, <1>2, CharactersOfAppend
<1>4. Characters(<<k>>) < 16
  BY <1>1, <1>3 DEF WidthOf
<1>5. \A i \in 1..1 : <<k>>[i] # Special
  BY <1>1, <1>2
<1> QED BY <1>1, <1>2, <1>4, <1>5 DEF Extracts

\* A key of a file and its value are read as they were written.
LEMMA ReadField ==
    ASSUME NEW t \in Seq(Symbol), NEW p, NEW k \in {"path", "sha256"},
           NEW v \in Seq(Symbol), At(t, p, Member(k, String(v)))
    PROVE  LET value == FieldValue(t, p + 1)
           IN  /\ FieldKey(t, p + 1).value = <<k>>
               /\ FieldRead(t, p + 1) <=> Extracts(v, IF k = "path" THEN 256 ELSE 65)
               /\ FieldRead(t, p + 1) =>
                    value.value = v /\ value.next = p + Len(Member(k, String(v))) + 1
<1> DEFINE x == String(<<k>>)
           w == String(v)
           q == p + Len(x)
           cap == IF k = "path" THEN 256 ELSE 65
<1>1. k \in Symbol /\ <<k>> \in Seq(Symbol) /\ Extracts(<<k>>, 16)
  BY Keys16
<1>2. w \in Seq(Symbol) /\ Len(w) \in Nat /\ x \in Seq(Symbol) /\ Len(x) \in Nat
  <2>1. w \in Seq(Symbol) /\ x \in Seq(Symbol)
    BY <1>1, StringLayout
  <2> HIDE DEF w, x
  <2> QED BY <2>1
<1>3. /\ At(t, p, x) /\ Has(t, q + 1, ":") /\ Has(t, q + 2, Space) /\ At(t, q + 2, w)
      /\ Len(Member(k, w)) = Len(x) + 2 + Len(w)
  BY <1>1, <1>2, MemberLayout
<1>4. p \in Nat /\ q \in Nat
  BY <1>2 DEF At
<1>5. /\ FieldKey(t, p + 1).state = "ok" /\ FieldKey(t, p + 1).value = <<k>>
      /\ FieldKey(t, p + 1).next = q + 1
  <2>1. 16 \in Nat /\ 16 > 0
    OBVIOUS
  <2> QED BY <1>1, <1>3, <2>1, ReadString DEF FieldKey
<1> HIDE DEF q, w, x
<1>6. FieldColon(t, p + 1) = q + 1
  <2>1. q + 1 \in Nat /\ q + 1 >= 1
    BY <1>4
  <2>2. ":" # Space
    BY Symbols
  <2> QED BY <1>3, <1>5, <2>1, <2>2, SkipBlank DEF FieldColon
<1>7. Has(t, q + 2 + 1, Quote)
  BY <1>3, StringLayout DEF w
<1>8. FieldValueAt(t, p + 1) = q + 2 + 1
  <2>1. q + 2 \in Nat /\ q + 2 >= 1 /\ (q + 1) + 1 = q + 2
    BY <1>4
  <2>2. Quote # Space
    BY Symbols
  <2> QED BY <1>3, <1>6, <1>7, <2>1, <2>2, SkipBlank DEF FieldValueAt
<1>9. FieldValue(t, p + 1) = extract_json_string(t, q + 2 + 1, cap)
  <2>1. <<k>> = <<"path">> <=> k = "path"
    OBVIOUS
  <2> QED BY <1>5, <1>8, <2>1 DEF FieldValue
<1>10. cap \in Nat /\ cap > 0
  OBVIOUS
<1> HIDE DEF cap
<1>11. IF Extracts(v, cap)
       THEN /\ FieldValue(t, p + 1).state = "ok" /\ FieldValue(t, p + 1).value = v
            /\ FieldValue(t, p + 1).next = q + 2 + Len(w) + 1
       ELSE FieldValue(t, p + 1).state = "failed"
  BY <1>3, <1>9, <1>10, ReadString DEF w
<1>12. FieldRead(t, p + 1) <=> Extracts(v, cap)
  <2>1. Has(t, FieldColon(t, p + 1), ":")
    BY <1>3, <1>6
  <2> QED BY <1>5, <1>11, <2>1 DEF FieldRead
<1>13. q + 2 + Len(w) + 1 = p + Len(Member(k, w)) + 1
  BY <1>2, <1>3, <1>4 DEF q
<1> QED BY <1>5, <1>11, <1>12, <1>13 DEF w, cap

\* A text between two symbols.
LEMMA EnclosedLayout ==
    ASSUME NEW a \in Symbol, NEW b \in Symbol, NEW x \in Seq(Symbol)
    PROVE  /\ <<a>> \o x \o <<b>> \in Seq(Symbol)
           /\ Len(<<a>> \o x \o <<b>>) = Len(x) + 2
           /\ \A p : \A t \in Seq(Symbol) : At(t, p, <<a>> \o x \o <<b>>) =>
                Has(t, p + 1, a) /\ At(t, p + 1, x) /\ Has(t, p + 1 + Len(x) + 1, b)
<1> DEFINE y == <<a>>
           z == <<b>>
<1>1. y \in Seq(Symbol) /\ Len(y) = 1 /\ z \in Seq(Symbol) /\ Len(z) = 1 /\ Len(x) \in Nat
  BY OneSymbol
<1> HIDE DEF y, z
<1>2. y \o x \in Seq(Symbol) /\ Len(y \o x) = 1 + Len(x)
  <2>1. y \o x \in Seq(Symbol) /\ Len(y \o x) = Len(y) + Len(x)
    BY <1>1, Joined, Zenon
  <2> QED BY <1>1, <2>1
<1>3. (y \o x) \o z \in Seq(Symbol) /\ Len((y \o x) \o z) = Len(x) + 2
  <2>1. (y \o x) \o z \in Seq(Symbol) /\ Len((y \o x) \o z) = Len(y \o x) + Len(z)
    BY <1>1, <1>2, Joined, Zenon
  <2> QED BY <1>1, <1>2, <2>1
<1>4. ASSUME NEW p, NEW t \in Seq(Symbol), At(t, p, (y \o x) \o z)
      PROVE  Has(t, p + 1, a) /\ At(t, p + 1, x) /\ Has(t, p + 1 + Len(x) + 1, b)
  <2>1. At(t, p, y \o x) /\ At(t, p + (1 + Len(x)), z)
    BY <1>1, <1>2, <1>4, AtJoined
  <2>2. At(t, p, y) /\ At(t, p + 1, x)
    BY <1>1, <2>1, AtJoined
  <2>3. p \in Nat
    BY <1>4 DEF At
  <2>4. p + (1 + Len(x)) = p + 1 + Len(x)
    BY <1>1, <2>3
  <2>5. Has(t, p + 1, a)
    BY <2>2, OneSymbol DEF y
  <2>6. Has(t, p + (1 + Len(x)) + 1, b)
    BY <2>1, OneSymbol DEF z
  <2> QED BY <2>2, <2>4, <2>5, <2>6
<1> QED BY <1>3, <1>4 DEF y, z

\* What dumps writes for the items of a list or of an object.
Placed(items, t, p, off) ==
    /\ off \in [1..(Len(items) + 1) -> Nat]
    /\ off[1] = p /\ off[Len(items) + 1] = p + Len(Separated(items))
    /\ \A i \in 1..Len(items) :
          /\ off[i + 1] = off[i] + (Len(items[i]) + 2)
          /\ Has(t, off[i] + 1, Space) /\ At(t, off[i] + 1, items[i])
          /\ Has(t, off[i] + 1 + Len(items[i]) + 1,
                 IF i < Len(items) THEN "," ELSE Space)

\* Where the items of a list or of an object are.
LEMMA SeparatedLayout ==
    ASSUME NEW items \in Seq(Seq(Symbol))
    PROVE  /\ Separated(items) \in Seq(Symbol)
           /\ \A p : \A t \in Seq(Symbol) : At(t, p, Separated(items)) =>
                \E off : Placed(items, t, p, off)
<1> DEFINE n == Len(items)
           end(i) == IF i < n THEN "," ELSE Space
           item(i) == <<Space>> \o items[i] \o <<end(i)>>
           s == [i \in DOMAIN items |-> item(i)]
<1>1. n \in Nat /\ DOMAIN items = 1..n /\ \A i \in 1..n : items[i] \in Seq(Symbol)
  OBVIOUS
<1>2. Space \in Symbol /\ \A i : end(i) \in Symbol
  BY Symbols
<1> HIDE DEF n
<1>3. Separated(items) = FlattenSeq(s)
  <2>1. \A i : <<end(i)>> = IF i < n THEN <<",">> ELSE <<Space>>
    OBVIOUS
  <2> QED BY <2>1 DEF Separated, n
<1> HIDE DEF end
<1>4. ASSUME NEW i \in 1..n
      PROVE  /\ item(i) \in Seq(Symbol) /\ Len(item(i)) = Len(items[i]) + 2
             /\ \A p : \A t \in Seq(Symbol) : At(t, p, item(i)) =>
                  /\ Has(t, p + 1, Space) /\ At(t, p + 1, items[i])
                  /\ Has(t, p + 1 + Len(items[i]) + 1, end(i))
  BY <1>1, <1>2, EnclosedLayout
<1> HIDE DEF item
<1>5. s \in Seq(Seq(Symbol)) /\ Len(s) = n /\ \A i \in 1..n : s[i] = item(i)
  <2>1. s = [i \in 1..n |-> item(i)]
    BY <1>1
  <2>2. \A i \in 1..n : item(i) \in Seq(Symbol)
    BY <1>4
  <2> HIDE DEF s
  <2> QED BY <1>1, <2>1, <2>2
<1> HIDE DEF s
<1>6. FlattenSeq(s) \in Seq(Symbol)
  <2>1. CASE Len(s) > 0
    BY <1>5, <2>1, FlattenLayout
  <2>2. CASE Len(s) = 0
    <3>1. FlattenSeq(s) = s
      BY <2>2 DEF FlattenSeq
    <3> QED BY <1>5, <2>2, <3>1
  <2> QED BY <1>1, <1>5, <2>1, <2>2
<1>7. ASSUME NEW p, NEW t \in Seq(Symbol), At(t, p, Separated(items))
      PROVE  \E off : Placed(items, t, p, off)
  <2>1. PICK off : Parted(s, t, p, off)
    BY <1>3, <1>5, <1>7, AtFlatten
  <2>2. /\ off \in [1..(n + 1) -> Nat]
        /\ off[1] = p
        /\ off[n + 1] = p + Len(Separated(items))
        /\ \A i \in 1..n : off[i + 1] = off[i] + Len(s[i]) /\ At(t, off[i], s[i])
    BY <1>3, <1>5, <2>1 DEF Parted
  <2>3. ASSUME NEW i \in 1..n
        PROVE  /\ off[i + 1] = off[i] + (Len(items[i]) + 2)
               /\ Has(t, off[i] + 1, Space)
               /\ At(t, off[i] + 1, items[i])
               /\ Has(t, off[i] + 1 + Len(items[i]) + 1, end(i))
    <3>1. At(t, off[i], item(i)) /\ off[i + 1] = off[i] + Len(item(i))
      BY <1>5, <2>2
    <3>2. At(t, off[i], item(i)) =>
            /\ Has(t, off[i] + 1, Space) /\ At(t, off[i] + 1, items[i])
            /\ Has(t, off[i] + 1 + Len(items[i]) + 1, end(i))
      BY <1>4, Zenon
    <3>3. Len(item(i)) = Len(items[i]) + 2
      BY <1>4
    <3> QED BY <3>1, <3>2, <3>3
  <2>4. Placed(items, t, p, off)
    BY <2>2, <2>3 DEF Placed, n, end
  <2> QED BY <2>4
<1> QED BY <1>3, <1>6, <1>7

\* What it writes for a file.
Entry(file) == Object(<<Member("path", String(file.path)),
                        Member("sha256", String(file.sha256))>>)

\* Where the two members of a file are.
LEMMA EntryLayout ==
    ASSUME NEW file \in FileRead
    PROVE  LET m1 == Member("path", String(file.path))
               m2 == Member("sha256", String(file.sha256))
           IN  /\ Entry(file) \in Seq(Symbol) /\ Len(m1) \in Nat /\ Len(m2) \in Nat
               /\ \A p : \A t \in Seq(Symbol) : At(t, p, Entry(file)) =>
                    /\ Has(t, p + 1, "{")
                    /\ Has(t, p + 2, Space) /\ At(t, p + 2, m1)
                    /\ Has(t, p + 2 + Len(m1) + 1, ",")
                    /\ Has(t, p + 2 + Len(m1) + 2, Space)
                    /\ At(t, p + 2 + Len(m1) + 2, m2)
                    /\ Has(t, p + 2 + Len(m1) + 2 + Len(m2) + 1, Space)
                    /\ Has(t, p + 2 + Len(m1) + 2 + Len(m2) + 2, "}")
                    /\ p + Len(Entry(file)) = p + 2 + Len(m1) + 2 + Len(m2) + 2
<1> DEFINE m1 == Member("path", String(file.path))
           m2 == Member("sha256", String(file.sha256))
           items == <<m1, m2>>
           x == Separated(items)
<1>1. file.path \in Seq(Symbol) /\ file.sha256 \in Seq(Symbol)
  BY DEF FileRead
<1>2. m1 \in Seq(Symbol) /\ m2 \in Seq(Symbol)
  <2>1. String(file.path) \in Seq(Symbol) /\ String(file.sha256) \in Seq(Symbol)
    BY <1>1, StringLayout
  <2>2. "path" \in Symbol /\ "sha256" \in Symbol
    BY Symbols
  <2> QED BY <2>1, <2>2, MemberLayout
<1> HIDE DEF m1, m2
<1>3. /\ items \in Seq(Seq(Symbol)) /\ Len(items) = 2 /\ items[1] = m1 /\ items[2] = m2
      /\ Len(m1) \in Nat /\ Len(m2) \in Nat
  BY <1>2
<1> HIDE DEF items
<1>4. x \in Seq(Symbol)
  BY <1>3, SeparatedLayout
<1>5. "{" \in Symbol /\ "}" \in Symbol
  BY Symbols
<1>6. Entry(file) = <<"{">> \o x \o <<"}">>
  BY DEF Entry, Object, x, items, m1, m2
<1> HIDE DEF x
<1>7. /\ Entry(file) \in Seq(Symbol) /\ Len(Entry(file)) = Len(x) + 2
      /\ \A p : \A t \in Seq(Symbol) : At(t, p, Entry(file)) =>
           Has(t, p + 1, "{") /\ At(t, p + 1, x) /\ Has(t, p + 1 + Len(x) + 1, "}")
  <2> DEFINE y == <<"{">> \o x \o <<"}">>
  <2>1. /\ y \in Seq(Symbol) /\ Len(y) = Len(x) + 2
        /\ \A p : \A t \in Seq(Symbol) : At(t, p, y) =>
             Has(t, p + 1, "{") /\ At(t, p + 1, x) /\ Has(t, p + 1 + Len(x) + 1, "}")
    BY <1>4, <1>5, EnclosedLayout
  <2>2. Entry(file) = y
    BY <1>6
  <2> HIDE DEF y
  <2> QED BY <2>1, <2>2
<1>8. ASSUME NEW p, NEW t \in Seq(Symbol), At(t, p, Entry(file))
      PROVE  /\ Has(t, p + 1, "{")
             /\ Has(t, p + 2, Space) /\ At(t, p + 2, m1)
             /\ Has(t, p + 2 + Len(m1) + 1, ",")
             /\ Has(t, p + 2 + Len(m1) + 2, Space)
             /\ At(t, p + 2 + Len(m1) + 2, m2)
             /\ Has(t, p + 2 + Len(m1) + 2 + Len(m2) + 1, Space)
             /\ Has(t, p + 2 + Len(m1) + 2 + Len(m2) + 2, "}")
             /\ p + Len(Entry(file)) = p + 2 + Len(m1) + 2 + Len(m2) + 2
  <2>1. Has(t, p + 1, "{") /\ At(t, p + 1, x) /\ Has(t, p + 1 + Len(x) + 1, "}")
    BY <1>7, <1>8
  <2>2. p \in Nat /\ Len(x) \in Nat
    BY <1>4, <1>8 DEF At
  <2>3. PICK off : Placed(items, t, p + 1, off)
    BY <1>3, <2>1, SeparatedLayout DEF x
  <2>13. /\ off \in [1..(2 + 1) -> Nat]
         /\ off[1] = p + 1 /\ off[2 + 1] = p + 1 + Len(x)
         /\ \A i \in 1..2 :
              /\ off[i + 1] = off[i] + (Len(items[i]) + 2)
              /\ Has(t, off[i] + 1, Space) /\ At(t, off[i] + 1, items[i])
              /\ Has(t, off[i] + 1 + Len(items[i]) + 1, IF i < 2 THEN "," ELSE Space)
    BY <1>3, <2>3 DEF Placed, x
  <2>4. /\ off[2] = off[1] + (Len(m1) + 2)
        /\ Has(t, off[1] + 1, Space) /\ At(t, off[1] + 1, m1)
        /\ Has(t, off[1] + 1 + Len(m1) + 1, ",")
    <3>1. 1 \in 1..2 /\ 1 < 2 /\ 1 + 1 = 2
      OBVIOUS
    <3> QED BY <1>3, <2>13, <3>1
  <2>5. /\ off[3] = off[2] + (Len(m2) + 2)
        /\ Has(t, off[2] + 1, Space) /\ At(t, off[2] + 1, m2)
        /\ Has(t, off[2] + 1 + Len(m2) + 1, Space)
    <3>1. 2 \in 1..2 /\ ~(2 < 2) /\ 2 + 1 = 3
      OBVIOUS
    <3> QED BY <1>3, <2>13, <3>1
  <2>6. off[1] \in Nat /\ off[2] \in Nat /\ off[1] = p + 1 /\ off[3] = p + 1 + Len(x)
    <3>1. 1 \in 1..(2 + 1) /\ 2 \in 1..(2 + 1) /\ 2 + 1 = 3
      OBVIOUS
    <3> QED BY <2>13, <3>1
  <2> HIDE DEF items, x
  <2>7. off[1] + 1 = p + 2 /\ off[2] + 1 = p + 2 + Len(m1) + 2
    <3>1. off[2] = off[1] + (Len(m1) + 2)
      BY <2>4
    <3> QED BY <1>3, <2>2, <2>6, <3>1
  <2>8. p + 1 + Len(x) + 1 = p + 2 + Len(m1) + 2 + Len(m2) + 2
    <3>1. off[3] = off[2] + (Len(m2) + 2)
      BY <2>5
    <3>2. off[2] \in Nat /\ Len(m2) \in Nat
      BY <1>3, <2>6
    <3>3. off[3] + 1 = (off[2] + 1) + Len(m2) + 2
      BY <3>1, <3>2
    <3>4. off[3] = p + 1 + Len(x) /\ off[2] + 1 = p + 2 + Len(m1) + 2
      BY <2>6, <2>7
    <3> QED BY <3>3, <3>4
  <2>9. p + Len(Entry(file)) = p + 2 + Len(m1) + 2 + Len(m2) + 2
    <3>1. Len(Entry(file)) = Len(x) + 2
      BY <1>7
    <3> QED BY <1>3, <2>2, <2>8, <3>1
  <2>10. p + 2 + Len(m1) + 2 + Len(m2) + 2 = p + 1 + Len(x) + 1
    BY <2>8
  <2>11. Has(t, p + 2, Space) /\ At(t, p + 2, m1) /\ Has(t, p + 2 + Len(m1) + 1, ",")
    BY <2>4, <2>7
  <2>12. /\ Has(t, p + 2 + Len(m1) + 2, Space) /\ At(t, p + 2 + Len(m1) + 2, m2)
         /\ Has(t, p + 2 + Len(m1) + 2 + Len(m2) + 1, Space)
    BY <2>5, <2>7
  <2> QED BY <2>1, <2>9, <2>10, <2>11, <2>12
<1> QED BY <1>3, <1>7, <1>8 DEF m1, m2

\* The loop over the list has been in that state, and early enough not to be
\* at the end of its passes.
Came(f, s) == \E k \in Nat : k <= s.next /\ f[k] = s

\* A run that came to a state comes to the next.
LEMMA CameOn ==
    ASSUME NEW t \in Seq(Symbol), NEW pos, NEW f, ListRun(t, pos, f),
           NEW s, Came(f, s), s.next \in Nat, s.next <= Len(t)
    PROVE  /\ s \in ListState /\ Pass(t, s) \in ListState
           /\ Pass(t, s).next > s.next => Came(f, Pass(t, s))
           /\ Pass(t, s).state \notin {"list", "file"} => FileList(t, pos) = Pass(t, s)
<1>1. PICK k \in Nat : k <= s.next /\ f[k] = s
  BY DEF Came
<1>2. Len(t) \in Nat /\ k <= Len(t) /\ k + 1 \in Nat /\ k + 1 <= Len(t) + 1
  BY <1>1
<1>3. s \in ListState /\ f[k + 1] = Pass(t, s)
  BY <1>1, <1>2, ListNext
<1>4. Pass(t, s) \in ListState
  BY <1>3, PassOfList
<1>5. Pass(t, s).next > s.next => Came(f, Pass(t, s))
  <2> SUFFICES ASSUME Pass(t, s).next > s.next
               PROVE  Came(f, Pass(t, s))
    OBVIOUS
  <2>1. Pass(t, s).next \in Nat
    BY <1>4 DEF ListState
  <2>2. k + 1 <= Pass(t, s).next
    BY <1>1, <2>1
  <2> QED BY <1>2, <1>3, <2>2 DEF Came
<1>6. Pass(t, s).state \notin {"list", "file"} => FileList(t, pos) = Pass(t, s)
  BY <1>2, <1>3, ListSettles
<1> QED BY <1>3, <1>4, <1>5, <1>6

\* A symbol is only at places of the text.
LEMMA HasTypes ==
    ASSUME NEW t \in Seq(Symbol), NEW p, NEW c, Has(t, p, c)
    PROVE  p <= Len(t)
  BY DEF Has

\* A pass over one field of a file.
LEMMA PassOfField ==
    ASSUME NEW t \in Seq(Symbol), NEW s \in ListState, s.state = "file",
           Has(t, s.next, Space),
           NEW k \in {"path", "sha256"}, NEW v \in Seq(Symbol),
           At(t, s.next, Member(k, String(v)))
    PROVE  LET u == Pass(t, s)
               next == s.next + Len(Member(k, String(v))) + 1
           IN  /\ (k = "path" /\ Extracts(v, 256)) =>
                    /\ u.state = "file" /\ u.next = next /\ u.path = v
                    /\ u.sha256 = s.sha256 /\ u.have = s.have \cup {k}
                    /\ u.files = s.files
               /\ (k = "sha256" /\ Extracts(v, 65) /\ Characters(v) = 64) =>
                    /\ u.state = "file" /\ u.next = next /\ u.sha256 = v
                    /\ u.path = s.path /\ u.have = s.have \cup {k}
                    /\ u.files = s.files
               /\ ~Extracts(v, IF k = "path" THEN 256 ELSE 65) => u.state = "failed"
<1> DEFINE p == s.next
           q == p + 1
           m == Member(k, String(v))
           u == Pass(t, s)
<1>1. p \in Nat /\ p >= 1
  BY DEF ListState
<1>2. Has(t, q, Quote)
  <2>1. k \in Symbol
    BY Keys16
  <2>2. String(v) \in Seq(Symbol) /\ <<k>> \in Seq(Symbol)
    BY StringLayout, Keys16
  <2>3. At(t, p, String(<<k>>))
    BY <2>1, <2>2, MemberLayout
  <2> QED BY <2>2, <2>3, StringLayout
<1>3. skip_json_whitespace(t, s.next) = q
  <2>1. Quote # Space
    BY Symbols
  <2> QED BY <1>1, <1>2, <2>1, SkipBlank
<1>4. ~Has(t, q, "}") /\ ~Has(t, q, ",")
  BY <1>2, Symbols DEF Has
<1>5. u = Field(t, q, s)
  <2>1. u = FilePass(t, s)
    BY PassOfList
  <2> DEFINE at == skip_json_whitespace(t, s.next)
  <2>2. ~Has(t, at, "}") /\ ~Has(t, at, ",")
    BY <1>3, <1>4
  <2>3. FilePass(t, s) = Field(t, at, s)
    BY <2>2, FilePassIs
  <2> QED BY <1>3, <2>1, <2>3
<1>6. /\ FieldKey(t, q).value = <<k>>
      /\ FieldRead(t, q) <=> Extracts(v, IF k = "path" THEN 256 ELSE 65)
      /\ FieldRead(t, q) =>
           FieldValue(t, q).value = v /\ FieldValue(t, q).next = p + Len(m) + 1
  BY ReadField
<1> HIDE DEF p, q, m, u
<1>7. ASSUME k = "path", Extracts(v, 256)
      PROVE  /\ u.state = "file" /\ u.next = p + Len(m) + 1 /\ u.path = v
             /\ u.sha256 = s.sha256 /\ u.have = s.have \cup {k} /\ u.files = s.files
  <2>1. FieldRead(t, q)
    BY <1>6, <1>7
  <2>2. u = WithPath(t, q, s)
    BY <1>5, <1>6, <1>7, <2>1, FieldIs
  <2> QED BY <1>6, <1>7, <2>1, <2>2 DEF WithPath, ListState
<1>8. ASSUME k = "sha256", Extracts(v, 65), Characters(v) = 64
      PROVE  /\ u.state = "file" /\ u.next = p + Len(m) + 1 /\ u.sha256 = v
             /\ u.path = s.path /\ u.have = s.have \cup {k} /\ u.files = s.files
  <2>1. FieldRead(t, q)
    BY <1>6, <1>8
  <2>2. u = WithHash(t, q, s)
    BY <1>5, <1>6, <1>8, <2>1, FieldIs
  <2> QED BY <1>6, <1>8, <2>1, <2>2 DEF WithHash, ListState
<1>9. ASSUME ~Extracts(v, IF k = "path" THEN 256 ELSE 65)
      PROVE  u.state = "failed"
  <2>1. u = Failed(s)
    BY <1>5, <1>6, <1>9, FieldIs
  <2> QED BY <2>1, FailedList
<1> QED BY <1>7, <1>8, <1>9 DEF p, m, u

\* A digest fits its buffer.
LEMMA DigestExtracts ==
    ASSUME NEW d \in Digest
    PROVE  d \in Seq(Symbol) /\ Extracts(d, 65) /\ Characters(d) = 64
<1>1. d \in Seq(Symbol) /\ Characters(d) = 64 /\ Special \notin Range(d)
  BY DEF Digest
<1>2. \A i \in DOMAIN d : d[i] # Special
  BY <1>1 DEF Range
<1> QED BY <1>1, <1>2 DEF Extracts

\* The other passes: they depend on the symbol that is next.
LEMMA PassOfBracket ==
    ASSUME NEW t \in Seq(Symbol), NEW s \in ListState, s.state = "list",
           NEW p, skip_json_whitespace(t, s.next) = p
    PROVE  LET u == Pass(t, s)
           IN  /\ Has(t, p, "]") => u.state = "ok" /\ u.files = s.files
               /\ Has(t, p, ",") =>
                    u.state = "list" /\ u.next = p + 1 /\ u.files = s.files
               /\ Has(t, p, "{") =>
                    /\ u.state = "file" /\ u.next = p + 1 /\ u.have = {}
                    /\ u.files = s.files
<1>1. Pass(t, s) = ListPass(t, s)
  BY PassOfList
<1>2. Has(t, p, "]") => ListPass(t, s) = [s EXCEPT !.state = "ok"]
  BY ListPassIs
<1>3. Has(t, p, ",") => ListPass(t, s) = [s EXCEPT !.next = p + 1]
  BY ListPassIs
<1>4. Has(t, p, "{") =>
        ListPass(t, s) = [s EXCEPT !.state = "file", !.next = p + 1, !.have = {}]
  BY ListPassIs
<1>5. Has(t, p, "]") => Pass(t, s).state = "ok" /\ Pass(t, s).files = s.files
  BY <1>1, <1>2 DEF ListState
<1>6. Has(t, p, ",") => /\ Pass(t, s).state = "list" /\ Pass(t, s).next = p + 1
                        /\ Pass(t, s).files = s.files
  BY <1>1, <1>3 DEF ListState
<1>7. Has(t, p, "{") => /\ Pass(t, s).state = "file" /\ Pass(t, s).next = p + 1
                        /\ Pass(t, s).have = {} /\ Pass(t, s).files = s.files
  BY <1>1, <1>4 DEF ListState
<1> QED BY <1>5, <1>6, <1>7

\* What a pass inside a file does at a comma and at its end.
LEMMA PassOfBrace ==
    ASSUME NEW t \in Seq(Symbol), NEW s \in ListState, s.state = "file",
           NEW p, skip_json_whitespace(t, s.next) = p
    PROVE  LET u == Pass(t, s)
           IN  /\ Has(t, p, ",") =>
                    /\ u.state = "file" /\ u.next = p + 1 /\ u.path = s.path
                    /\ u.sha256 = s.sha256 /\ u.have = s.have /\ u.files = s.files
               /\ Has(t, p, "}") /\ s.have = {"path", "sha256"} =>
                    /\ u.state = "list" /\ u.next = p + 1
                    /\ u.files = Append(s.files, [path |-> s.path, sha256 |-> s.sha256])
<1>1. Pass(t, s) = FilePass(t, s)
  BY PassOfList
<1>2. Has(t, p, ",") => FilePass(t, s) = [s EXCEPT !.next = p + 1]
  BY FilePassIs
<1> DEFINE entry == [path |-> s.path, sha256 |-> s.sha256]
           closed == [s EXCEPT !.state = "list", !.next = p + 1,
                               !.files = Append(@, entry)]
<1>3. Has(t, p, "}") /\ s.have = {"path", "sha256"} => FilePass(t, s) = closed
  BY FilePassIs
<1>4. Has(t, p, ",") =>
        /\ Pass(t, s).state = "file" /\ Pass(t, s).next = p + 1
        /\ Pass(t, s).path = s.path /\ Pass(t, s).sha256 = s.sha256
        /\ Pass(t, s).have = s.have /\ Pass(t, s).files = s.files
  BY <1>1, <1>2 DEF ListState
<1>5. Has(t, p, "}") /\ s.have = {"path", "sha256"} =>
        /\ Pass(t, s).state = "list" /\ Pass(t, s).next = p + 1
        /\ Pass(t, s).files = Append(s.files, entry)
  <2> HIDE DEF entry
  <2>1. /\ closed.state = "list" /\ closed.next = p + 1
        /\ closed.files = Append(s.files, entry)
    BY DEF ListState
  <2> HIDE DEF closed
  <2> QED BY <1>1, <1>3, <2>1
<1> HIDE DEF closed
<1> QED BY <1>4, <1>5

\* The list goes on, after that file.
ReadOn(f, s, files, next) ==
    /\ Came(f, s) /\ s \in ListState /\ s.state = "list"
    /\ s.files = files /\ s.next = next

\* A file of the list is read as it was written, or ends the reading.
LEMMA ReadEntry ==
    ASSUME NEW t \in Seq(Symbol), NEW pos, NEW f, ListRun(t, pos, f),
           NEW file \in FileRead, file.sha256 \in Digest,
           NEW p, p >= 1, Has(t, p, Space), At(t, p, Entry(file)),
           NEW files, NEW s, ReadOn(f, s, files, p)
    PROVE  IF Extracts(file.path, 256)
           THEN \E u : ReadOn(f, u, Append(files, file), p + Len(Entry(file)) + 1)
           ELSE FileList(t, pos).state = "failed"
<1> DEFINE m1 == Member("path", String(file.path))
           m2 == Member("sha256", String(file.sha256))
           q == p + 2
           r == q + Len(m1) + 2
           s1 == Pass(t, s)
           s2 == Pass(t, s1)
           s3 == Pass(t, s2)
           s4 == Pass(t, s3)
           s5 == Pass(t, s4)
<1>1. /\ Has(t, p + 1, "{") /\ Has(t, q, Space) /\ At(t, q, m1)
      /\ Has(t, q + Len(m1) + 1, ",") /\ Has(t, r, Space) /\ At(t, r, m2)
      /\ Has(t, r + Len(m2) + 1, Space) /\ Has(t, r + Len(m2) + 2, "}")
      /\ p + Len(Entry(file)) = r + Len(m2) + 2
      /\ Len(m1) \in Nat /\ Len(m2) \in Nat
  BY EntryLayout
<1>2. p \in Nat /\ q \in Nat /\ q >= 1 /\ q > p
  BY DEF At
<1>3. /\ "{" # Space /\ "," # Space /\ "}" # Space /\ Quote # Space
  BY Symbols
<1>4. /\ file.path \in Seq(Symbol) /\ file.sha256 \in Seq(Symbol)
      /\ file = [path |-> file.path, sha256 |-> file.sha256]
  BY DEF FileRead
<1>5. Extracts(file.sha256, 65) /\ Characters(file.sha256) = 64
  BY DigestExtracts
<1>6. s \in ListState /\ s.state = "list" /\ s.files = files /\ s.next = p /\ Came(f, s)
  BY DEF ReadOn
<1> HIDE DEF m1, m2
<1> HIDE DEF s1, s2, s3, s4, s5, q
<1> DEFINE a == Len(m1)
           b == Len(m2)
<1>7. /\ p \in Nat /\ q \in Nat /\ a \in Nat /\ b \in Nat /\ r \in Nat
      /\ q > p /\ q >= 1 /\ r = q + a + 2
  <2>1. a \in Nat /\ b \in Nat
    BY <1>1
  <2> HIDE DEF a, b
  <2>2. r = q + a + 2
    BY DEF a
  <2> HIDE DEF r
  <2> QED BY <1>2, <2>1, <2>2
<1> HIDE DEF a, b, r
<1>8. /\ Has(t, q + a + 1, ",") /\ Has(t, r + b + 1, Space) /\ Has(t, r + b + 2, "}")
       /\ Has(t, p + 1, "{") /\ Has(t, q, Space) /\ Has(t, r, Space)
       /\ p + Len(Entry(file)) = r + b + 2
  BY <1>1 DEF a, b, r
<1>9. /\ s1 \in ListState /\ s1.state = "file" /\ s1.next = q /\ s1.have = {}
      /\ s1.files = files /\ Came(f, s1)
  <2>1. skip_json_whitespace(t, s.next) = p + 1
    BY <1>1, <1>8, <1>2, <1>3, <1>6, SkipBlank
  <2>2. s1.state = "file" /\ s1.next = p + 1 + 1 /\ s1.have = {} /\ s1.files = files
    BY <1>1, <1>8, <1>6, <2>1, PassOfBracket DEF s1
  <2>3. p + 1 + 1 = q /\ q > s.next /\ s.next \in Nat
    BY <1>2, <1>6 DEF q
  <2>4. s.next <= Len(t)
    BY <1>6, HasTypes
  <2>5. s1 \in ListState /\ (s1.next > s.next => Came(f, s1))
    BY <1>6, <2>3, <2>4, CameOn DEF s1
  <2> QED BY <2>2, <2>3, <2>5
<1>10. s1.next <= Len(t) /\ s1.next \in Nat
  <2>1. q <= Len(t)
    BY <1>1, <1>8, HasTypes
  <2> QED BY <1>2, <1>9, <2>1
<1>11. CASE ~Extracts(file.path, 256)
  <2>1. Has(t, s1.next, Space) /\ At(t, s1.next, Member("path", String(file.path)))
    BY <1>1, <1>8, <1>9 DEF m1
  <2>2. s2.state = "failed"
    BY <1>4, <1>9, <1>11, <2>1, PassOfField DEF s2
  <2>3. FileList(t, pos) = s2
    BY <1>9, <1>10, <2>2, CameOn DEF s2
  <2> QED BY <1>11, <2>2, <2>3
<1>12. CASE Extracts(file.path, 256)
  <2>1. /\ s2 \in ListState /\ s2.state = "file" /\ s2.next = q + a + 1
        /\ s2.path = file.path /\ s2.have = {"path"} /\ s2.files = files /\ Came(f, s2)
    <3>1. Has(t, s1.next, Space) /\ At(t, s1.next, Member("path", String(file.path)))
      BY <1>1, <1>8, <1>9 DEF m1
    <3>2. /\ s2.state = "file" /\ s2.next = s1.next + a + 1
          /\ s2.path = file.path /\ s2.have = s1.have \cup {"path"}
          /\ s2.files = s1.files
      BY <1>4, <1>9, <1>12, <3>1, PassOfField DEF s2, m1, a
    <3>3. s2.next > s1.next
      BY <1>7, <1>10, <3>2
    <3>4. s2 \in ListState /\ Came(f, s2)
      BY <1>9, <1>10, <3>3, CameOn DEF s2
    <3> QED BY <1>9, <3>2, <3>4
  <2>2. /\ s3 \in ListState /\ s3.state = "file" /\ s3.next = r
        /\ s3.path = file.path /\ s3.have = {"path"} /\ s3.files = files /\ Came(f, s3)
    <3>1. skip_json_whitespace(t, s2.next) = q + a + 1
      <4>1. q + a + 1 \in Nat /\ q + a + 1 >= 1
        BY <1>7
      <4> QED BY <1>8, <1>3, <2>1, <4>1, SkipBlank
    <3>2. /\ s3.state = "file" /\ s3.next = (q + a + 1) + 1
          /\ s3.path = file.path /\ s3.have = {"path"} /\ s3.files = files
      BY <1>1, <1>8, <2>1, <3>1, PassOfBrace DEF s3
    <3>3. (q + a + 1) + 1 = r /\ r > s2.next /\ s2.next \in Nat
      BY <1>7, <2>1
    <3>4. s2.next <= Len(t)
      BY <1>1, <1>8, <2>1, HasTypes
    <3>5. s3 \in ListState /\ (s3.next > s2.next => Came(f, s3))
      BY <2>1, <3>3, <3>4, CameOn DEF s3
    <3> QED BY <3>2, <3>3, <3>5
  <2>3. s3.next <= Len(t) /\ s3.next \in Nat
    <3>1. r <= Len(t)
      BY <1>1, <1>8, HasTypes
    <3> QED BY <1>7, <2>2, <3>1
  <2>4. /\ s4 \in ListState /\ s4.state = "file" /\ s4.next = r + b + 1
        /\ s4.path = file.path /\ s4.sha256 = file.sha256
        /\ s4.have = {"path", "sha256"} /\ s4.files = files /\ Came(f, s4)
    <3>1. Has(t, s3.next, Space) /\ At(t, s3.next, Member("sha256", String(file.sha256)))
      BY <1>1, <1>8, <2>2 DEF m2
    <3>2. /\ s4.state = "file" /\ s4.next = s3.next + b + 1
          /\ s4.sha256 = file.sha256 /\ s4.path = s3.path
          /\ s4.have = s3.have \cup {"sha256"} /\ s4.files = s3.files
      BY <1>4, <1>5, <2>2, <3>1, PassOfField DEF s4, m2, b
    <3>3. s4.next > s3.next
      BY <1>7, <2>3, <3>2
    <3>4. s4 \in ListState /\ Came(f, s4)
      BY <2>2, <2>3, <3>3, CameOn DEF s4
    <3> QED BY <2>2, <3>2, <3>4
  <2>5. /\ s5 \in ListState /\ s5.state = "list" /\ s5.next = r + b + 2 + 1
        /\ s5.files = Append(files, file) /\ Came(f, s5)
    <3>1. skip_json_whitespace(t, s4.next) = r + b + 1 + 1
      <4>1. r + b + 1 \in Nat /\ r + b + 1 >= 1 /\ r + b + 1 + 1 = r + b + 2
        BY <1>7
      <4> QED BY <1>8, <1>3, <2>4, <4>1, SkipBlank
    <3>2. r + b + 1 + 1 = r + b + 2
      BY <1>7
    <3>3. /\ s5.state = "list" /\ s5.next = r + b + 2 + 1
          /\ s5.files = Append(files, [path |-> file.path, sha256 |-> file.sha256])
      <4>1. skip_json_whitespace(t, s4.next) = r + b + 2 /\ Has(t, r + b + 2, "}")
        BY <1>8, <3>1, <3>2
      <4> QED BY <2>4, <4>1, PassOfBrace DEF s5
    <3>4. s5.next > s4.next /\ s4.next \in Nat
      <4>1. s5.next = r + b + 2 + 1 /\ s4.next = r + b + 1
        BY <2>4, <3>3
      <4> QED BY <1>7, <4>1
    <3>5. s4.next <= Len(t)
      <4>1. r + b + 1 <= Len(t)
        BY <1>8, HasTypes
      <4>2. s4.next = r + b + 1
        BY <2>4
      <4> QED BY <4>1, <4>2
    <3>6. s5 \in ListState /\ Came(f, s5)
      BY <2>4, <3>4, <3>5, CameOn DEF s5
    <3> QED BY <1>4, <3>3, <3>6
  <2>6. ReadOn(f, s5, Append(files, file), p + Len(Entry(file)) + 1)
    BY <1>1, <1>8, <2>5 DEF ReadOn
  <2> QED BY <1>12, <2>6
<1> QED BY <1>11, <1>12

Entries(files) == [i \in DOMAIN files |-> Entry(files[i])]

\* Where the files of a list are.
LEMMA ListLayout ==
    ASSUME NEW files \in Seq(FileRead)
    PROVE  /\ List(Entries(files)) \in Seq(Symbol)
           /\ \A p : \A t \in Seq(Symbol) : At(t, p, List(Entries(files))) =>
                /\ Has(t, p + 1, "[")
                /\ \E off : /\ Placed(Entries(files), t, p + 1, off)
                            /\ Has(t, off[Len(files) + 1] + 1, "]")
<1> DEFINE items == Entries(files)
           x == Separated(items)
<1>1. items \in Seq(Seq(Symbol)) /\ Len(items) = Len(files)
  <2>1. \A i \in 1..Len(files) : files[i] \in FileRead
    OBVIOUS
  <2>2. \A i \in 1..Len(files) : Entry(files[i]) \in Seq(Symbol)
    BY <2>1, EntryLayout
  <2> QED BY <2>2 DEF Entries
<1> HIDE DEF items
<1>2. x \in Seq(Symbol)
  BY <1>1, SeparatedLayout
<1>3. "[" \in Symbol /\ "]" \in Symbol
  BY Symbols
<1>4. List(items) = <<"[">> \o x \o <<"]">>
  BY DEF List
<1> HIDE DEF x
<1>5. /\ List(items) \in Seq(Symbol)
      /\ \A p : \A t \in Seq(Symbol) : At(t, p, List(items)) =>
           Has(t, p + 1, "[") /\ At(t, p + 1, x) /\ Has(t, p + 1 + Len(x) + 1, "]")
  <2> DEFINE y == <<"[">> \o x \o <<"]">>
  <2>1. /\ y \in Seq(Symbol)
        /\ \A p : \A t \in Seq(Symbol) : At(t, p, y) =>
             Has(t, p + 1, "[") /\ At(t, p + 1, x) /\ Has(t, p + 1 + Len(x) + 1, "]")
    BY <1>2, <1>3, EnclosedLayout
  <2>2. List(items) = y
    BY <1>4
  <2> HIDE DEF y
  <2> QED BY <2>1, <2>2
<1>6. ASSUME NEW p, NEW t \in Seq(Symbol), At(t, p, List(items))
      PROVE  /\ Has(t, p + 1, "[")
             /\ \E off : Placed(items, t, p + 1, off) /\ Has(t, off[Len(files) + 1] + 1, "]")
  <2>1. Has(t, p + 1, "[") /\ At(t, p + 1, x) /\ Has(t, p + 1 + Len(x) + 1, "]")
    BY <1>5, <1>6
  <2>2. PICK off : Placed(items, t, p + 1, off)
    BY <1>1, <2>1, SeparatedLayout DEF x
  <2>3. off[Len(files) + 1] = p + 1 + Len(x)
    BY <1>1, <2>2 DEF Placed, x
  <2> QED BY <2>1, <2>2, <2>3
<1> QED BY <1>5, <1>6 DEF items

ListedFile == [path : Seq(Symbol), sha256 : Digest]

\* The list is read as it was written, if every path can be.
LEMMA ReadList ==
    ASSUME NEW t \in Seq(Symbol), NEW p, NEW files \in Seq(ListedFile),
           At(t, p, List(Entries(files)))
    PROVE  LET end == FileList(t, p + 2)
           IN  IF \A i \in 1..Len(files) : Extracts(files[i].path, 256)
               THEN end.state = "ok" /\ end.files = files
               ELSE end.state = "failed"
<1> DEFINE n == Len(files)
           items == Entries(files)
           ok(i) == \A j \in 1..i : Extracts(files[j].path, 256)
           part(i) == SubSeq(files, 1, i)
<1>1. /\ n \in Nat /\ Len(items) = n /\ DOMAIN files = 1..n
      /\ \A i \in 1..n : items[i] = Entry(files[i]) /\ files[i] \in ListedFile
  BY DEF Entries
<1>2. /\ files \in Seq(FileRead)
      /\ \A i \in 1..n : files[i] \in FileRead /\ files[i].sha256 \in Digest
  <2>1. ListedFile \subseteq FileRead /\ \A x \in ListedFile : x.sha256 \in Digest
    BY DEF ListedFile, FileRead, Digest
  <2> QED BY <1>1, <2>1
<1>3. PICK off : Placed(items, t, p + 1, off) /\ Has(t, off[n + 1] + 1, "]")
  BY <1>2, ListLayout
<1>4. p \in Nat /\ p + 2 >= 1 /\ p + 2 \in Nat
  BY DEF At
<1>5. PICK f : ListRun(t, p + 2, f)
  BY <1>4, ListLoop
<1>6. part(0) = <<>> /\ part(n) = files
  OBVIOUS
<1>7. ASSUME NEW i \in 0..n, i < n
      PROVE  part(i + 1) = Append(part(i), files[i + 1])
  <2>1. /\ 1 \in 1..Len(files) /\ i + 1 \in 1..Len(files) /\ (i + 1) - 1 = i
    BY <1>1, <1>7
  <2>2. SubSeq(files, 1, i + 1) = Append(SubSeq(files, 1, (i + 1) - 1), files[i + 1])
    BY <2>1, OneMore
  <2> QED BY <2>1, <2>2
<1> HIDE DEF n, part, items
<1>8. /\ off \in [1..(n + 1) -> Nat] /\ off[1] = p + 1
      /\ \A i \in 1..n :
            /\ off[i + 1] = off[i] + (Len(Entry(files[i])) + 2)
            /\ Has(t, off[i] + 1, Space) /\ At(t, off[i] + 1, Entry(files[i]))
            /\ Has(t, off[i] + 1 + Len(Entry(files[i])) + 1, IF i < n THEN "," ELSE Space)
  BY <1>1, <1>3 DEF Placed
<1> DEFINE after(i) == IF 0 < i /\ i = n THEN off[n + 1] ELSE off[i + 1] + 1
           Good(i) == IF ok(i) THEN \E s : ReadOn(f, s, part(i), after(i))
                      ELSE FileList(t, p + 2).state = "failed"
           Goods == {i \in Nat : i <= n => Good(i)}
<1>9. 0 \in Goods
  <2> DEFINE s == ListStart(p + 2)
  <2>1. s \in ListState
    BY <1>4 DEF ListStart, ListState
  <2>2. s.state = "list" /\ s.files = part(0) /\ s.next = p + 2
    BY <1>6 DEF ListStart
  <2>3. f[0] = s
    BY <1>5 DEF ListRun
  <2> HIDE DEF s
  <2>4. Came(f, s)
    BY <1>4, <2>2, <2>3 DEF Came
  <2>5. after(0) = p + 2
    <3>1. ~(0 < 0) /\ 0 + 1 = 1 /\ (p + 1) + 1 = p + 2
      BY <1>4
    <3>2. off[0 + 1] = p + 1
      BY <1>8, <3>1
    <3> QED BY <3>1, <3>2
  <2> HIDE DEF after
  <2>6. ReadOn(f, s, part(0), after(0))
    BY <2>1, <2>2, <2>4, <2>5 DEF ReadOn
  <2>7. ok(0)
    OBVIOUS
  <2> HIDE DEF ok
  <2> QED BY <2>6, <2>7
<1>10. ASSUME NEW i \in Nat, i \in Goods
       PROVE  i + 1 \in Goods
  <2> SUFFICES ASSUME i + 1 <= n
               PROVE  Good(i + 1)
    OBVIOUS
  <2> DEFINE file == files[i + 1]
             o == off[i + 1] + 1
             e == o + Len(Entry(file)) + 1
  <2>1. i \in 0..n /\ i < n /\ i <= n /\ i + 1 \in 1..n /\ i + 1 \in 1..(n + 1)
        /\ i + 1 + 1 \in 1..(n + 1)
    BY <1>1
  <2>2. Good(i)
    BY <1>10, <2>1
  <2>3. ok(i + 1) <=> ok(i) /\ Extracts(file.path, 256)
    <3>1. \A j \in 1..(i + 1) : j \in 1..i \/ j = i + 1
      OBVIOUS
    <3>2. i + 1 \in 1..(i + 1) /\ \A j \in 1..i : j \in 1..(i + 1)
      OBVIOUS
    <3> QED BY <3>1, <3>2
  <2>4. /\ file \in FileRead /\ file.sha256 \in Digest
        /\ Has(t, o, Space) /\ At(t, o, Entry(file))
        /\ Has(t, e, IF i + 1 < n THEN "," ELSE Space)
        /\ off[i + 1 + 1] = off[i + 1] + (Len(Entry(file)) + 2)
    BY <1>2, <1>8, <2>1
  <2>5. /\ o \in Nat /\ o >= 1 /\ e \in Nat /\ e >= 1 /\ e = off[i + 1 + 1]
    <3>1. off[i + 1] \in Nat
      BY <1>8, <2>1
    <3>2. Len(Entry(file)) \in Nat
      <4>1. Entry(file) \in Seq(Symbol)
        BY <2>4, EntryLayout
      <4> HIDE DEF file
      <4> QED BY <4>1
    <3>3. off[i + 1 + 1] = off[i + 1] + (Len(Entry(file)) + 2)
      BY <2>4
    <3> HIDE DEF file
    <3> QED BY <3>1, <3>2, <3>3
  <2>6. after(i) = o
    BY <2>1
  <2>7. after(i + 1) = IF i + 1 < n THEN e + 1 ELSE e
    <3>1. i + 1 < n => ~(i + 1 = n)
      BY <2>1
    <3>2. ~(i + 1 < n) => i + 1 = n
      BY <1>1, <2>1
    <3> HIDE DEF e, o
    <3> QED BY <2>5, <3>1, <3>2
  <2>8. part(i + 1) = Append(part(i), file)
    BY <1>7, <2>1
  <2> HIDE DEF after, ok, file, o
  <2>9. CASE ~ok(i)
    BY <2>2, <2>3, <2>9
  <2>10. CASE ok(i)
    <3>1. PICK s : ReadOn(f, s, part(i), o)
      BY <2>2, <2>6, <2>10
    <3>2. IF Extracts(file.path, 256)
          THEN \E u : ReadOn(f, u, Append(part(i), file), e)
          ELSE FileList(t, p + 2).state = "failed"
      BY <1>5, <2>4, <2>5, <3>1, ReadEntry
    <3> HIDE DEF e
    <3>3. CASE ~Extracts(file.path, 256)
      BY <2>3, <3>2, <3>3
    <3>4. CASE Extracts(file.path, 256)
      <4>1. PICK u : ReadOn(f, u, part(i + 1), e)
        BY <2>8, <3>2, <3>4
      <4>2. ok(i + 1)
        BY <2>3, <2>10, <3>4
      <4>3. CASE ~(i + 1 < n)
        BY <2>7, <4>1, <4>2, <4>3
      <4>4. CASE i + 1 < n
        <5> DEFINE v == Pass(t, u)
        <5>1. /\ u \in ListState /\ u.state = "list" /\ u.files = part(i + 1)
              /\ u.next = e /\ Came(f, u)
          BY <4>1 DEF ReadOn
        <5>2. Has(t, e, ",")
          BY <2>4, <4>4
        <5>3. skip_json_whitespace(t, u.next) = e
          <6>1. "," # Space
            BY Symbols
          <6> QED BY <2>5, <5>1, <5>2, <6>1, SkipBlank
        <5>4. v.state = "list" /\ v.next = e + 1 /\ v.files = part(i + 1)
          BY <5>1, <5>2, <5>3, PassOfBracket
        <5>5. u.next <= Len(t) /\ u.next \in Nat /\ e + 1 > u.next
          <6>1. e <= Len(t)
            BY <5>2, HasTypes
          <6>2. e \in Nat
            BY <2>5
          <6> QED BY <5>1, <6>1, <6>2
        <5>6. v \in ListState /\ Came(f, v)
          BY <1>5, <5>1, <5>4, <5>5, CameOn
        <5> HIDE DEF v
        <5>7. ReadOn(f, v, part(i + 1), after(i + 1))
          BY <2>7, <4>4, <5>4, <5>6 DEF ReadOn
        <5> QED BY <4>2, <5>7
      <4> QED BY <4>3, <4>4
    <3> QED BY <3>3, <3>4
  <2> QED BY <2>9, <2>10
<1> HIDE DEF Goods
<1>11. Nat \subseteq Goods
  BY <1>9, <1>10, Induction
<1>12. Good(n)
  BY <1>1, <1>11 DEF Goods
<1>13. CASE ~ok(n)
  <2>1. FileList(t, p + 2).state = "failed"
    BY <1>12, <1>13
  <2> QED BY <1>13, <2>1 DEF n
<1>14. CASE ok(n)
  <2>1. PICK s : ReadOn(f, s, files, after(n))
    BY <1>6, <1>12, <1>14
  <2>2. /\ s \in ListState /\ s.state = "list" /\ s.files = files
        /\ s.next = after(n) /\ Came(f, s)
    BY <2>1 DEF ReadOn
  <2> DEFINE q == off[n + 1] + 1
  <2>3. off[n + 1] \in Nat /\ Has(t, q, "]") /\ "]" # Space
    <3>1. n + 1 \in 1..(n + 1)
      BY <1>1
    <3> QED BY <1>3, <1>8, <3>1, Symbols
  <2>4. skip_json_whitespace(t, s.next) = q /\ s.next \in Nat /\ s.next <= q
    <3>1. CASE n = 0
      <4>1. s.next = q
        BY <2>2, <3>1
      <4> QED BY <2>3, <4>1, SkipBlank
    <3>2. CASE n # 0
      <4>1. n \in 1..n /\ 0 < n /\ ~(n < n)
        BY <1>1, <3>2
      <4>2. s.next = off[n + 1]
        BY <2>2, <4>1
      <4>3. Has(t, off[n] + 1 + Len(Entry(files[n])) + 1, Space)
        BY <1>8, <4>1
      <4>4. off[n + 1] = off[n] + (Len(Entry(files[n])) + 2)
        BY <1>8, <4>1
      <4>5. off[n] \in Nat /\ Len(Entry(files[n])) \in Nat
        <5>1. files[n] \in FileRead
          BY <1>2, <4>1
        <5>2. Entry(files[n]) \in Seq(Symbol)
          BY <5>1, EntryLayout
        <5>3. n \in 1..(n + 1)
          BY <4>1
        <5>4. Len(Entry(files[n])) \in Nat
          <6> DEFINE x == Entry(files[n])
          <6>1. x \in Seq(Symbol)
            BY <5>2
          <6> HIDE DEF x
          <6>2. Len(x) \in Nat
            BY <6>1
          <6> QED BY <6>2 DEF x
        <5>5. off[n] \in Nat
          BY <1>8, <5>3
        <5> QED BY <5>4, <5>5
      <4>6. off[n] + 1 + Len(Entry(files[n])) + 1 = off[n + 1] /\ off[n + 1] >= 1
        BY <4>4, <4>5
      <4>7. Has(t, off[n + 1], Space)
        BY <4>3, <4>6
      <4> QED BY <2>3, <4>2, <4>6, <4>7, SkipBlank
    <3> QED BY <3>1, <3>2
  <2>5. Pass(t, s).state = "ok" /\ Pass(t, s).files = files
    BY <2>2, <2>3, <2>4, PassOfBracket
  <2>6. s.next <= Len(t)
    <3>1. q <= Len(t) /\ q \in Nat /\ Len(t) \in Nat
      BY <2>3, HasTypes
    <3> HIDE DEF q
    <3> QED BY <2>4, <3>1
  <2>7. FileList(t, p + 2) = Pass(t, s)
    BY <1>5, <2>2, <2>4, <2>5, <2>6, CameOn
  <2> QED BY <1>14, <2>5, <2>7 DEF n
<1> QED BY <1>13, <1>14

\* A place between the first and the last of rising places is between two.
LEMMA Located ==
    ASSUME NEW n \in Nat, NEW off, \A i \in 1..(n + 1) : off[i] \in Nat,
           NEW k \in Nat, off[1] < k, k <= off[n + 1]
    PROVE  \E i \in 1..n : off[i] < k /\ k <= off[i + 1]
<1> DEFINE S == {i \in 1..(n + 1) : k <= off[i]}
<1>1. S \subseteq Nat /\ S # {}
  <2>1. n + 1 \in S
    OBVIOUS
  <2> QED BY <2>1
<1>2. PICK a \in S : \A b \in S : a <= b
  BY <1>1, LeastNatural
<1>3. a \in 1..(n + 1) /\ k <= off[a] /\ off[a] \in Nat /\ off[1] \in Nat
  OBVIOUS
<1>4. a # 1
  BY <1>3
<1>5. a - 1 \in 1..n /\ (a - 1) + 1 = a /\ a - 1 \in 1..(n + 1)
  BY <1>3, <1>4
<1>6. a - 1 \notin S
  <2> HIDE DEF S
  <2>1. ~(a <= a - 1)
    BY <1>3
  <2> QED BY <1>2, <2>1
<1>7. off[a - 1] < k
  <2>1. off[a - 1] \in Nat
    BY <1>5
  <2> QED BY <1>5, <1>6, <2>1
<1> QED BY <1>3, <1>5, <1>7

\* What the symbols of the key can be in an escaped text.
LEMMA EscapedEnds ==
    ASSUME NEW c \in Symbol
    PROVE  LET e == Escaped(c)
           IN  /\ Len(e) \in Nat /\ Len(e) >= 1 /\ e[1] # Quote
               /\ e[Len(e)] = Quote <=> c = Quote
               /\ \A i \in 1..Len(e) : e[i] = "files" => c = "files"
               /\ c = "files" => Len(e) = 1 /\ e[1] = "files"
<1> DEFINE e == Escaped(c)
<1>1. /\ Len(e) >= 1 /\ e \in Seq(Symbol)
      /\ c \in {Quote, Backslash} => Len(e) = 2 /\ e[1] = Backslash /\ e[2] = c
      /\ c = Special => Len(e) = 2 /\ e[1] = Backslash /\ e[2] = "u00e9"
      /\ c \notin {Quote, Backslash, Special} => Len(e) = 1 /\ e[1] = c
  BY EscapedIs
<1>2. Len(e) \in Nat
  <2>1. e \in Seq(Symbol)
    BY <1>1
  <2> HIDE DEF e
  <2> QED BY <2>1
<1>3. /\ Quote # Backslash /\ Special # Quote /\ "u00e9" # Quote /\ Backslash # "files"
      /\ Quote # "files" /\ "u00e9" # "files" /\ Special # "files"
  BY Symbols
<1> HIDE DEF e
<1>4. CASE c \in {Quote, Backslash}
  <2>1. Len(e) = 2 /\ e[1] = Backslash /\ e[2] = c
    BY <1>1, <1>4
  <2>2. \A i \in 1..2 : i = 1 \/ i = 2
    OBVIOUS
  <2>3. \A i \in 1..Len(e) : e[i] # "files"
    BY <1>3, <1>4, <2>1, <2>2
  <2>4. e[Len(e)] = c /\ e[1] # Quote /\ c # "files"
    BY <1>3, <1>4, <2>1
  <2> QED BY <1>1, <1>2, <2>3, <2>4 DEF e
<1>5. CASE c = Special
  <2>1. Len(e) = 2 /\ e[1] = Backslash /\ e[2] = "u00e9"
    BY <1>1, <1>5
  <2>2. \A i \in 1..2 : i = 1 \/ i = 2
    OBVIOUS
  <2>3. \A i \in 1..Len(e) : e[i] # "files"
    BY <1>3, <2>1, <2>2
  <2>4. e[Len(e)] # Quote /\ c # Quote /\ e[1] # Quote /\ c # "files"
    BY <1>3, <1>5, <2>1
  <2> QED BY <1>1, <1>2, <2>3, <2>4 DEF e
<1>6. CASE c \notin {Quote, Backslash, Special}
  <2>1. Len(e) = 1 /\ e[1] = c
    BY <1>1, <1>6
  <2>2. \A i \in 1..1 : i = 1
    OBVIOUS
  <2>3. \A i \in 1..Len(e) : e[i] = c
    BY <2>1, <2>2
  <2> QED BY <1>1, <1>2, <1>6, <2>1, <2>3 DEF e
<1> QED BY <1>4, <1>5, <1>6

\* A text that dumps writes so that it ends like the key.
EndsLikeKey(v) ==
    /\ Len(v) > 0 /\ v[Len(v)] = "files"
    /\ Len(v) > 1 => v[Len(v) - 1] = Quote

\* The text of the key is found only at the end of a string.
LEMMA KeyInString ==
    ASSUME NEW v \in Seq(Symbol), NEW t \in Seq(Symbol), NEW p, At(t, p, String(v))
    PROVE  LET end == p + Len(String(v))
           IN  /\ \A j : KeyAt(t, j) /\ p < j + 1 /\ j + 1 <= end =>
                    EndsLikeKey(v) /\ j + 2 = end
               /\ EndsLikeKey(v) => KeyAt(t, end - 2)
<1> DEFINE n == Len(v)
           end == p + Len(String(v))
<1>1. PICK off \in [1..(n + 1) -> Nat] :
         /\ off[1] = p + 1 /\ Has(t, p + 1, Quote)
         /\ \A i \in 1..n : /\ off[i + 1] = off[i] + Len(Escaped(v[i]))
                            /\ At(t, off[i], Escaped(v[i]))
         /\ off[n + 1] + 1 = end
         /\ Has(t, off[n + 1] + 1, Quote)
  BY StringLayout
<1>2. n \in Nat /\ p \in Nat /\ \A i \in 1..n : v[i] \in Symbol
  BY DEF At
<1>3. n \in Nat /\ p \in Nat
  BY <1>2
<1> HIDE DEF end, n
<1>4. ASSUME NEW i \in 1..n
      PROVE  /\ off[i] \in Nat /\ off[i + 1] \in Nat
             /\ off[i + 1] = off[i] + Len(Escaped(v[i]))
             /\ Len(Escaped(v[i])) \in Nat /\ Len(Escaped(v[i])) >= 1
             /\ off[i + 1] <= Len(t)
             /\ \A d \in 1..Len(Escaped(v[i])) : t[off[i] + d] = Escaped(v[i])[d]
  <2>1. i \in 1..(n + 1) /\ i + 1 \in 1..(n + 1)
    BY <1>2
  <2>2. /\ off[i + 1] = off[i] + Len(Escaped(v[i]))
        /\ At(t, off[i], Escaped(v[i]))
    BY <1>1
  <2>3. Len(Escaped(v[i])) \in Nat /\ Len(Escaped(v[i])) >= 1
    BY <1>2, EscapedEnds
  <2> QED BY <2>1, <2>2, <2>3 DEF At
<1>5. end \in Nat /\ end <= Len(t) /\ t[end] = Quote /\ t[p + 1] = Quote /\ off[n + 1] \in Nat
  <2>1. n + 1 \in 1..(n + 1)
    BY <1>2
  <2>2. off[n + 1] \in Nat
    BY <2>1
  <2>3. t[off[n + 1] + 1] = Quote /\ off[n + 1] + 1 <= Len(t) /\ t[p + 1] = Quote
    BY <1>1 DEF Has
  <2> QED BY <1>1, <2>2, <2>3
<1>6. Quote # "files"
  BY Symbols
\* The symbol before the last one, and whether it is a quote.
<1>7. n > 0 => t[off[n]] = Quote <=> (n > 1 => v[n - 1] = Quote)
  <2> SUFFICES ASSUME n > 0
               PROVE  t[off[n]] = Quote <=> (n > 1 => v[n - 1] = Quote)
    OBVIOUS
  <2>1. CASE n = 1
    BY <1>1, <1>5, <2>1
  <2>2. CASE n # 1
    <3> DEFINE h == n - 1
    <3>1. h \in 1..n /\ h + 1 = n /\ n > 1
      BY <1>3, <2>2
    <3> HIDE DEF h
    <3>2. /\ off[n] = off[h] + Len(Escaped(v[h])) /\ Len(Escaped(v[h])) \in 1..Len(Escaped(v[h]))
          /\ \A d \in 1..Len(Escaped(v[h])) : t[off[h] + d] = Escaped(v[h])[d]
      BY <1>4, <3>1
    <3>3. t[off[n]] = Escaped(v[h])[Len(Escaped(v[h]))]
      BY <3>2
    <3>4. Escaped(v[h])[Len(Escaped(v[h]))] = Quote <=> v[h] = Quote
      BY <1>2, <3>1, EscapedEnds
    <3> QED BY <3>1, <3>3, <3>4 DEF h
  <2> QED BY <2>1, <2>2
<1>8. ASSUME NEW j, KeyAt(t, j), p < j + 1, j + 1 <= end
      PROVE  EndsLikeKey(v) /\ j + 2 = end
  <2>1. /\ j \in Nat /\ j >= 1 /\ j + 2 <= Len(t)
        /\ t[j] = Quote /\ t[j + 1] = "files" /\ t[j + 2] = Quote
    BY <1>8 DEF KeyAt
  <2>2. off[1] < j + 1 /\ j + 1 <= off[n + 1] /\ j + 1 \in Nat
    <3>1. j + 1 # p + 1 /\ j + 1 # end
      BY <1>5, <1>6, <2>1
    <3> QED BY <1>1, <1>2, <1>5, <1>8, <2>1, <3>1
  <2>3. PICK i \in 1..n : off[i] < j + 1 /\ j + 1 <= off[i + 1]
    BY <1>2, <2>2, Located
  <2> DEFINE d == j + 1 - off[i]
  <2>4. d \in 1..Len(Escaped(v[i])) /\ off[i] + d = j + 1
    <3>1. /\ off[i] \in Nat /\ off[i + 1] = off[i] + Len(Escaped(v[i]))
          /\ Len(Escaped(v[i])) \in Nat
      BY <1>4
    <3>2. j \in Nat
      BY <2>1
    <3> QED BY <2>3, <3>1, <3>2
  <2>5. Escaped(v[i])[d] = "files"
    BY <1>4, <2>1, <2>4
  <2> HIDE DEF d
  <2>6. v[i] = "files" /\ Len(Escaped(v[i])) = 1
    BY <1>2, <2>4, <2>5, EscapedEnds
  <2>7. off[i + 1] = j + 1 /\ off[i] = j
    <3>1. off[i] \in Nat /\ off[i + 1] = off[i] + Len(Escaped(v[i]))
      BY <1>4
    <3>2. d \in 1..1 /\ off[i] + d = j + 1
      BY <2>4, <2>6
    <3>3. off[i + 1] = off[i] + 1
      BY <2>6, <3>1
    <3>4. j \in Nat
      BY <2>1
    <3> QED BY <3>1, <3>2, <3>3, <3>4
  <2>8. i = n
    <3> SUFFICES ASSUME i # n
                 PROVE  FALSE
      OBVIOUS
    <3>1. i + 1 \in 1..n
      BY <1>2
    <3>2. 1 \in 1..Len(Escaped(v[i + 1]))
      BY <1>4, <3>1
    <3>3. t[off[i + 1] + 1] = Escaped(v[i + 1])[1]
      BY <1>4, <3>1, <3>2
    <3>4. Escaped(v[i + 1])[1] # Quote
      BY <1>2, <3>1, EscapedEnds
    <3>5. off[i + 1] + 1 = j + 2
      BY <2>1, <2>7
    <3> QED BY <2>1, <3>3, <3>4, <3>5
  <2>9. j + 2 = end
    BY <1>1, <2>1, <2>7, <2>8
  <2>10. n > 0 /\ v[n] = "files" /\ t[off[n]] = Quote
    BY <1>2, <2>1, <2>6, <2>7, <2>8
  <2>11. n > 1 => v[n - 1] = Quote
    BY <1>7, <2>10
  <2> QED BY <2>9, <2>10, <2>11 DEF EndsLikeKey, n
<1>9. ASSUME EndsLikeKey(v)
      PROVE  KeyAt(t, end - 2)
  <2>1. n > 0 /\ v[n] = "files" /\ (n > 1 => v[n - 1] = Quote)
    BY <1>3, <1>9 DEF EndsLikeKey, n
  <2>2. n \in 1..n
    BY <1>2, <2>1
  <2>3. t[off[n]] = Quote
    BY <1>7, <2>1
  <2>4. Len(Escaped(v[n])) = 1 /\ Escaped(v[n])[1] = "files"
    BY <1>2, <2>1, <2>2, EscapedEnds
  <2>5. 1 \in 1..Len(Escaped(v[n]))
    BY <2>4
  <2>6. t[off[n] + 1] = "files" /\ off[n + 1] = off[n] + 1 /\ off[n] \in Nat
    BY <1>4, <2>2, <2>4, <2>5
  <2>7. off[n] = end - 2 /\ off[n] + 2 = end
    <3>1. off[n + 1] + 1 = end /\ off[n + 1] = off[n] + 1 /\ off[n] \in Nat
      BY <1>1, <2>6
    <3> QED BY <3>1
  <2>8. off[n] >= 1
    <3>1. CASE n = 1
      BY <1>1, <1>2, <3>1
    <3>2. CASE n # 1
      <4>1. n - 1 \in 1..n /\ (n - 1) + 1 = n
        BY <1>3, <2>1, <3>2
      <4>2. /\ off[n] = off[n - 1] + Len(Escaped(v[n - 1])) /\ off[n - 1] \in Nat
            /\ Len(Escaped(v[n - 1])) \in Nat /\ Len(Escaped(v[n - 1])) >= 1
        BY <1>4, <4>1
      <4> QED BY <4>2
    <3> QED BY <3>1, <3>2
  <2>9. KeyAt(t, off[n])
    BY <1>5, <2>3, <2>6, <2>7, <2>8 DEF KeyAt
  <2> QED BY <2>7, <2>9
<1> QED BY <1>8, <1>9 DEF end

\* The end of a text, symbol by symbol.
LEMMA SuffixIs ==
    ASSUME NEW v \in Seq(Symbol)
    PROVE  IsSuffix(<<Quote, "files">>, v) <=>
             Len(v) >= 2 /\ v[Len(v) - 1] = Quote /\ v[Len(v)] = "files"
<1> DEFINE n == Len(v)
           s == <<Quote, "files">>
           r == Reverse(v)
           q == Reverse(s)
<1>1. n \in Nat /\ \A i \in 1..n : v[i] \in Symbol
  OBVIOUS
<1>2. Quote \in Symbol /\ "files" \in Symbol
  BY Symbols
<1>3. r \in Seq(Symbol) /\ Len(r) = n /\ \A i \in 1..n : r[i] = v[(n - i) + 1]
  <2>1. r = [i \in 1..n |-> v[(n - i) + 1]]
    BY DEF Reverse
  <2>2. \A i \in 1..n : (n - i) + 1 \in 1..n
    BY <1>1
  <2> HIDE DEF n, r
  <2>3. r \in [1..n -> Symbol]
    BY <1>1, <2>1, <2>2
  <2>4. Len(r) = n /\ r \in Seq(Symbol)
    BY <1>1, <2>3
  <2> QED BY <2>1, <2>4
<1>4. /\ s \in Seq(Symbol) /\ Len(s) = 2 /\ s[1] = Quote /\ s[2] = "files"
  BY <1>2
<1> HIDE DEF s
<1>5. q \in Seq(Symbol) /\ Len(q) = 2 /\ q[1] = "files" /\ q[2] = Quote
  <2> DEFINE k == 2
  <2>1. k \in Nat /\ \A i \in 1..k : (k - i) + 1 \in 1..k
    OBVIOUS
  <2>2. q = [i \in 1..k |-> s[(k - i) + 1]]
    BY <1>4 DEF Reverse
  <2>3. \A i \in 1..k : s[i] \in Symbol
    <3>1. \A i \in 1..2 : i = 1 \/ i = 2
      OBVIOUS
    <3> QED BY <1>2, <1>4, <3>1
  <2>4. (k - 1) + 1 = 2 /\ (k - 2) + 1 = 1 /\ 1 \in 1..k /\ 2 \in 1..k
    OBVIOUS
  <2> HIDE DEF k, q
  <2>5. q \in [1..k -> Symbol]
    BY <2>1, <2>2, <2>3
  <2>6. q[1] = "files" /\ q[2] = Quote
    BY <1>4, <2>2, <2>4
  <2>7. Len(q) = k /\ q \in Seq(Symbol)
    BY <2>1, <2>5
  <2> QED BY <2>6, <2>7 DEF k
<1>6. IsSuffix(s, v) <=> 2 <= n /\ SubSeq(q, 1, 2) = SubSeq(r, 1, 2)
  BY <1>3, <1>5 DEF IsSuffix, IsPrefix
<1> HIDE DEF n, r, q
<1>7. ASSUME 2 <= n
      PROVE  SubSeq(q, 1, 2) = SubSeq(r, 1, 2) <=> v[n - 1] = Quote /\ v[n] = "files"
  <2> DEFINE a == SubSeq(q, 1, 2)
             b == SubSeq(r, 1, 2)
  <2>1. a \in Seq(Symbol) /\ Len(a) = 2 /\ a[1] = "files" /\ a[2] = Quote
    BY <1>5
  <2>2. b \in Seq(Symbol) /\ Len(b) = 2 /\ b[1] = r[1] /\ b[2] = r[2]
    BY <1>1, <1>3, <1>7
  <2>3. r[1] = v[n] /\ r[2] = v[n - 1]
    <3>1. 1 \in 1..n /\ 2 \in 1..n /\ (n - 1) + 1 = n /\ (n - 2) + 1 = n - 1
      BY <1>1, <1>7
    <3> QED BY <1>3, <3>1
  <2> HIDE DEF a, b
  <2>4. a = b <=> a[1] = b[1] /\ a[2] = b[2]
    BY <2>1, <2>2
  <2> QED BY <2>1, <2>2, <2>3, <2>4 DEF a, b
<1> QED BY <1>1, <1>6, <1>7 DEF n, s

\* The texts at which the search for the key stops.
LEMMA EndsLikeKeyIs ==
    ASSUME NEW v \in Seq(Symbol)
    PROVE  EndsLikeKey(v) <=> v = <<"files">> \/ IsSuffix(<<Quote, "files">>, v)
<1> DEFINE n == Len(v)
           w == <<"files">>
<1>1. n \in Nat
  OBVIOUS
<1>2. v = w <=> n = 1 /\ v[1] = "files"
  <2>1. "files" \in Symbol
    BY Symbols
  <2>2. w \in Seq(Symbol) /\ Len(w) = 1 /\ w[1] = "files"
    BY <2>1
  <2> HIDE DEF w
  <2> QED BY <2>2
<1>3. IsSuffix(<<Quote, "files">>, v) <=> n >= 2 /\ v[n - 1] = Quote /\ v[n] = "files"
  BY SuffixIs
<1>4. EndsLikeKey(v) <=> n > 0 /\ v[n] = "files" /\ (n > 1 => v[n - 1] = Quote)
  BY DEF EndsLikeKey
<1> HIDE DEF n, w
<1> DEFINE ends == v[n] = "files"
           quoted == v[n - 1] = Quote
<1>5. EndsLikeKey(v) <=> v = w \/ (n >= 2 /\ quoted /\ ends)
  <2> HIDE DEF quoted
  <2>1. CASE n = 1
    BY <1>2, <1>4, <2>1 DEF quoted
  <2>2. CASE n = 0
    BY <1>2, <1>4, <2>2
  <2>3. CASE n > 1
    <3>1. n > 0 /\ n >= 2 /\ n # 1
      BY <1>1, <2>3
    <3> QED BY <1>2, <1>4, <2>3, <3>1 DEF quoted
  <2>4. n = 0 \/ n = 1 \/ n > 1
    BY <1>1
  <2> QED BY <2>1, <2>2, <2>3, <2>4
<1> QED BY <1>3, <1>5, Zenon DEF w

\* In a member the text of the key is found only at the end of its value.
LEMMA KeyInMember ==
    ASSUME NEW key \in Symbol, key # "files", NEW v \in Seq(Symbol),
           NEW t \in Seq(Symbol), NEW p, At(t, p, Member(key, String(v)))
    PROVE  LET end == p + Len(Member(key, String(v)))
           IN  /\ \A j : KeyAt(t, j) /\ p < j + 1 /\ j + 1 <= end =>
                    EndsLikeKey(v) /\ j + 2 = end
               /\ EndsLikeKey(v) => KeyAt(t, end - 2)
<1> DEFINE a == Len(String(<<key>>))
           b == Len(String(v))
           q == p + a + 2
           end == p + Len(Member(key, String(v)))
<1>1. <<key>> \in Seq(Symbol) /\ Len(<<key>>) = 1 /\ <<key>>[1] = key
  OBVIOUS
<1>2. String(v) \in Seq(Symbol) /\ String(<<key>>) \in Seq(Symbol)
  BY <1>1, StringLayout
<1>3. /\ At(t, p, String(<<key>>)) /\ Has(t, p + a + 1, ":") /\ Has(t, p + a + 2, Space)
      /\ At(t, q, String(v)) /\ Len(Member(key, String(v))) = a + 2 + b
  BY <1>2, MemberLayout
<1>4. p \in Nat /\ a \in Nat /\ b \in Nat
  <2>1. p \in Nat
    BY DEF At
  <2>2. ASSUME NEW x \in Seq(Symbol)
        PROVE  Len(x) \in Nat
    OBVIOUS
  <2> QED BY <1>2, <2>1, <2>2
<1> HIDE DEF a, b
<1>5. q \in Nat /\ end = q + b
  BY <1>3, <1>4
<1>6. /\ \A j : KeyAt(t, j) /\ q < j + 1 /\ j + 1 <= q + b => EndsLikeKey(v) /\ j + 2 = q + b
      /\ EndsLikeKey(v) => KeyAt(t, (q + b) - 2)
  BY <1>3, KeyInString DEF b
<1>7. \A j : ~(KeyAt(t, j) /\ p < j + 1 /\ j + 1 <= p + a)
  <2>1. ~EndsLikeKey(<<key>>)
    BY <1>1 DEF EndsLikeKey
  <2> QED BY <1>1, <1>3, <2>1, KeyInString DEF a
<1>8. ASSUME NEW j, KeyAt(t, j), p < j + 1, j + 1 <= end
      PROVE  EndsLikeKey(v) /\ j + 2 = end
  <2>1. j \in Nat /\ t[j + 1] = "files"
    BY <1>8 DEF KeyAt
  <2>2. j + 1 # p + a + 1 /\ j + 1 # p + a + 2
    BY <1>3, <2>1, Symbols DEF Has
  <2>3. ~(j + 1 <= p + a)
    BY <1>7, <1>8
  <2>4. q < j + 1
    BY <1>4, <2>1, <2>2, <2>3
  <2> HIDE DEF q, end
  <2> QED BY <1>5, <1>6, <1>8, <2>4
<1> HIDE DEF q
<1>9. EndsLikeKey(v) => KeyAt(t, end - 2)
  <2> HIDE DEF end
  <2> QED BY <1>5, <1>6
<1> QED BY <1>8, <1>9

\* The key itself is found.
LEMMA FilesKey ==
    ASSUME NEW t \in Seq(Symbol), NEW p, At(t, p, String(<<"files">>))
    PROVE  KeyAt(t, p + 1) /\ Len(String(<<"files">>)) = 3
<1> DEFINE v == <<"files">>
           l == Len(String(v))
<1>1. "files" \in Symbol
  BY Symbols
<1>2. v \in Seq(Symbol) /\ Len(v) = 1 /\ v[1] = "files"
  BY <1>1
<1> HIDE DEF v
<1>3. String(v) \in Seq(Symbol)
  BY <1>2, StringLayout
<1>4. p \in Nat /\ At(t, p, String(v))
  BY DEF At, v
<1>5. PICK off \in [1..(1 + 1) -> Nat] :
         /\ off[1] = p + 1
         /\ \A i \in 1..1 : off[i + 1] = off[i] + Len(Escaped(v[i]))
         /\ off[1 + 1] + 1 = p + l
  <2>1. \E off \in [1..(Len(v) + 1) -> Nat] :
           /\ off[1] = p + 1 /\ Has(t, p + 1, Quote)
           /\ \A i \in 1..Len(v) : /\ off[i + 1] = off[i] + Len(Escaped(v[i]))
                                   /\ At(t, off[i], Escaped(v[i]))
           /\ off[Len(v) + 1] + 1 = p + l
           /\ Has(t, off[Len(v) + 1] + 1, Quote)
    BY <1>2, <1>4, StringLayout
  <2> HIDE DEF l
  <2> QED BY <1>2, <2>1
<1>6. l = 3
  <2>1. l \in Nat
    <3> DEFINE w == String(v)
    <3>1. w \in Seq(Symbol)
      BY <1>3
    <3> HIDE DEF w
    <3>2. Len(w) \in Nat
      BY <3>1
    <3> QED BY <3>2 DEF w
  <2>2. Len(Escaped(v[1])) = 1
    BY <1>1, <1>2, EscapedEnds
  <2>3. off[1 + 1] = off[1] + 1
    <3>1. 1 \in 1..1
      OBVIOUS
    <3>2. off[1 + 1] = off[1] + Len(Escaped(v[1]))
      BY <1>5, <3>1
    <3> QED BY <2>2, <3>2
  <2> HIDE DEF l
  <2> QED BY <1>4, <1>5, <2>1, <2>3
<1>7. EndsLikeKey(v)
  BY <1>2 DEF EndsLikeKey
<1>8. KeyAt(t, (p + l) - 2)
  BY <1>2, <1>4, <1>7, KeyInString
<1> HIDE DEF l
<1>9. (p + l) - 2 = p + 1
  BY <1>4, <1>6
<1> QED BY <1>6, <1>8, <1>9 DEF l, v

\* What dumps writes for a manifest.
Members(m) == <<Member("platform", String(m.platform)),
                Member("fw_version", String(m.fw_version)),
                Member("build_date_utc", String(<<"now">>)),
                Member("git_commit", String(<<"unknown">>)),
                Member("files", List(Entries(m.files)))>>

IsManifest(m) == /\ m.platform \in Seq(Symbol) /\ m.fw_version \in Seq(Symbol)
                 /\ m.files \in Seq(ListedFile)

\* Two texts that are always there.
LEMMA ShortTexts ==
    /\ <<"now">> \in Seq(Symbol) /\ <<"unknown">> \in Seq(Symbol)
    /\ ~EndsLikeKey(<<"now">>) /\ ~EndsLikeKey(<<"unknown">>)
<1>1. "now" \in Symbol /\ "unknown" \in Symbol
  BY Symbols
<1> QED BY <1>1 DEF EndsLikeKey

\* The five members of a manifest.
LEMMA MembersAre ==
    ASSUME NEW m, IsManifest(m)
    PROVE  /\ Members(m) \in Seq(Seq(Symbol)) /\ Len(Members(m)) = 5
           /\ Members(m)[1] = Member("platform", String(m.platform))
           /\ Members(m)[2] = Member("fw_version", String(m.fw_version))
           /\ Members(m)[3] = Member("build_date_utc", String(<<"now">>))
           /\ Members(m)[4] = Member("git_commit", String(<<"unknown">>))
           /\ Members(m)[5] = Member("files", List(Entries(m.files)))
           /\ List(Entries(m.files)) \in Seq(Symbol)
<1> DEFINE a == Member("platform", String(m.platform))
           b == Member("fw_version", String(m.fw_version))
           c == Member("build_date_utc", String(<<"now">>))
           d == Member("git_commit", String(<<"unknown">>))
           e == Member("files", List(Entries(m.files)))
<1>1. m.files \in Seq(FileRead)
  <2>1. ListedFile \subseteq FileRead
    BY DEF ListedFile, FileRead, Digest
  <2> QED BY <2>1 DEF IsManifest
<1>2. List(Entries(m.files)) \in Seq(Symbol)
  BY <1>1, ListLayout
<1>3. /\ String(m.platform) \in Seq(Symbol) /\ String(m.fw_version) \in Seq(Symbol)
      /\ String(<<"now">>) \in Seq(Symbol) /\ String(<<"unknown">>) \in Seq(Symbol)
  <2>1. <<"now">> \in Seq(Symbol) /\ <<"unknown">> \in Seq(Symbol)
    BY ShortTexts
  <2> QED BY <2>1, StringLayout DEF IsManifest
<1>4. /\ "platform" \in Symbol /\ "fw_version" \in Symbol /\ "build_date_utc" \in Symbol
      /\ "git_commit" \in Symbol /\ "files" \in Symbol
  BY Symbols
<1>5. /\ a \in Seq(Symbol) /\ b \in Seq(Symbol) /\ c \in Seq(Symbol)
      /\ d \in Seq(Symbol) /\ e \in Seq(Symbol)
  BY <1>2, <1>3, <1>4, MemberLayout
<1>6. Members(m) = <<a, b, c, d, e>>
  BY DEF Members
<1> HIDE DEF a, b, c, d, e
<1>7. /\ Members(m) \in Seq(Seq(Symbol)) /\ Len(Members(m)) = 5
      /\ Members(m)[1] = a /\ Members(m)[2] = b /\ Members(m)[3] = c
      /\ Members(m)[4] = d /\ Members(m)[5] = e
  BY <1>5, <1>6
<1> QED BY <1>2, <1>7 DEF a, b, c, d, e

\* Where the members of a manifest are.
LEMMA DumpLayout ==
    ASSUME NEW m, IsManifest(m)
    PROVE  /\ dumps(m) \in Seq(Symbol)
           /\ \E off : Placed(Members(m), dumps(m), 1, off)
<1> DEFINE t == dumps(m)
           x == Separated(Members(m))
<1>1. t = <<"{">> \o x \o <<"}">>
  BY DEF dumps, Members, Entries, Entry, Object
<1>2. Members(m) \in Seq(Seq(Symbol))
  BY MembersAre
<1>3. x \in Seq(Symbol)
  BY <1>2, SeparatedLayout
<1>4. "{" \in Symbol /\ "}" \in Symbol
  BY Symbols
<1> HIDE DEF x
<1>5. t \in Seq(Symbol)
  BY <1>1, <1>3, <1>4, EnclosedLayout
<1> HIDE DEF t
<1>6. At(t, 0, t)
  BY <1>5 DEF At
<1>7. At(t, 0 + 1, x)
  <2>1. At(t, 0, <<"{">> \o x \o <<"}">>)
    BY <1>1, <1>6
  <2> QED BY <1>3, <1>4, <1>5, <2>1, EnclosedLayout
<1>8. At(t, 1, x)
  BY <1>7
<1>9. \E off : Placed(Members(m), t, 1, off)
  BY <1>2, <1>5, <1>8, SeparatedLayout DEF x
<1> QED BY <1>5, <1>9 DEF t

\* Where the key can be found in a member before the last.
LEMMA KeyInItem ==
    ASSUME NEW items, NEW n \in Nat, Len(items) = n, NEW t \in Seq(Symbol), NEW off,
           Placed(items, t, 1, off),
           NEW i \in 1..n, i < n, Len(items[i]) \in Nat,
           NEW key \in Symbol, key # "files", NEW v \in Seq(Symbol),
           items[i] = Member(key, String(v))
    PROVE  /\ \A j : KeyAt(t, j) /\ off[i] < j + 1 /\ j + 1 <= off[i + 1] =>
                EndsLikeKey(v) /\ Has(t, j + 3, ",")
           /\ EndsLikeKey(v) => KeyAt(t, off[i + 1] - 3)
<1> DEFINE a == off[i]
           b == off[i + 1]
           l == Len(items[i])
           p == off[i] + 1
<1>1. /\ off \in [1..(n + 1) -> Nat]
      /\ off[i + 1] = off[i] + (l + 2)
      /\ Has(t, off[i] + 1, Space) /\ At(t, off[i] + 1, items[i])
      /\ Has(t, off[i] + 1 + l + 1, ",")
  BY DEF Placed
<1>2. /\ off[i] \in Nat /\ off[i + 1] = off[i] + (l + 2)
      /\ Has(t, p, Space) /\ At(t, p, items[i]) /\ Has(t, p + l + 1, ",")
  <2>1. i \in 1..(n + 1)
    OBVIOUS
  <2>2. off[i] \in Nat
    BY <1>1, <2>1
  <2> QED BY <1>1, <2>2
<1>3. l \in Nat
  OBVIOUS
<1>4. /\ \A j : KeyAt(t, j) /\ p < j + 1 /\ j + 1 <= p + l => EndsLikeKey(v) /\ j + 2 = p + l
      /\ EndsLikeKey(v) => KeyAt(t, (p + l) - 2)
  <2>1. At(t, p, Member(key, String(v))) /\ l = Len(Member(key, String(v)))
    BY <1>2
  <2> HIDE DEF p, l
  <2> QED BY <2>1, KeyInMember
<1>5. Has(t, p, Space) /\ Has(t, p + l + 1, ",")
  BY <1>2
<1>6. a \in Nat /\ b = a + (l + 2) /\ p = a + 1
  BY <1>2
<1>7. SUFFICES /\ \A j : KeyAt(t, j) /\ a < j + 1 /\ j + 1 <= b =>
                       EndsLikeKey(v) /\ Has(t, j + 3, ",")
               /\ EndsLikeKey(v) => KeyAt(t, b - 3)
  OBVIOUS
<1> HIDE DEF a, b, l, p
<1>8. p \in Nat
  BY <1>6
<1>9. ASSUME NEW j, KeyAt(t, j), a < j + 1, j + 1 <= b
      PROVE  EndsLikeKey(v) /\ Has(t, j + 3, ",")
  <2>1. j \in Nat /\ t[j + 1] = "files"
    BY <1>9 DEF KeyAt
  <2>2. j + 1 # p /\ j + 1 # p + l + 1
    <3>1. t[p] = Space /\ t[p + l + 1] = "," /\ Space # "files" /\ "," # "files"
      BY <1>5, Symbols DEF Has
    <3> QED BY <2>1, <3>1
  <2>3. p < j + 1 /\ j + 1 <= p + l
    <3>1. j \in Nat /\ a < j + 1 /\ j + 1 <= b
      BY <1>9, <2>1
    <3> QED BY <1>3, <1>6, <2>2, <3>1
  <2>4. EndsLikeKey(v) /\ j + 2 = p + l
    BY <1>4, <1>9, <2>3
  <2>5. j + 3 = p + l + 1
    BY <1>3, <1>8, <2>1, <2>4
  <2> QED BY <1>5, <2>4, <2>5
<1>10. ASSUME EndsLikeKey(v)
      PROVE  KeyAt(t, b - 3)
  <2>1. b - 3 = (p + l) - 2
    BY <1>3, <1>6
  <2> QED BY <1>4, <1>10, <2>1
<1> QED BY <1>9, <1>10

\* Up to its key, and to the texts that end like it.
KeysUpTo(t, o, m) ==
    /\ \A j : KeyAt(t, j) /\ j < o + 1 => ~KeyIsFirst(m) /\ Has(t, j + 3, ",")
    /\ ~KeyIsFirst(m) => \E j : KeyAt(t, j) /\ j < o + 1

\* Every manifest has its list behind its key.
LEMMA KeysOfDump ==
    ASSUME NEW m, IsManifest(m)
    PROVE  \E o \in Nat : /\ At(dumps(m), o, Member("files", List(Entries(m.files))))
                          /\ KeysUpTo(dumps(m), o, m)
<1> DEFINE t == dumps(m)
           items == Members(m)
<1>1. t \in Seq(Symbol) /\ items \in Seq(Seq(Symbol)) /\ Len(items) = 5
  BY DumpLayout, MembersAre
<1>2. PICK off : Placed(items, t, 1, off)
  BY DumpLayout
<1>3. /\ items[1] = Member("platform", String(m.platform))
      /\ items[2] = Member("fw_version", String(m.fw_version))
      /\ items[3] = Member("build_date_utc", String(<<"now">>))
      /\ items[4] = Member("git_commit", String(<<"unknown">>))
      /\ items[5] = Member("files", List(Entries(m.files)))
  BY MembersAre
<1> HIDE DEF t, items
<1> DEFINE n == 5
<1>4. Len(items) = n /\ n \in Nat /\ \A i \in 1..n : Len(items[i]) \in Nat
  <2>1. Len(items) = n /\ n \in Nat
    BY <1>1
  <2> HIDE DEF n
  <2>2. \A i \in 1..n : items[i] \in Seq(Symbol)
    <3>1. \A S : \A w \in Seq(S) : \A i \in 1..Len(w) : w[i] \in S
      OBVIOUS
    <3> QED BY <1>1, <2>1, <3>1, Zenon
  <2>3. \A w \in Seq(Symbol) : Len(w) \in Nat
    OBVIOUS
  <2> QED BY <2>1, <2>2, <2>3
<1> HIDE DEF n
<1>5. /\ off \in [1..(n + 1) -> Nat] /\ off[1] = 1
      /\ \A i \in 1..n : /\ off[i + 1] = off[i] + (Len(items[i]) + 2)
                         /\ Has(t, off[i] + 1, Space) /\ At(t, off[i] + 1, items[i])
  BY <1>2, <1>4 DEF Placed
<1>6. \A i \in 1..(n + 1) : off[i] \in Nat
  BY <1>5
<1>7. \A i \in 1..n : off[i] <= off[i + 1]
  <2> SUFFICES ASSUME NEW i \in 1..n
               PROVE  off[i] <= off[i + 1]
    OBVIOUS
  <2>1. i \in 1..(n + 1)
    BY <1>4
  <2>2. off[i] \in Nat /\ Len(items[i]) \in Nat /\ off[i + 1] = off[i] + (Len(items[i]) + 2)
    BY <1>4, <1>5, <1>6, <2>1
  <2> QED BY <2>2
<1>8. 1..n = 1..5 /\ 1..(n + 1) = 1..6 /\ 1..(4 + 1) \subseteq 1..(n + 1)
  BY DEF n
<1>9. /\ off[1] \in Nat /\ off[2] \in Nat /\ off[3] \in Nat /\ off[4] \in Nat
      /\ off[5] \in Nat /\ off[2] <= off[3] /\ off[3] <= off[4] /\ off[4] <= off[5]
  <2>1. \A i \in 1..6 : off[i] \in Nat
    BY <1>6, <1>8
  <2>2. \A i \in 1..5 : off[i] <= off[i + 1]
    BY <1>7, <1>8
  <2>3. off[2] <= off[2 + 1] /\ off[3] <= off[3 + 1] /\ off[4] <= off[4 + 1]
    BY <2>2
  <2> QED BY <2>1, <2>3
<1> DEFINE o == off[5] + 1
           Key(i, v) == /\ \A j : KeyAt(t, j) /\ off[i] < j + 1 /\ j + 1 <= off[i + 1] =>
                              EndsLikeKey(v) /\ Has(t, j + 3, ",")
                        /\ EndsLikeKey(v) => KeyAt(t, off[i + 1] - 3)
<1>10. Key(1, m.platform) /\ Key(2, m.fw_version) /\ Key(3, <<"now">>) /\ Key(4, <<"unknown">>)
  <2>1. /\ m.platform \in Seq(Symbol) /\ m.fw_version \in Seq(Symbol)
        /\ <<"now">> \in Seq(Symbol) /\ <<"unknown">> \in Seq(Symbol)
    BY ShortTexts DEF IsManifest
  <2>2. /\ "platform" \in Symbol \ {"files"} /\ "fw_version" \in Symbol \ {"files"}
        /\ "build_date_utc" \in Symbol \ {"files"} /\ "git_commit" \in Symbol \ {"files"}
    BY Symbols
  <2>3. /\ 1 \in 1..n /\ 2 \in 1..n /\ 3 \in 1..n /\ 4 \in 1..n
        /\ 1 < n /\ 2 < n /\ 3 < n /\ 4 < n
    BY DEF n
  <2>4. \A i \in 1..n : Len(items[i]) \in Nat
    BY <1>4
  <2>5. ASSUME NEW i \in 1..n, i < n, NEW key \in Symbol \ {"files"},
               NEW v \in Seq(Symbol), items[i] = Member(key, String(v))
        PROVE  Key(i, v)
    BY <1>1, <1>2, <1>4, <2>4, <2>5, KeyInItem
  <2> HIDE DEF Key
  <2>6. Key(1, m.platform)
    BY <1>3, <2>1, <2>2, <2>3, <2>5
  <2>7. Key(2, m.fw_version)
    BY <1>3, <2>1, <2>2, <2>3, <2>5
  <2>8. Key(3, <<"now">>)
    BY <1>3, <2>1, <2>2, <2>3, <2>5
  <2>9. Key(4, <<"unknown">>)
    BY <1>3, <2>1, <2>2, <2>3, <2>5
  <2> QED BY <2>6, <2>7, <2>8, <2>9
<1>11. ~EndsLikeKey(<<"now">>) /\ ~EndsLikeKey(<<"unknown">>)
  BY ShortTexts
<1>12. KeyIsFirst(m) <=> ~EndsLikeKey(m.platform) /\ ~EndsLikeKey(m.fw_version)
  <2>1. m.platform \in Seq(Symbol) /\ m.fw_version \in Seq(Symbol)
    BY DEF IsManifest
  <2>2. \A v \in Seq(Symbol) :
           EndsLikeKey(v) <=> ~(v # <<"files">> /\ ~IsSuffix(<<Quote, "files">>, v))
    BY EndsLikeKeyIs, Zenon
  <2> QED BY <2>1, <2>2, Zenon DEF KeyIsFirst
<1>13. o \in Nat /\ At(t, o, Member("files", List(Entries(m.files))))
  <2>1. 5 \in 1..n
    BY DEF n
  <2>2. At(t, off[5] + 1, items[5])
    BY <1>5, <2>1
  <2> QED BY <1>3, <1>9, <2>2
<1>14. ASSUME NEW j, KeyAt(t, j), j < o + 1
       PROVE  ~KeyIsFirst(m) /\ Has(t, j + 3, ",")
  <2>1. j \in Nat /\ j >= 1 /\ t[j + 1] = "files"
    BY <1>14 DEF KeyAt
  <2>2. t[o] = Space
    <3>1. 5 \in 1..n
      BY DEF n
    <3>2. Has(t, off[5] + 1, Space)
      BY <1>5, <3>1
    <3> QED BY <3>2 DEF Has
  <2>3. t[o + 1] = Quote
    <3>1. At(t, o, String(<<"files">>))
      BY <1>1, <1>13, MembersAre, MemberLayout, Symbols
    <3>2. KeyAt(t, o + 1)
      BY <1>1, <3>1, FilesKey
    <3> QED BY <3>2 DEF KeyAt
  <2>4. j + 1 # o /\ j + 1 # o + 1
    BY <2>1, <2>2, <2>3, Symbols
  <2>5. off[1] < j + 1 /\ j + 1 <= off[5]
    <3>1. off[1] = 1 /\ off[5] \in Nat
      BY <1>5, <1>9
    <3>2. j + 1 < (off[5] + 1) + 2
      BY <1>14, <2>1, <3>1
    <3> QED BY <2>1, <2>4, <3>1, <3>2
  <2>6. PICK i \in 1..4 : off[i] < j + 1 /\ j + 1 <= off[i + 1]
    <3>1. \A i \in 1..(4 + 1) : off[i] \in Nat
      BY <1>6, <1>8
    <3>2. 4 \in Nat /\ j + 1 \in Nat /\ off[4 + 1] = off[5]
      BY <2>1
    <3> HIDE DEF o
    <3> QED BY <2>5, <3>1, <3>2, Located
  <2>7. CASE i = 1
    BY <1>10, <1>12, <1>14, <2>6, <2>7
  <2>8. CASE i = 2
    BY <1>10, <1>12, <1>14, <2>6, <2>8
  <2>9. CASE i = 3
    BY <1>10, <1>11, <1>14, <2>6, <2>9
  <2>10. CASE i = 4
    BY <1>10, <1>11, <1>14, <2>6, <2>10
  <2>11. i = 1 \/ i = 2 \/ i = 3 \/ i = 4
    OBVIOUS
  <2> QED BY <2>7, <2>8, <2>9, <2>10, <2>11
<1>15. ASSUME ~KeyIsFirst(m)
       PROVE  \E j : KeyAt(t, j) /\ j < o + 1
  <2>1. CASE EndsLikeKey(m.platform)
    <3>1. KeyAt(t, off[1 + 1] - 3)
      BY <1>10, <2>1
    <3>2. off[1 + 1] - 3 < o + 1
      BY <1>9
    <3> QED BY <3>1, <3>2
  <2>2. CASE EndsLikeKey(m.fw_version)
    <3>1. KeyAt(t, off[2 + 1] - 3)
      BY <1>10, <2>2
    <3>2. off[2 + 1] - 3 < o + 1
      BY <1>9
    <3> QED BY <3>1, <3>2
  <2> QED BY <1>12, <1>15, <2>1, <2>2
<1> QED BY <1>13, <1>14, <1>15 DEF KeysUpTo, t

\* The paths that the device can read.
LEMMA ListableIs ==
    ASSUME NEW file \in ListedFile
    PROVE  Extracts(file.path, 256) <=> Listable(file)
<1>1. file.path \in Seq(Symbol)
  BY DEF ListedFile
<1>2. Characters(file.path) \in Nat
  BY <1>1, CharactersOfAppend
<1>3. Characters(file.path) < 256 <=> Characters(file.path) <= 255
  BY <1>2
<1> QED BY <1>3 DEF Extracts, Listable

\* If its key comes first, a manifest is read up to its list.
LEMMA ListOfDump ==
    ASSUME NEW t \in Seq(Symbol), NEW o \in Nat, NEW list \in Seq(Symbol),
           At(t, o, Member("files", list)), Has(t, o + 6, "["),
           \A j : KeyAt(t, j) => o + 1 <= j
    PROVE  /\ Keys(t) # {} /\ Has(t, KeyColon(t), ":") /\ Has(t, ListBracket(t), "[")
           /\ ListRead(t) = FileList(t, o + 7)
<1>1. /\ At(t, o, String(<<"files">>)) /\ Has(t, o + 3 + 1, ":") /\ Has(t, o + 3 + 2, Space)
  <2>1. "files" \in Symbol
    BY Symbols
  <2>2. /\ At(t, o, String(<<"files">>)) /\ Has(t, o + Len(String(<<"files">>)) + 1, ":")
        /\ Has(t, o + Len(String(<<"files">>)) + 2, Space)
    BY <2>1, MemberLayout
  <2>3. Len(String(<<"files">>)) = 3
    BY <2>2, FilesKey
  <2> QED BY <2>2, <2>3
<1>2. Keys(t) # {} /\ Min(Keys(t)) = o + 1
  <2>1. KeyAt(t, o + 1)
    BY <1>1, FilesKey
  <2> QED BY <2>1, FirstKey
<1>3. /\ (o + 1) + 3 = o + 4 /\ o + 3 + 1 = o + 4 /\ o + 3 + 2 = o + 5
      /\ (o + 4) + 1 = o + 5 /\ (o + 5) + 1 = o + 6 /\ (o + 6) + 1 = o + 7
      /\ o + 4 \in Nat /\ o + 4 >= 1 /\ o + 5 \in Nat /\ o + 5 >= 1
  OBVIOUS
<1>4. ":" # Space /\ "[" # Space
  BY Symbols
<1>5. Has(t, o + 4, ":") /\ Has(t, o + 5, Space)
  BY <1>1, <1>3
<1>6. KeyColon(t) = o + 4
  <2>1. skip_json_whitespace(t, o + 4) = o + 4
    BY <1>3, <1>4, <1>5, SkipBlank
  <2> QED BY <1>2, <1>3, <2>1 DEF KeyColon
<1>7. ListBracket(t) = o + 6
  <2>1. Has(t, (o + 5) + 1, "[")
    BY <1>3
  <2>2. skip_json_whitespace(t, o + 5) = (o + 5) + 1
    BY <1>3, <1>4, <1>5, <2>1, SkipBlank
  <2> QED BY <1>3, <1>6, <2>2 DEF ListBracket
<1> QED BY <1>2, <1>3, <1>5, <1>6, <1>7 DEF ListRead

\* If a text before it ends like the key, nothing is read.
LEMMA NoListOfDump ==
    ASSUME NEW t \in Seq(Symbol), NEW a, KeyAt(t, a),
           \A j : KeyAt(t, j) => a <= j
    PROVE  Has(t, a + 3, ",") => parse_manifest_files(t) = {}
<1>1. Min(Keys(t)) = a
  BY FirstKey
<1>2. a + 3 \in Nat /\ a + 3 >= 1
  <2>1. a \in Nat
    BY DEF KeyAt
  <2> QED BY <2>1
<1>3. "," # Space /\ "," # ":"
  BY Symbols
<1> SUFFICES ASSUME Has(t, a + 3, ",")
             PROVE  parse_manifest_files(t) = {}
  OBVIOUS
<1>4. skip_json_whitespace(t, a + 3) = a + 3
  BY <1>2, <1>3, SkipBlank
<1>5. ~Has(t, KeyColon(t), ":")
  BY <1>1, <1>3, <1>4 DEF KeyColon, Has
<1> QED BY <1>5, ManifestParts

\* What the device reads from a manifest the packager wrote.
LEMMA ReadManifest ==
    ASSUME NEW m, IsManifest(m)
    PROVE  parse_manifest_files(dumps(m)) =
             IF KeyIsFirst(m) /\ \A i \in DOMAIN m.files : Listable(m.files[i])
             THEN {m.files} ELSE {}
<1> DEFINE t == dumps(m)
           list == List(Entries(m.files))
           good == \A i \in DOMAIN m.files : Listable(m.files[i])
<1>1. t \in Seq(Symbol) /\ list \in Seq(Symbol)
  BY DumpLayout, MembersAre
<1>2. PICK o \in Nat : At(t, o, Member("files", list)) /\ KeysUpTo(t, o, m)
  BY KeysOfDump
<1>3. m.files \in Seq(ListedFile)
  BY DEF IsManifest
<1> HIDE DEF t
<1>4. CASE KeyIsFirst(m)
  <2>1. At(t, o + 3 + 2, list)
    <3>1. "files" \in Symbol
      BY Symbols
    <3>2. At(t, o, String(<<"files">>)) /\ At(t, o + Len(String(<<"files">>)) + 2, list)
      BY <1>1, <1>2, <3>1, MemberLayout
    <3>3. Len(String(<<"files">>)) = 3
      BY <1>1, <3>2, FilesKey
    <3> QED BY <3>2, <3>3
  <2>2. At(t, o + 5, list)
    <3>1. o + 3 + 2 = o + 5
      OBVIOUS
    <3> QED BY <2>1, <3>1
  <2>3. Has(t, (o + 5) + 1, "[")
    <3>1. ListedFile \subseteq FileRead
      BY DEF ListedFile, FileRead, Digest
    <3>2. m.files \in Seq(FileRead)
      BY <1>3, <3>1
    <3> QED BY <1>1, <2>2, <3>2, ListLayout
  <2>4. (o + 5) + 1 = o + 6 /\ (o + 5) + 2 = o + 7
    OBVIOUS
  <2>5. \A j : KeyAt(t, j) => o + 1 <= j
    <3> SUFFICES ASSUME NEW j, KeyAt(t, j), ~(o + 1 <= j)
                 PROVE  FALSE
      OBVIOUS
    <3>1. j \in Nat
      BY DEF KeyAt
    <3>2. j < o + 1
      BY <3>1
    <3> QED BY <1>2, <1>4, <3>2 DEF KeysUpTo
  <2> HIDE DEF list
  <2>6. /\ Keys(t) # {} /\ Has(t, KeyColon(t), ":") /\ Has(t, ListBracket(t), "[")
        /\ ListRead(t) = FileList(t, o + 7)
    <3>1. Has(t, o + 6, "[")
      BY <2>3, <2>4
    <3> QED BY <1>1, <1>2, <2>5, <3>1, ListOfDump
  <2> DEFINE end == FileList(t, o + 7)
  <2>7. IF \A i \in 1..Len(m.files) : Extracts(m.files[i].path, 256)
        THEN end.state = "ok" /\ end.files = m.files ELSE end.state = "failed"
    BY <1>1, <1>3, <2>2, <2>4, ReadList DEF list
  <2>8. (\A i \in 1..Len(m.files) : Extracts(m.files[i].path, 256)) <=> good
    <3>1. \A i \in DOMAIN m.files : m.files[i] \in ListedFile
      BY <1>3
    <3>2. DOMAIN m.files = 1..Len(m.files)
      BY <1>3
    <3> QED BY <3>1, <3>2, ListableIs
  <2> HIDE DEF end, good
  <2>9. CASE good
    <3>1. end.state = "ok" /\ end.files = m.files
      BY <2>7, <2>8, <2>9
    <3> QED BY <1>4, <2>6, <2>9, <3>1, ManifestParts DEF end, good, t
  <2>10. CASE ~good
    <3>1. end.state # "ok"
      BY <2>7, <2>8, <2>10
    <3> QED BY <1>4, <2>6, <2>10, <3>1, ManifestParts DEF end, good, t
  <2> QED BY <2>9, <2>10
<1>5. CASE ~KeyIsFirst(m)
  <2>1. PICK j : KeyAt(t, j) /\ j < o + 1
    BY <1>2, <1>5 DEF KeysUpTo
  <2> DEFINE K == {i \in Nat : KeyAt(t, i)}
  <2>2. K \subseteq Nat /\ j \in K /\ \A i : KeyAt(t, i) => i \in K
    BY <2>1 DEF KeyAt
  <2>3. PICK a \in K : \A i \in K : a <= i
    BY <2>2, LeastNatural
  <2>4. KeyAt(t, a) /\ \A i : KeyAt(t, i) => a <= i
    BY <2>2, <2>3
  <2>5. a < o + 1
    <3>1. a <= j /\ a \in Nat /\ j \in Nat
      BY <2>2, <2>3
    <3> HIDE DEF K
    <3> QED BY <2>1, <3>1
  <2>6. Has(t, a + 3, ",")
    BY <1>2, <2>4, <2>5 DEF KeysUpTo
  <2>7. parse_manifest_files(t) = {}
    BY <1>1, <2>4, <2>6, NoListOfDump
  <2> QED BY <1>5, <2>7 DEF t
<1> QED BY <1>4, <1>5

-----------------------------------------------------------------------------
(* The theorems.                                                           *)

\* The answer of main() is what its argument is split into.
SplitInv ==
    call.of = "main" =>
        /\ call.on \in Package /\ call.cut \in Cuts(call.on)
        /\ answer.returned =>
             answer.value = UNION {Sections(SubSeq(b, 1, call.cut)) :
                                      b \in PackedBlob(call.on)}

LEMMA InitSplitInv == Init => SplitInv
<1> SUFFICES ASSUME Init, call.of = "main"
             PROVE  /\ call.on \in Package /\ call.cut \in Cuts(call.on)
                    /\ ~answer.returned
  BY DEF SplitInv
<1>1. ~answer.returned
  BY DEF Init, Pending
<1>2. PICK k \in Package : \E n \in Cuts(k) : call = [of |-> "main", on |-> k, cut |-> n]
  BY DEF Init
<1> QED BY <1>1, <1>2

LEMMA StepSplitInv == SplitInv /\ [Next]_vars => SplitInv'
<1> SUFFICES ASSUME SplitInv, [Next]_vars, call'.of = "main"
             PROVE  /\ call'.on \in Package /\ call'.cut \in Cuts(call'.on)
                    /\ answer'.returned =>
                         answer'.value = UNION {Sections(SubSeq(b, 1, call'.cut)) :
                                                  b \in PackedBlob(call'.on)}
  BY DEF SplitInv
<1>1. call' = call
  BY DEF Next, vars, Answers, OctalAnswers, VersionAnswers, FileAnswers,
         ManifestAnswers, SplitAnswers, SignedAnswers
<1>2. CASE SplitAnswers
  BY <1>1, <1>2 DEF SplitAnswers, Answers, SplitInv
<1>3. CASE answer' = answer
  BY <1>1, <1>3 DEF SplitInv
<1>4. SplitAnswers \/ answer' = answer
  BY <1>1 DEF Next, vars, Answers, OctalAnswers, VersionAnswers, FileAnswers,
              ManifestAnswers, SignedAnswers
<1> QED BY <1>2, <1>3, <1>4

\* What the answer is by the invariant is what PackedIsSplit asks for.
LEMMA SplitIsMeant == SplitInv => PackedIsSplit
<1> SUFFICES ASSUME SplitInv, Returned("main")
             PROVE  PackedIsSplit
  BY DEF PackedIsSplit
<1> DEFINE k == call.on
           n == call.cut
           header == build_header(k.platform, k.fw_version, Zeros(IV_SIZE),
                                  Len(k.wrapped_key))
           end == SignatureEnd(k)
           Data(b) == SubSeq(b, 1, n)
           Fine(s) ==
                /\ s.wrapped_key = k.wrapped_key
                /\ s.signature = k.signature
                /\ s.ciphertext = SubSeq(k.payload, 1, n - end)
                /\ s.header.platform_tag = Padded(k.platform, PLATFORM_TAG_SIZE)
                /\ s.header.fw_version = Padded(k.fw_version, FW_VERSION_SIZE)
                /\ s.header.iv = Zeros(IV_SIZE)
<1>1. /\ k \in Package /\ n \in Cuts(k)
      /\ answer.value = UNION {Sections(SubSeq(b, 1, n)) : b \in PackedBlob(k)}
  BY DEF SplitInv, Returned
<1>2. PackedBlob(k) = UNION {assemble(h, k.wrapped_key, k.signature, k.payload) :
                                h \in header}
  BY DEF PackedBlob
<1>3. /\ k.platform \in Seq(Byte \ {0}) /\ k.platform \in Seq(Byte)
      /\ k.fw_version \in Seq(Byte) /\ k.wrapped_key \in Seq(Byte)
      /\ k.signature \in Seq(Byte) /\ k.payload \in Seq(Byte)
  <2>1. k.platform \in Seq(Byte \ {0})
    BY <1>1, PackageAssumption
  <2>2. k.platform \in Seq(Byte)
    BY <2>1, SeqMonotonic
  <2> QED BY <1>1, <2>1, <2>2, PackageAssumption
<1>4. Zeros(IV_SIZE) \in Seq(Byte)
  <2>1. IV_SIZE \in Nat
    BY DEF IV_SIZE
  <2> QED BY <2>1, ZerosAreBytes, Zenon
<1>5. /\ n \in Nat
      /\ end = HEADER_SIZE + Len(k.wrapped_key) + SIGNATURE_SIZE
      /\ n <= HEADER_SIZE + Len(k.wrapped_key) + SIGNATURE_SIZE + Len(k.payload)
  <2>1. Len(k.wrapped_key) \in Nat /\ Len(k.payload) \in Nat
    BY <1>3, LenProperties
  <2>2. end = HEADER_SIZE + Len(k.wrapped_key) + SIGNATURE_SIZE
    BY DEF SignatureEnd
  <2>3. n \in {0, HEADER_SIZE - 1, HEADER_SIZE} \cup (end - 1)..(end + Len(k.payload))
    BY <1>1 DEF Cuts
  <2>4. HEADER_SIZE = 51 /\ SIGNATURE_SIZE = 256
    BY DEF HEADER_SIZE, SIGNATURE_SIZE
  <2> HIDE DEF k, n, end
  <2> DEFINE size == Len(k.wrapped_key)
             rest == Len(k.payload)
  <2>5. size \in Nat /\ rest \in Nat
    BY <2>1
  <2>6. end = 51 + size + 256 /\ n \in {0, 51 - 1, 51} \cup (end - 1)..(end + rest)
    BY <2>2, <2>3, <2>4
  <2> HIDE DEF size, rest
  <2>7. n \in Nat /\ n <= 51 + size + 256 + rest
    BY <2>5, <2>6
  <2> QED BY <2>2, <2>4, <2>7 DEF size, rest
<1> HIDE DEF k, n, end
<1>6. ASSUME NEW b \in PackedBlob(k)
      PROVE  /\ n < end => Sections(Data(b)) = {}
             /\ n >= end => Sections(Data(b)) # {}
             /\ \A s \in Sections(Data(b)) : Fine(s)
             /\ header # {} /\ Len(k.signature) = SIGNATURE_SIZE
  <2>1. PICK h \in header : b \in assemble(h, k.wrapped_key, k.signature, k.payload)
    BY <1>2, <1>6
  <2>2. Len(k.signature) = SIGNATURE_SIZE
    BY <2>1 DEF assemble
  <2>3. IsSplit(Data(b), n, k.platform, k.fw_version, Zeros(IV_SIZE),
                k.wrapped_key, k.signature, k.payload)
    BY <1>3, <1>4, <1>5, <2>1, <2>2, CutIsSplit
  <2> HIDE DEF Data
  <2> QED BY <1>5, <2>1, <2>2, <2>3, Zenon DEF IsSplit
<1>7. CASE header = {} \/ Len(k.signature) # SIGNATURE_SIZE
  <2>1. answer.value = {}
    BY <1>1, <1>6, <1>7
  <2> QED BY <1>7, <2>1 DEF PackedIsSplit, k
<1>8. CASE n < end
  <2>1. answer.value = {}
    BY <1>1, <1>6, <1>8
  <2> QED BY <1>8, <2>1 DEF PackedIsSplit, k, n, end
<1>9. CASE header # {} /\ Len(k.signature) = SIGNATURE_SIZE /\ ~(n < end)
  <2>1. PICK h \in header : TRUE
    BY <1>9
  <2>2. end \in Nat
    BY <1>3, <1>5, LenProperties DEF HEADER_SIZE, SIGNATURE_SIZE
  <2>3. n >= end
    BY <1>5, <1>9, <2>2
  <2>4. answer.value # {}
    <3>1. Len(h) = HEADER_SIZE
      <4>1. Len(k.wrapped_key) \in Nat
        BY <1>3, LenProperties
      <4>2. h \in build_header(k.platform, k.fw_version, Zeros(IV_SIZE), Len(k.wrapped_key))
        BY <2>1
      <4>3. k.platform \in Seq(Byte) /\ k.fw_version \in Seq(Byte)
        BY <1>3
      <4> QED BY <1>4, <4>1, <4>2, <4>3, HeaderLength, Zenon
    <3>2. PICK b : b \in assemble(h, k.wrapped_key, k.signature, k.payload)
      BY <1>9, <3>1 DEF assemble
    <3>3. b \in PackedBlob(k)
      BY <1>2, <3>2
    <3> QED BY <1>1, <1>6, <2>3, <3>3
  <2>5. \A s \in answer.value : Fine(s)
    BY <1>1, <1>6
  <2>6. ASSUME NEW j \in Package
        PROVE  platform_tag_matches(Padded(k.platform, PLATFORM_TAG_SIZE), j.platform)
                 <=> j.platform = k.platform
    <3>1. Len(k.platform) <= PLATFORM_TAG_SIZE
      BY <2>1, HeaderFits
    <3>2. j.platform \in Seq(Byte \ {0})
      BY PackageAssumption
    <3>3. PLATFORM_TAG_SIZE \in Nat
      BY DEF PLATFORM_TAG_SIZE
    <3>4. CASE j.platform = k.platform
      BY <3>1, <3>4 DEF platform_tag_matches
    <3>5. ASSUME platform_tag_matches(Padded(k.platform, PLATFORM_TAG_SIZE), j.platform)
          PROVE  j.platform = k.platform
      BY <1>3, <3>1, <3>2, <3>3, <3>5, PaddedIsInjective DEF platform_tag_matches
    <3> QED BY <3>4, <3>5
  <2> QED BY <1>9, <2>4, <2>5, <2>6 DEF PackedIsSplit, k, n, end
<1> QED BY <1>7, <1>8, <1>9

\* main() splits every package into the sections it was assembled from,
\* whatever their bytes and lengths, and refuses one that ends before its
\* ciphertext; the tag in its header matches no platform but its own
\* (header.c, main.c 200-213).
THEOREM PackageSplit == Spec => []PackedIsSplit
<1>1. Init => SplitInv
  BY InitSplitInv
<1>2. SplitInv /\ [Next]_vars => SplitInv'
  BY StepSplitInv
<1>3. SplitInv => PackedIsSplit
  BY SplitIsMeant
<1> QED BY <1>1, <1>2, <1>3, PTL DEF Spec

\* The answer of fota_verify_signature is about the sections of two blobs.
SignedInv ==
    call.of = "fota_verify_signature" =>
        /\ call.on[1] \in Received /\ call.on[2] \in Received
        /\ answer.returned =>
             answer.value = Sections(call.on[1]) \X Sections(call.on[2])

LEMMA InitSignedInv == Init => SignedInv
<1> SUFFICES ASSUME Init, call.of = "fota_verify_signature"
             PROVE  /\ call.on[1] \in Received /\ call.on[2] \in Received
                    /\ ~answer.returned
  BY DEF SignedInv
<1>1. ~answer.returned
  BY DEF Init, Pending
<1>2. PICK a, b \in Received : call = [of |-> "fota_verify_signature", on |-> <<a, b>>]
  BY DEF Init
<1> QED BY <1>1, <1>2

LEMMA StepSignedInv == SignedInv /\ [Next]_vars => SignedInv'
<1> SUFFICES ASSUME SignedInv, [Next]_vars, call'.of = "fota_verify_signature"
             PROVE  /\ call'.on[1] \in Received /\ call'.on[2] \in Received
                    /\ answer'.returned =>
                         answer'.value = Sections(call'.on[1]) \X Sections(call'.on[2])
  BY DEF SignedInv
<1>1. call' = call
  BY DEF Next, vars, Answers, OctalAnswers, VersionAnswers, FileAnswers,
         ManifestAnswers, SplitAnswers, SignedAnswers
<1>2. CASE SignedAnswers
  BY <1>1, <1>2 DEF SignedAnswers, Answers, SignedInv
<1>3. CASE answer' = answer
  BY <1>1, <1>3 DEF SignedInv
<1>4. SignedAnswers \/ answer' = answer
  BY <1>1 DEF Next, vars, Answers, OctalAnswers, VersionAnswers, FileAnswers,
              ManifestAnswers, SplitAnswers
<1> QED BY <1>2, <1>3, <1>4

\* A signature is over all of a package but itself: the bytes it is checked
\* over determine the header, the wrapped key and the ciphertext, although
\* their lengths are not signed on their own (main.c 226-241).
THEOREM SignatureCovers == Spec => []SignedDataFixesSections
<1>1. Init => SignedInv
  BY InitSignedInv
<1>2. SignedInv /\ [Next]_vars => SignedInv'
  BY StepSignedInv
<1>3. SignedInv => SignedDataFixesSections
  <2> SUFFICES ASSUME SignedInv, Returned("fota_verify_signature"),
                      NEW pair \in answer.value,
                      pair[1].signed_data = pair[2].signed_data
               PROVE  /\ pair[1].header = pair[2].header
                      /\ pair[1].wrapped_key = pair[2].wrapped_key
                      /\ pair[1].ciphertext = pair[2].ciphertext
    BY DEF SignedDataFixesSections
  <2>1. /\ call.on[1] \in Seq(Byte) /\ call.on[2] \in Seq(Byte)
        /\ pair[1] \in Sections(call.on[1]) /\ pair[2] \in Sections(call.on[2])
    BY ReceivedAssumption DEF SignedInv, Returned
  <2> QED BY <2>1, SignedIsAll
<1> QED BY <1>1, <1>2, <1>3, PTL DEF Spec

\* The answer of parse_octal_field is the one for its argument.
FieldInv ==
    call.of = "parse_octal_field" =>
        /\ call.on \in OctalField
        /\ answer.returned => answer.value = parse_octal_field(call.on)

LEMMA InitFieldInv == Init => FieldInv
<1> SUFFICES ASSUME Init, call.of = "parse_octal_field"
             PROVE  call.on \in OctalField /\ ~answer.returned
  BY DEF FieldInv
<1>1. ~answer.returned
  BY DEF Init, Pending
<1>2. PICK f \in OctalField : call = [of |-> "parse_octal_field", on |-> f]
  BY DEF Init
<1> QED BY <1>1, <1>2

LEMMA StepFieldInv == FieldInv /\ [Next]_vars => FieldInv'
<1> SUFFICES ASSUME FieldInv, [Next]_vars, call'.of = "parse_octal_field"
             PROVE  /\ call'.on \in OctalField
                    /\ answer'.returned =>
                         answer'.value = parse_octal_field(call'.on)
  BY DEF FieldInv
<1>1. call' = call
  BY DEF Next, vars, Answers, OctalAnswers, VersionAnswers, FileAnswers,
         ManifestAnswers, SplitAnswers, SignedAnswers
<1>2. CASE OctalAnswers
  BY <1>1, <1>2 DEF OctalAnswers, Answers, FieldInv
<1>3. CASE answer' = answer
  BY <1>1, <1>3 DEF FieldInv
<1>4. OctalAnswers \/ answer' = answer
  BY <1>1 DEF Next, vars, Answers, VersionAnswers, FileAnswers,
              ManifestAnswers, SplitAnswers, SignedAnswers
<1> QED BY <1>2, <1>3, <1>4

\* parse_octal_field accepts the fields that hold a number and no others, and
\* returns that number, for fields of any length; n bytes make less than 8^n,
\* so that the twelve of a header cannot overflow a size (installer.c 165-189).
THEOREM FieldNumber == Spec => []FieldHoldsNumber
<1>1. Init => FieldInv
  BY InitFieldInv
<1>2. FieldInv /\ [Next]_vars => FieldInv'
  BY StepFieldInv
<1>3. FieldInv => FieldHoldsNumber
  <2> SUFFICES ASSUME FieldInv, Returned("parse_octal_field")
               PROVE  /\ answer.value = NumbersIn(call.on)
                      /\ \A value \in answer.value : value < Place(8, Len(call.on))
    BY DEF FieldHoldsNumber
  <2>1. call.on \in Seq(FieldByte) /\ answer.value = parse_octal_field(call.on)
    BY FieldAssumption DEF FieldInv, Returned, FieldByte
  <2> QED BY <2>1, OctalIsMeant
<1> QED BY <1>1, <1>2, <1>3, PTL DEF Spec

\* The answer of fota_version_parse is the one for its argument.
VersionInv ==
    call.of = "fota_version_parse" =>
        /\ call.on \in VersionField
        /\ answer.returned => answer.value = fota_version_parse(call.on)

LEMMA InitVersionInv == Init => VersionInv
<1> SUFFICES ASSUME Init, call.of = "fota_version_parse"
             PROVE  call.on \in VersionField /\ ~answer.returned
  BY DEF VersionInv
<1>1. ~answer.returned
  BY DEF Init, Pending
<1>2. PICK f \in VersionField : call = [of |-> "fota_version_parse", on |-> f]
  BY DEF Init
<1> QED BY <1>1, <1>2

LEMMA StepVersionInv == VersionInv /\ [Next]_vars => VersionInv'
<1> SUFFICES ASSUME VersionInv, [Next]_vars, call'.of = "fota_version_parse"
             PROVE  /\ call'.on \in VersionField
                    /\ answer'.returned =>
                         answer'.value = fota_version_parse(call'.on)
  BY DEF VersionInv
<1>1. call' = call
  BY DEF Next, vars, Answers, OctalAnswers, VersionAnswers, FileAnswers,
         ManifestAnswers, SplitAnswers, SignedAnswers
<1>2. CASE VersionAnswers
  BY <1>1, <1>2 DEF VersionAnswers, Answers, VersionInv
<1>3. CASE answer' = answer
  BY <1>1, <1>3 DEF VersionInv
<1>4. VersionAnswers \/ answer' = answer
  BY <1>1 DEF Next, vars, Answers, OctalAnswers, FileAnswers,
              ManifestAnswers, SplitAnswers, SignedAnswers
<1> QED BY <1>2, <1>3, <1>4

\* fota_version_parse accepts the texts that are four numbers between three
\* dots, none above the bound, and no others, and returns those numbers: the
\* bound, tested at every digit, is passed before anything can wrap, for
\* components and contents of any length (version.c 11-65).
THEOREM VersionMeaning == Spec => []VersionIsMeant
<1>1. Init => VersionInv
  BY InitVersionInv
<1>2. VersionInv /\ [Next]_vars => VersionInv'
  BY StepVersionInv
<1>3. VersionInv => VersionIsMeant
  <2> SUFFICES ASSUME VersionInv, Returned("fota_version_parse")
               PROVE  answer.value = VersionsIn(call.on)
    BY DEF VersionIsMeant
  <2>1. call.on \in Seq(Character) /\ answer.value = fota_version_parse(call.on)
    BY VersionFieldAssumption DEF VersionInv, Returned
  <2> QED BY <2>1, VersionIsRead
<1> QED BY <1>1, <1>2, <1>3, PTL DEF Spec

\* The answer of fota_version_read_installed is the one for its argument.
FileInv ==
    call.of = "fota_version_read_installed" =>
        /\ call.on \in WrittenVersion
        /\ answer.returned =>
             answer.value =
                {Reading(SubSeq(Line(call.on), 1, n)) : n \in 0..Len(Line(call.on))}

LEMMA InitFileInv == Init => FileInv
<1> SUFFICES ASSUME Init, call.of = "fota_version_read_installed"
             PROVE  call.on \in WrittenVersion /\ ~answer.returned
  BY DEF FileInv
<1>1. ~answer.returned
  BY DEF Init, Pending
<1>2. PICK v \in WrittenVersion : call = [of |-> "fota_version_read_installed", on |-> v]
  BY DEF Init
<1> QED BY <1>1, <1>2

LEMMA StepFileInv == FileInv /\ [Next]_vars => FileInv'
<1> DEFINE CutReadings(v) == {Reading(SubSeq(Line(v), 1, n)) : n \in 0..Len(Line(v))}
<1> SUFFICES ASSUME FileInv, [Next]_vars, call'.of = "fota_version_read_installed"
             PROVE  /\ call'.on \in WrittenVersion
                    /\ answer'.returned => answer'.value = CutReadings(call'.on)
  BY DEF FileInv
<1>1. call' = call
  BY DEF Next, vars, Answers, OctalAnswers, VersionAnswers, FileAnswers,
         ManifestAnswers, SplitAnswers, SignedAnswers
<1>2. CASE FileAnswers
  BY <1>1, <1>2 DEF FileAnswers, Answers, FileInv
<1>3. CASE answer' = answer
  BY <1>1, <1>3 DEF FileInv
<1>4. FileAnswers \/ answer' = answer
  BY <1>1 DEF Next, vars, Answers, OctalAnswers, VersionAnswers,
              ManifestAnswers, SplitAnswers, SignedAnswers
<1> QED BY <1>2, <1>3, <1>4

\* A version file that was not written to its end reads as one of ShortWrites,
\* and each of those can happen, for every version: nothing, a text with too few
\* components, or a version whose last component has lost digits; a whole one
\* reads back (version.c 93-126 and 134-152).
THEOREM CutVersionFiles == Spec => []CutVersionReads
<1>1. Init => FileInv
  BY InitFileInv
<1>2. FileInv /\ [Next]_vars => FileInv'
  BY StepFileInv
<1>3. FileInv => CutVersionReads
  <2> SUFFICES ASSUME FileInv, Returned("fota_version_read_installed")
               PROVE  /\ answer.value = ShortWrites(call.on)
                      /\ Reading(Line(call.on)) = FileOf(call.on)
    BY DEF CutVersionReads
  <2>1. /\ call.on \in Version
        /\ answer.value =
             {Reading(SubSeq(Line(call.on), 1, n)) : n \in 0..Len(Line(call.on))}
    BY WrittenAssumption DEF FileInv, Returned
  <2> QED BY <2>1, CutLineReads
<1> QED BY <1>1, <1>2, <1>3, PTL DEF Spec

\* The answer of parse_manifest_files is the one for its argument.
ManifestInv ==
    call.of = "parse_manifest_files" =>
        /\ call.on \in ManifestDict /\ call.cut \in 0..Len(dumps(call.on))
        /\ answer.returned =>
             answer.value = parse_manifest_files(SubSeq(dumps(call.on), 1, call.cut))

LEMMA InitManifestInv == Init => ManifestInv
<1> SUFFICES ASSUME Init, call.of = "parse_manifest_files"
             PROVE  /\ call.on \in ManifestDict /\ call.cut \in 0..Len(dumps(call.on))
                    /\ ~answer.returned
  BY DEF ManifestInv
<1>1. ~answer.returned
  BY DEF Init, Pending
<1>2. PICK m \in ManifestDict : \E n \in 0..Len(dumps(m)) :
         call = [of |-> "parse_manifest_files", on |-> m, cut |-> n]
  BY DEF Init
<1> QED BY <1>1, <1>2

LEMMA StepManifestInv == ManifestInv /\ [Next]_vars => ManifestInv'
<1> SUFFICES ASSUME ManifestInv, [Next]_vars, call'.of = "parse_manifest_files"
             PROVE  /\ call'.on \in ManifestDict /\ call'.cut \in 0..Len(dumps(call'.on))
                    /\ answer'.returned =>
                         answer'.value =
                            parse_manifest_files(SubSeq(dumps(call'.on), 1, call'.cut))
  BY DEF ManifestInv
<1>1. call' = call
  BY DEF Next, vars, Answers, OctalAnswers, VersionAnswers, FileAnswers,
         ManifestAnswers, SplitAnswers, SignedAnswers
<1>2. CASE ManifestAnswers
  BY <1>1, <1>2 DEF ManifestAnswers, Answers, ManifestInv
<1>3. CASE answer' = answer
  BY <1>1, <1>3 DEF ManifestInv
<1>4. ManifestAnswers \/ answer' = answer
  BY <1>1 DEF Next, vars, Answers, OctalAnswers, VersionAnswers, FileAnswers,
              SplitAnswers, SignedAnswers
<1> QED BY <1>2, <1>3, <1>4

\* A manifest of the packager.
LEMMA DictIsManifest ==
    ASSUME NEW m \in ManifestDict
    PROVE  IsManifest(m)
  BY DictAssumption DEF IsManifest, ListedFile

\* The device reads from a manifest exactly the files the packager wrote, if no
\* path has to be escaped as \uXXXX and none is longer than its buffer, and no
\* text before the list ends like its key; otherwise it refuses the manifest
\* (installer.c 366-542, manifest.py 53-64).  It does so for lists, names and
\* texts of any length: quotes and backslashes are taken apart again, and each
\* path keeps its own digest.
THEOREM ManifestReading == Spec => []ManifestReadsBack
<1>1. Init => ManifestInv
  BY InitManifestInv
<1>2. ManifestInv /\ [Next]_vars => ManifestInv'
  BY StepManifestInv
<1>3. ManifestInv => ManifestReadsBack
  <2> DEFINE m == call.on
             t == dumps(m)
  <2> SUFFICES ASSUME ManifestInv, Returned("parse_manifest_files"), call.cut = Len(t)
               PROVE  answer.value =
                        IF KeyIsFirst(m) /\ \A i \in DOMAIN m.files : Listable(m.files[i])
                        THEN {m.files} ELSE {}
    BY DEF ManifestReadsBack
  <2>1. m \in ManifestDict /\ answer.value = parse_manifest_files(SubSeq(t, 1, call.cut))
    BY DEF ManifestInv, Returned
  <2>2. IsManifest(m)
    BY <2>1, DictIsManifest
  <2>3. t \in Seq(Symbol)
    BY <2>2, DumpLayout
  <2>4. SubSeq(t, 1, call.cut) = t
    <3>1. \A w \in Seq(Symbol) : SubSeq(w, 1, Len(w)) = w
      OBVIOUS
    <3> QED BY <2>3, <3>1
  <2> QED BY <2>1, <2>2, <2>4, ReadManifest
<1> QED BY <1>1, <1>2, <1>3, PTL DEF Spec

\* A manifest that was cut off anywhere, inside a string, between two files or
\* before the list is closed, is refused, or it is read as the whole list
\* (installer.c 366-542): never as a shorter list of files.
THEOREM CutManifests == Spec => []CutManifestIsNoticed
<1>1. Init => ManifestInv
  BY InitManifestInv
<1>2. ManifestInv /\ [Next]_vars => ManifestInv'
  BY StepManifestInv
<1>3. ManifestInv => CutManifestIsNoticed
  <2> DEFINE m == call.on
             t == dumps(m)
             u == SubSeq(t, 1, call.cut)
  <2> SUFFICES ASSUME ManifestInv, Returned("parse_manifest_files")
               PROVE  answer.value \subseteq {m.files}
    BY DEF CutManifestIsNoticed
  <2>1. /\ m \in ManifestDict /\ call.cut \in 0..Len(t)
        /\ answer.value = parse_manifest_files(u)
    BY DEF ManifestInv, Returned
  <2>2. IsManifest(m)
    BY <2>1, DictIsManifest
  <2>3. t \in Seq(Symbol)
    BY <2>2, DumpLayout
  <2>4. IsCutOf(u, t)
    <3> HIDE DEF t
    <3>1. \A w \in Seq(Symbol) : \A n \in 0..Len(w) : IsCutOf(SubSeq(w, 1, n), w)
      <4> SUFFICES ASSUME NEW w \in Seq(Symbol), NEW n \in 0..Len(w)
                   PROVE  IsCutOf(SubSeq(w, 1, n), w)
        OBVIOUS
      <4> DEFINE x == SubSeq(w, 1, n)
      <4>1. /\ x \in Seq(Symbol) /\ Len(x) = n /\ \A i \in 1..n : x[i] = w[i]
        BY FirstSymbols
      <4>2. n <= Len(w)
        OBVIOUS
      <4> HIDE DEF x
      <4>3. IsCutOf(x, w)
        BY <4>1, <4>2 DEF IsCutOf
      <4> QED BY <4>3 DEF x
    <3> QED BY <2>1, <2>3, <3>1
  <2>5. parse_manifest_files(t) \subseteq {m.files}
    BY <2>2, ReadManifest
  <2>6. parse_manifest_files(u) \subseteq parse_manifest_files(t)
    BY <2>4, CutManifest
  <2> QED BY <2>1, <2>5, <2>6
<1> QED BY <1>1, <1>2, <1>3, PTL DEF Spec

=============================================================================
