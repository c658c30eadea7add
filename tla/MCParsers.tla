----------------------------- MODULE MCParsers -----------------------------
(***************************************************************************)
(* Values for Parsers: short inputs of every kind, and what the packager   *)
(* writes for awkward names and sizes.                                     *)
(***************************************************************************)
EXTENDS Parsers

\* Every field of one to five bytes over two digits, padding and another
\* byte, and all two-digit fields as tarfile writes them.
MCOctalField ==
    UNION {[1..n -> {0, 7, Pad, Odd}] : n \in 1..5}
    \cup {<<a, b, Pad>> : a, b \in OctalDigit}

\* Up to five components, some of them empty, too large, or large enough to
\* wrap around to a small number; then nothing, padding, or something else.
Component2 == {<<>>, <<7>>, <<2, 0>>, <<2, 1>>, <<0, 0, 3>>, <<2, 6, 0>>, <<Strange>>}

Joined(parts) ==
    FlattenSeq([i \in DOMAIN parts |->
        IF i = 1 THEN parts[i] ELSE <<Dot>> \o parts[i]])

MCVersionField ==
    {Joined(parts) \o tail :
        parts \in [1..4 -> Component2] \cup [1..5 -> {<<>>, <<7>>}]
                  \cup [1..3 -> {<<7>>, <<2, 0>>}],
        tail \in {<<>>, <<Nul>>, <<Nul, Strange>>, <<White>>}}

MCWrittenVersion ==
    {<<1, 0, 0, n>> : n \in {0, 1, 9, 10, 12, 20}} \cup {<<20, 20, 20, 20>>, <<0, 0, 0, 0>>}

Hash == "sha256 of boot"
Hash2 == "sha256 of lib"

MCWidth ==
    ("a name of 252 characters" :> 252) @@ ("boot" :> 4) @@ (Hash :> 64)
        @@ (Hash2 :> 64) @@ ("u00e9" :> 5) @@ ("path" :> 4) @@ ("sha256" :> 6)
        @@ ("platform" :> 8) @@ ("files" :> 5) @@ ("lib" :> 3)
        @@ ("fw_version" :> 10) @@ ("build_date_utc" :> 14) @@ ("now" :> 20)
        @@ ("git_commit" :> 10) @@ ("unknown" :> 7)

MCPath ==
    {<<"boot">>, <<"lib", Slash, "boot">>, <<Quote, "files", Quote>>,
     <<Quote>>, <<Backslash>>, <<"lib", Backslash, Quote, "boot">>, <<"}">>,
     <<"boot", Special>>, <<"a name of 252 characters", "lib">>,
     <<"a name of 252 characters", "boot">>, <<"path">>}

Listed(path, hash) == [path |-> path, sha256 |-> <<hash>>]

MCManifestDict ==
    {[platform |-> p, fw_version |-> <<"boot">>, files |-> fs] :
        p \in {<<"boot">>, <<"files">>, <<Quote, "files", Quote>>, <<Quote, "files">>},
        fs \in {<<>>} \cup {<<Listed(a, Hash)>> : a \in MCPath}
               \cup {<<Listed(a, Hash), Listed(<<"lib">>, Hash2)>> : a \in MCPath}}

Times(n, byte) == [i \in 1..n |-> byte]

MCPackage ==
    {[platform |-> p, fw_version |-> v, wrapped_key |-> Times(n, 9),
      signature |-> Times(m, 5), payload |-> c] :
        p \in {<<>>, <<71>>, <<71, 69>>, Times(16, 71), Times(17, 71)},
        v \in {<<49>>, Times(12, 49), Times(13, 49)},
        n \in {0, 1, 255, 256, 257},
        m \in {SIGNATURE_SIZE, 384},
        c \in {<<>>, <<7, 8>>}}

\* Blobs whose wrapped key and ciphertext are one text, cut at many places.
MCReceived ==
    UNION {assemble(h, w, Zeros(SIGNATURE_SIZE), c) :
        h \in UNION {build_header(<<71>>, <<49>>, Zeros(IV_SIZE), n) : n \in 0..2},
        w \in {<<>>, <<1>>, <<1, 2>>},
        c \in {<<>>, <<1>>, <<2>>, <<1, 2>>}}

=============================================================================
