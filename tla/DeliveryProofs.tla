--------------------------- MODULE DeliveryProofs ---------------------------
(***************************************************************************)
(* What the two tools of the server side promise each other and the        *)
(* device, for any set of paths, any directory and any number of runs: a   *)
(* finished run of the key generator leaves two pairs, and a package that  *)
(* is accepted is the whole directory as it was at one instant.            *)
(***************************************************************************)
EXTENDS Delivery, FotaPackageProofs

-----------------------------------------------------------------------------
(* The key files.                                                          *)

Key == [pair : Nat, run : Nat]

KeygenTypeOK ==
    /\ keyFile \in [KeyName -> Key]
    /\ at \in 0..5
    /\ opened => at \in 1..4
    /\ pair \in Nat /\ keygenRuns \in Nat

\* The files before the one it has come to are of the present run; the
\* public half is a copy of the private one, and the second pair is newer.
KeyFileInv ==
    /\ finished => at = 0
    /\ at > 1 => /\ keyFile["signing_private"].run = keygenRuns
                 /\ keyFile["signing_private"].pair <= pair
    /\ at = 2 => keyFile["signing_private"].pair = pair
    /\ at > 2 => keyFile["signing_public"] = keyFile["signing_private"]
    /\ at > 3 \/ (at = 3 /\ opened) => keyFile["signing_private"].pair < pair
    /\ at > 3 => keyFile["device_private"] = [pair |-> pair, run |-> keygenRuns]
    /\ at > 4 => keyFile["device_public"] = keyFile["device_private"]
    /\ FinishedKeysFit

LEMMA KeyNames ==
    /\ KEYFILES[1] = "signing_private" /\ KEYFILES[2] = "signing_public"
    /\ KEYFILES[3] = "device_private" /\ KEYFILES[4] = "device_public"
    /\ DOMAIN KEYFILES = 1..4 /\ Len(KEYFILES) = 4
    /\ KeyName = {"signing_private", "signing_public", "device_private", "device_public"}
<1>1. /\ KEYFILES[1] = "signing_private" /\ KEYFILES[2] = "signing_public"
      /\ KEYFILES[3] = "device_private" /\ KEYFILES[4] = "device_public"
      /\ DOMAIN KEYFILES = 1..4 /\ Len(KEYFILES) = 4
    BY DEF KEYFILES
<1>2. 1..4 = {1, 2, 3, 4}
    OBVIOUS
<1>. QED  BY <1>1, <1>2 DEF KeyName

LEMMA KeygenInitially ==
    ASSUME Init PROVE KeygenTypeOK /\ KeyFileInv
<1>1. at = 0 /\ opened = FALSE /\ (NoKeys \/ NewKeys)
    BY DEF Init, KeygenInit
<1>2. CASE NoKeys
    <2>1. keyFile \in [KeyName -> Key]
        BY <1>2 DEF NoKeys, NoKey, Key
    <2>2. pair = 0 /\ keygenRuns = 0 /\ finished = FALSE
        BY <1>2 DEF NoKeys
    <2>3. FinishedKeysFit /\ KeyFileInv
        BY <1>1, <2>2 DEF FinishedKeysFit, KeyFileInv
    <2>4. KeygenTypeOK
        BY <1>1, <2>1, <2>2 DEF KeygenTypeOK
    <2>. QED  BY <2>3, <2>4
<1>3. CASE NewKeys
    <2>1. keyFile = [name \in KeyName |->
                [pair |-> IF name \in {"signing_private", "signing_public"} THEN 1 ELSE 2,
                 run |-> 1]]
        BY <1>3 DEF NewKeys
    <2>2. pair = 2 /\ keygenRuns = 1 /\ finished = TRUE
        BY <1>3 DEF NewKeys
    <2>3. keyFile \in [KeyName -> Key]
        BY <2>1 DEF Key
    <2>4. FinishedKeysFit
        BY <2>1, <2>2, KeyNames DEF FinishedKeysFit
    <2>5. KeygenTypeOK /\ KeyFileInv
        BY <1>1, <2>2, <2>3, <2>4 DEF KeygenTypeOK, KeyFileInv
    <2>. QED  BY <2>5
<1>. QED  BY <1>1, <1>2, <1>3

LEMMA KeygenStep ==
    ASSUME KeygenTypeOK, KeyFileInv, [Next]_vars
    PROVE  KeygenTypeOK' /\ KeyFileInv'
<1>1. CASE UNCHANGED keygenVars
    BY <1>1 DEF KeygenTypeOK, KeyFileInv, FinishedKeysFit, keygenVars
<1>2. ASSUME NEW limit, StartKeygen(limit)
      PROVE  KeygenTypeOK' /\ KeyFileInv'
    <2>1. KeygenTypeOK'
        BY <1>2 DEF StartKeygen, KeygenTypeOK
    <2>2. KeyFileInv'
        BY <1>2 DEF StartKeygen, KeyFileInv, FinishedKeysFit
    <2>. QED  BY <2>1, <2>2
<1>3. CASE OpenKeyFile
    <2>1. at \in 1..4 /\ at' = at /\ keygenRuns' = keygenRuns /\ finished' = finished
        BY <1>3, KeyNames DEF OpenKeyFile
    <2>2. KeygenTypeOK'
        BY <1>3, <2>1, KeyNames DEF OpenKeyFile, KeygenTypeOK, Generated, NoKey, Key
    <2>3. KeyFileInv'
        BY <1>3, <2>1, KeyNames
        DEF OpenKeyFile, KeygenTypeOK, KeyFileInv, FinishedKeysFit, Generated, Key
    <2>. QED  BY <2>2, <2>3
<1>4. CASE FillKeyFile
    <2>1. at \in 1..4 /\ at' = at + 1
        BY <1>4 DEF FillKeyFile, KeygenTypeOK
    <2>2. KeygenTypeOK'
        BY <1>4, <2>1, KeyNames DEF FillKeyFile, KeygenTypeOK, Key
    <2>3. KeyFileInv'
        <3>1. ~finished' /\ keygenRuns' = keygenRuns /\ pair' = pair /\ opened' = FALSE
            BY <1>4, <2>1 DEF FillKeyFile, KeygenTypeOK, KeyFileInv
        <3>2. keyFile' = [keyFile EXCEPT ![KEYFILES[at]] = [pair |-> pair, run |-> keygenRuns]]
            BY <1>4 DEF FillKeyFile
        <3>3. KEYFILES[at] = CASE at = 1 -> "signing_private" [] at = 2 -> "signing_public"
                               [] at = 3 -> "device_private" [] at = 4 -> "device_public"
            BY <2>1, KeyNames
        <3>. QED  BY <1>4, <2>1, <3>1, <3>2, <3>3, KeyNames
                  DEF FillKeyFile, KeygenTypeOK, KeyFileInv, FinishedKeysFit, Key
    <2>. QED  BY <2>2, <2>3
<1>5. CASE EndKeygen
    <2>1. KeygenTypeOK' /\ at = 5
        BY <1>5, KeyNames DEF EndKeygen, KeygenTypeOK
    <2>2. FinishedKeysFit'
        BY <1>5, <2>1, KeyNames DEF EndKeygen, KeygenTypeOK, KeyFileInv, FinishedKeysFit, Key
    <2>3. KeyFileInv'
        BY <1>5, <2>2 DEF EndKeygen, KeyFileInv
    <2>. QED  BY <2>1, <2>3
<1>6. CASE InterruptKeygen
    BY <1>6 DEF InterruptKeygen, KeygenTypeOK, KeyFileInv, FinishedKeysFit
<1>. QED
    BY <1>1, <1>2, <1>3, <1>4, <1>5, <1>6 DEF Next, vars, KeygenNext, CopyKey

\* After a run of the key generator that ended with exit code 0 the four key
\* files are its own and make two different pairs, after any number of runs
\* that were interrupted anywhere.
THEOREM KeysFit == Spec => []FinishedKeysFit
<1>1. Init => KeygenTypeOK /\ KeyFileInv
    BY KeygenInitially
<1>2. KeygenTypeOK /\ KeyFileInv /\ [Next]_vars => KeygenTypeOK' /\ KeyFileInv'
    BY KeygenStep
<1>3. KeyFileInv => FinishedKeysFit
    BY DEF KeyFileInv
<1>. QED  BY <1>1, <1>2, <1>3, PTL DEF Spec

-----------------------------------------------------------------------------
(* The copies of the keys: every key of one kind, wherever it is, by the   *)
(* run that made it.                                                       *)

SigningKeys ==
    {keyFile["signing_private"], keyFile["signing_public"], deployed["signing_public"]}
        \cup signer \cup UNION {blob.signer : blob \in output}

DeviceKeys ==
    {keyFile["device_private"], keyFile["device_public"], deployed["device_private"]}
        \cup recipient \cup UNION {blob.recipient : blob \in output}

\* Keys of one run are of one pair.  Until the run has generated that pair,
\* at its file number first, there are none of its keys; then there are
\* those of the pair it has in hand.
Ring(keys, first, place, inHand, runs) ==
    /\ \A k \in keys : k \in Key /\ k.run <= runs /\ (k.run = 0 => k = NoKey)
    /\ \A k, l \in keys : k.run = l.run => k.pair = l.pair
    /\ place # 0 /\ place <= first => \A k \in keys : k.run # runs
    /\ place = first + 1 => \A k \in keys : k.run = runs => k.pair = inHand

KeyInv ==
    /\ deployed \in [Provisioned -> Key]
    /\ at # 0 => keygenRuns > 0
    /\ Ring(SigningKeys, 1, at, pair, keygenRuns)
    /\ Ring(DeviceKeys, 3, at, pair, keygenRuns)

\* A key that is copied is one there was already.
LEMMA RingOfCopies ==
    ASSUME NEW keys, NEW copies, copies \subseteq keys,
           NEW first, NEW place, NEW inHand, NEW runs,
           Ring(keys, first, place, inHand, runs)
    PROVE  Ring(copies, first, place, inHand, runs)
BY DEF Ring

LEMMA RingStarts ==
    ASSUME NEW keys, NEW first \in {1, 3}, NEW inHand, NEW runs \in Nat,
           Ring(keys, first, 0, inHand, runs)
    PROVE  Ring(keys, first, 1, inHand, runs + 1)
BY DEF Ring, Key

LEMMA RingEnds ==
    ASSUME NEW keys, NEW first \in {1, 3}, NEW place, NEW inHand, NEW runs,
           Ring(keys, first, place, inHand, runs)
    PROVE  Ring(keys, first, 0, inHand, runs)
BY DEF Ring

\* A file is emptied; before the first half the next pair is generated.
LEMMA RingOpens ==
    ASSUME NEW keys, NEW emptied, emptied \subseteq keys \cup {NoKey},
           NEW first \in {1, 3}, NEW place \in 1..4,
           NEW inHand, NEW next, NEW runs \in Nat, runs > 0,
           place \notin {1, 3} => next = inHand,
           Ring(keys, first, place, inHand, runs)
    PROVE  Ring(emptied, first, place, next, runs)
<1>1. NoKey \in Key /\ NoKey.run = 0
    BY DEF NoKey, Key
<1>. QED  BY <1>1 DEF Ring, Key

\* A file is filled with the pair in hand: one of these files, or another.
LEMMA RingFills ==
    ASSUME NEW keys, NEW filled, NEW first \in {1, 3}, NEW place \in 1..4,
           NEW inHand \in Nat, NEW runs \in Nat, runs > 0,
           Ring(keys, first, place, inHand, runs),
           \/ /\ place \in {first, first + 1}
              /\ filled \subseteq keys \cup {[pair |-> inHand, run |-> runs]}
           \/ place \notin {first, first + 1} /\ filled \subseteq keys
    PROVE  Ring(filled, first, place + 1, inHand, runs)
<1>. DEFINE new == [pair |-> inHand, run |-> runs]
<1>1. new \in Key /\ new.run = runs /\ new.pair = inHand
    BY DEF Key
<1>2. CASE place \in {first, first + 1}
    <2>1. \A k \in filled : k \in keys \/ k = new
        BY <1>2
    <2>. HIDE DEF new
    <2>. QED  BY <1>1, <1>2, <2>1 DEF Ring, Key
<1>3. CASE place \notin {first, first + 1}
    BY <1>3 DEF Ring, Key
<1>. QED  BY <1>2, <1>3

LEMMA KeysInitially ==
    ASSUME Init PROVE KeyInv
<1>1. /\ signer = {} /\ recipient = {} /\ output = {} /\ at = 0
      /\ deployed = [name \in Provisioned |-> keyFile[name]]
    BY DEF Init, KeygenInit, PackagerInit
<1>2. /\ SigningKeys = {keyFile["signing_private"], keyFile["signing_public"]}
      /\ DeviceKeys = {keyFile["device_private"], keyFile["device_public"]}
    BY <1>1 DEF SigningKeys, DeviceKeys, Provisioned
<1>3. /\ keyFile \in [KeyName -> Key] /\ keygenRuns \in Nat
    BY KeygenInitially DEF KeygenTypeOK
<1>4. deployed \in [Provisioned -> Key]
    BY <1>1, <1>3, KeyNames DEF Provisioned
<1>5. CASE NoKeys
    <2>1. /\ SigningKeys = {NoKey} /\ DeviceKeys = {NoKey} /\ keygenRuns = 0
        BY <1>2, <1>5, KeyNames DEF NoKeys
    <2>. QED  BY <1>1, <1>4, <2>1 DEF KeyInv, Ring, NoKey, Key
<1>6. CASE NewKeys
    <2>1. /\ SigningKeys = {[pair |-> 1, run |-> 1]}
          /\ DeviceKeys = {[pair |-> 2, run |-> 1]} /\ keygenRuns = 1
        BY <1>2, <1>6, KeyNames DEF NewKeys
    <2>. QED  BY <1>1, <1>4, <2>1 DEF KeyInv, Ring, Key
<1>. QED  BY <1>5, <1>6 DEF Init, KeygenInit

\* The packager and whoever provisions a device only copy keys.
LEMMA KeysAreCopied ==
    ASSUME KeygenTypeOK, KeyInv, UNCHANGED keygenVars,
           \/ PackagerNext(Usable("signing_private"), Usable("device_public"))
                /\ UNCHANGED deployed
           \/ CopyKey
           \/ UNCHANGED vars
    PROVE  KeyInv'
<1>0. /\ UNCHANGED <<keyFile, at, pair, keygenRuns>>
      /\ keyFile \in [KeyName -> Key]
    BY DEF keygenVars, KeygenTypeOK
<1>. DEFINE Copied == /\ SigningKeys' \subseteq SigningKeys /\ DeviceKeys' \subseteq DeviceKeys
                      /\ deployed' \in [Provisioned -> Key]
<1>1. Copied
    <2>1. CASE UNCHANGED <<signer, recipient, output, deployed>>
        BY <1>0, <2>1 DEF SigningKeys, DeviceKeys, KeyInv
    <2>2. CASE CopyKey
        <3>1. PICK name \in Provisioned : deployed' = [deployed EXCEPT ![name] = keyFile[name]]
            BY <2>2 DEF CopyKey
        <3>2. UNCHANGED <<signer, recipient, output>>
            BY <2>2 DEF CopyKey, packagerVars
        <3>. QED  BY <1>0, <3>1, <3>2, KeyNames DEF SigningKeys, DeviceKeys, Provisioned, KeyInv
    <2>3. ASSUME UNCHANGED deployed, LoadSigningKey(Usable("signing_private"))
          PROVE  Copied
        BY <1>0, <2>3 DEF LoadSigningKey, Usable, SigningKeys, DeviceKeys, KeyInv
    <2>4. ASSUME UNCHANGED deployed, LoadDeviceKey(Usable("device_public"))
          PROVE  Copied
        BY <1>0, <2>4 DEF LoadDeviceKey, Usable, SigningKeys, DeviceKeys, KeyInv
    <2>5. ASSUME UNCHANGED deployed, OpenOutput \/ FillOutput
          PROVE  Copied
        <3>1. /\ \E whole \in BOOLEAN : output' = {Blob(whole)}
              /\ UNCHANGED <<signer, recipient>>
            BY <2>5 DEF OpenOutput, FillOutput, Keys
        <3>2. \A blob \in output' : blob.signer = signer /\ blob.recipient = recipient
            BY <3>1 DEF Blob
        <3>. QED  BY <1>0, <2>5, <3>1, <3>2 DEF SigningKeys, DeviceKeys, KeyInv
    <2>6. ASSUME UNCHANGED deployed,
                 \/ CheckKeyFiles(Usable("signing_private"), Usable("device_public"))
                 \/ Edit \/ StartPack \/ ListInput \/ IsFile \/ HashFile \/ ListAgain
                   \/ AddFile \/ Seal \/ AbortPack
          PROVE  Copied
        <3>1. UNCHANGED <<signer, recipient, output>>
            BY <2>6 DEF CheckKeyFiles, Edit, StartPack, ListInput, IsFile, HashFile, ListAgain, AddFile,
                        Seal, AbortPack, Visit, Keys
        <3>. QED  BY <2>1, <2>6, <3>1
    <2>. QED  BY <2>1, <2>2, <2>3, <2>4, <2>5, <2>6 DEF PackagerNext, vars, packagerVars
<1>2. /\ Ring(SigningKeys', 1, at, pair, keygenRuns)
      /\ Ring(DeviceKeys', 3, at, pair, keygenRuns)
    BY <1>1, RingOfCopies DEF KeyInv
<1>. QED  BY <1>0, <1>1, <1>2 DEF KeyInv

LEMMA KeysAreGenerated ==
    ASSUME KeygenTypeOK, KeyInv, UNCHANGED <<packagerVars, deployed>>,
           NEW limit, KeygenNext(limit)
    PROVE  KeyInv'
<1>1. /\ UNCHANGED <<signer, recipient, output, deployed>>
      /\ keyFile \in [KeyName -> Key] /\ pair \in Nat /\ keygenRuns \in Nat /\ at \in 0..5
    BY DEF packagerVars, KeygenTypeOK
<1>2. CASE StartKeygen(limit)
    <2>1. SigningKeys' = SigningKeys /\ DeviceKeys' = DeviceKeys
        BY <1>1, <1>2 DEF StartKeygen, SigningKeys, DeviceKeys
    <2>2. at = 0 /\ at' = 1 /\ pair' = pair /\ keygenRuns' = keygenRuns + 1
        BY <1>2 DEF StartKeygen
    <2>. QED  BY <1>1, <2>1, <2>2, RingStarts DEF KeyInv
<1>3. CASE OpenKeyFile
    <2>1. /\ at \in 1..4 /\ UNCHANGED <<at, keygenRuns>>
          /\ at \notin {1, 3} => pair' = pair
          /\ keyFile' = [keyFile EXCEPT ![KEYFILES[at]] = NoKey]
        BY <1>3, KeyNames DEF OpenKeyFile, Generated
    <2>2. \A name \in KeyName : keyFile'[name] \in {keyFile[name], NoKey}
        BY <1>1, <2>1
    <2>3. /\ SigningKeys' \subseteq SigningKeys \cup {NoKey}
          /\ DeviceKeys' \subseteq DeviceKeys \cup {NoKey}
        BY <1>1, <2>2, KeyNames DEF SigningKeys, DeviceKeys
    <2>4. keygenRuns > 0
        BY <2>1 DEF KeyInv
    <2>. QED  BY <1>1, <2>1, <2>3, <2>4, RingOpens DEF KeyInv
<1>4. CASE FillKeyFile
    <2>. DEFINE new == [pair |-> pair, run |-> keygenRuns]
    <2>1. /\ at \in 1..4 /\ at' = at + 1 /\ UNCHANGED <<pair, keygenRuns>>
          /\ keyFile' = [keyFile EXCEPT ![KEYFILES[at]] = new]
        BY <1>4 DEF FillKeyFile, KeygenTypeOK
    <2>2. \A name \in KeyName : keyFile'[name] = IF name = KEYFILES[at] THEN new ELSE keyFile[name]
        BY <1>1, <2>1
    <2>3. /\ at \in {1, 2} => SigningKeys' \subseteq SigningKeys \cup {new}
          /\ at \notin {1, 2} => SigningKeys' \subseteq SigningKeys
        BY <1>1, <2>1, <2>2, KeyNames DEF SigningKeys
    <2>4. /\ at \in {3, 4} => DeviceKeys' \subseteq DeviceKeys \cup {new}
          /\ at \notin {3, 4} => DeviceKeys' \subseteq DeviceKeys
        BY <1>1, <2>1, <2>2, KeyNames DEF DeviceKeys
    <2>5. keygenRuns > 0
        BY <2>1 DEF KeyInv
    <2>6. /\ Ring(SigningKeys', 1, at + 1, pair, keygenRuns)
          /\ Ring(DeviceKeys', 3, at + 1, pair, keygenRuns)
        <3>. HIDE DEF new
        <3>1. at \in {1, 1 + 1} <=> at \in {1, 2}
            OBVIOUS
        <3>2. at \in {3, 3 + 1} <=> at \in {3, 4}
            OBVIOUS
        <3>3. Ring(SigningKeys, 1, at, pair, keygenRuns)
              /\ Ring(DeviceKeys, 3, at, pair, keygenRuns)
            BY DEF KeyInv
        <3>4. Ring(SigningKeys', 1, at + 1, pair, keygenRuns)
            BY <1>1, <2>1, <2>3, <2>5, <3>1, <3>3, RingFills DEF new
        <3>5. Ring(DeviceKeys', 3, at + 1, pair, keygenRuns)
            BY <1>1, <2>1, <2>4, <2>5, <3>2, <3>3, RingFills DEF new
        <3>. QED  BY <3>4, <3>5
    <2>. QED  BY <1>1, <2>1, <2>5, <2>6 DEF KeyInv
<1>5. CASE EndKeygen \/ InterruptKeygen
    <2>1. at' = 0 /\ UNCHANGED <<keyFile, pair, keygenRuns>>
        BY <1>5 DEF EndKeygen, InterruptKeygen
    <2>2. SigningKeys' = SigningKeys /\ DeviceKeys' = DeviceKeys
        BY <1>1, <2>1 DEF SigningKeys, DeviceKeys
    <2>. QED  BY <1>1, <2>1, <2>2, RingEnds DEF KeyInv
<1>. QED  BY <1>2, <1>3, <1>4, <1>5 DEF KeygenNext

LEMMA KeyStep ==
    ASSUME KeygenTypeOK, KeyInv, [Next]_vars
    PROVE  KeyInv'
BY KeysAreCopied, KeysAreGenerated DEF Next, CopyKey, vars

-----------------------------------------------------------------------------
(* The two walks over the input directory.                                 *)

Place == DOMAIN PathOrder

Member == [path : InputPath, kind : {"regular", "hardlink", "symlink"}, data : Content]

\* A directory as somebody may leave it.
Within(dir) ==
    dir \in Directory /\ \A n \in InputPath : \A f \in dir[n] : f.data \in MayHold(n)

\* A list a walk has made, one entry to a path, before the places in left.
Behind(list, left) ==
    /\ \A i \in DOMAIN list : \E p \in Place :
          list[i].path = PathOrder[p] /\ \A q \in left : p < q
    /\ \A i, j \in DOMAIN list : list[i].path = list[j].path => i = j

\* The line, or the member, is for the file in dir.
LineIsOf(line, dir) ==
    dir[line.path] # {} /\ line.sha256 = EVP_sha256(DataAt(dir, line.path))

MemberIsOf(m, dir) == \E f \in dir[m.path] : m.kind = f.kind /\ m.data = f.data

Has(list, n) == \E i \in DOMAIN list : list[i].path = n

\* What the manifest says of path n is what dir holds there.
Steady(lines, dir, n) ==
    /\ dir[n] # {} => Has(lines, n)
    /\ \A i \in DOMAIN lines : lines[i].path = n => LineIsOf(lines[i], dir)

\* Or it is one of some paths.
Settled(but, lines, dir, n) == n \in but \/ Steady(lines, dir, n)

\* The first walk has seen each path as it still is, unless it was changed.
Hashed ==
    /\ Behind(files, todo)
    /\ \A p \in Place : PathOrder[p] \notin edited =>
          /\ input[PathOrder[p]] # {} => p \in todo \/ Has(files, PathOrder[p])
          /\ \A i \in DOMAIN files : files[i].path = PathOrder[p] => LineIsOf(files[i], input)

\* A path that has changed once, since the second walk began, had not changed
\* when the first walk was there: the manifest says what the snapshot holds.
Gathered ==
    /\ Behind(files, {}) /\ Behind(members, todo)
    /\ \A n \in InputPath :
          /\ n \notin edited => input[n] = snapshot[n] /\ Steady(files, snapshot, n)
          /\ input[n] # snapshot[n] => Settled(restless, files, snapshot, n)
    /\ \A i \in DOMAIN members :
          \/ MemberIsOf(members[i], snapshot)
          \/ members[i].path \in edited /\ Settled(restless, files, snapshot, members[i].path)
    /\ \A p \in Place \ todo : snapshot[PathOrder[p]] # {} =>
          \/ Has(members, PathOrder[p])
          \/ PathOrder[p] \in edited /\ Settled(restless, files, snapshot, PathOrder[p])

WalkTypeOK ==
    /\ setting \in Setting
    /\ Within(input) /\ Within(snapshot)
    /\ todo \subseteq Place
    /\ found => todo # {}
    /\ files \in Seq(Listing) /\ members \in Seq(Member)
    /\ dumps(files) \in Content

WalkInv ==
    /\ stage \in {"key_files", "signing_key", "device_key", "list", "manifest"} => members = <<>>
    /\ stage \in {"key_files", "signing_key", "device_key", "list"} => files = <<>> /\ found = FALSE
    /\ stage = "manifest" => Hashed
    /\ stage \in {"tarball", "write", "fill"} => Gathered
    /\ stage \in {"write", "fill"} => todo = {}

LEMMA Appended ==
    ASSUME NEW S, NEW s \in Seq(S), NEW e \in S
    PROVE  /\ Append(s, e) \in Seq(S)
           /\ DOMAIN Append(s, e) = 1..(Len(s) + 1) /\ DOMAIN s = 1..Len(s) /\ Len(s) \in Nat
           /\ Append(s, e)[Len(s) + 1] = e
           /\ \A i \in DOMAIN s : i \in DOMAIN Append(s, e) /\ Append(s, e)[i] = s[i]
           /\ \A i \in DOMAIN Append(s, e) : i \in DOMAIN s \/ i = Len(s) + 1
OBVIOUS

LEMMA FileThere ==
    ASSUME NEW dir \in Directory, NEW n \in InputPath, NEW f \in dir[n]
    PROVE  f \in File /\ dir[n] = {f} /\ DataAt(dir, n) = f.data
<1>1. dir[n] \in {{}} \cup {{g} : g \in File}
    BY DEF Directory
<1>2. PICK g \in File : dir[n] = {g}
    BY <1>1
<1>. QED  BY <1>2 DEF DataAt

LEMMA FirstOfTodo ==
    ASSUME todo \subseteq Place, todo # {}
    PROVE  /\ First \in todo /\ \A q \in todo : First <= q
           /\ First \in Place /\ Here \in InputPath /\ Here \in Path
<1>1. Place = 1..Len(PathOrder) /\ Len(PathOrder) \in Nat
    BY PathOrderAssumption DEF Place
<1>2. \E p \in todo : \A q \in todo : p <= q
    <2>1. todo \subseteq Nat
        BY <1>1
    <2>. QED  BY <2>1, LeastNatural
<1>. QED  BY <1>1, <1>2, PathOrderAssumption DEF First, Here, InputPath, Place

LEMMA PlacesApart ==
    /\ \A p, q \in Place : PathOrder[p] = PathOrder[q] => p = q
    /\ \A n \in InputPath : n \in Path /\ \E p \in Place : PathOrder[p] = n
    /\ \A p \in Place : PathOrder[p] \in InputPath /\ p \in Nat
BY PathOrderAssumption DEF Place, InputPath

\* The list grows by an entry for the first place that is left.
LEMMA BehindGrows ==
    ASSUME NEW S, NEW list \in Seq(S), NEW e \in S, todo \subseteq Place, todo # {},
           e.path = Here, Behind(list, todo)
    PROVE  Behind(Append(list, e), todo \ {First})
<1>1. /\ First \in todo /\ \A q \in todo : First <= q
      /\ First \in Place /\ Here = PathOrder[First]
    BY FirstOfTodo DEF Here
<1>2. \A q \in todo \ {First} : First < q
    BY <1>1, PlacesApart
<1>3. ASSUME NEW i \in DOMAIN Append(list, e)
      PROVE  \E p \in Place : Append(list, e)[i].path = PathOrder[p]
                                /\ \A q \in todo \ {First} : p < q
    BY <1>1, <1>2, Appended DEF Behind
<1>4. ASSUME NEW i \in DOMAIN list
      PROVE  list[i].path # Here
    BY <1>1, PlacesApart DEF Behind
<1>5. \A i, j \in DOMAIN Append(list, e) :
            Append(list, e)[i].path = Append(list, e)[j].path => i = j
    BY <1>4, Appended DEF Behind
<1>. QED  BY <1>3, <1>5 DEF Behind

LEMMA BehindShrinks ==
    ASSUME NEW list, NEW left, NEW fewer, fewer \subseteq left, Behind(list, left)
    PROVE  Behind(list, fewer)
BY DEF Behind

LEMMA BehindNothing ==
    ASSUME NEW left PROVE Behind(<<>>, left)
BY DEF Behind

\* With another line for a path that comes later it is still a manifest.json
\* the packager may write.
LEMMA DumpsGrows ==
    ASSUME WalkTypeOK, todo # {}, Behind(files, todo), NEW f \in input[Here]
    PROVE  /\ Line(Here, f.data) \in Listing
           /\ dumps(Append(files, Line(Here, f.data))) \in Content
<1>1. /\ First \in todo /\ First \in Place /\ Here \in InputPath /\ Here \in Path
      /\ Here = PathOrder[First]
    BY FirstOfTodo DEF WalkTypeOK, Here
<1>2. f.data \in MayHold(Here) /\ f.data \in Content
    BY <1>1 DEF WalkTypeOK, Within, MayHold
<1>3. Line(Here, f.data) \in Listing
    BY <1>1, <1>2 DEF Line, Listing
<1>4. \A k \in DOMAIN files : \E j \in 1..(First - 1) : files[k].path = PathOrder[j]
    BY <1>1, PathOrderAssumption DEF Behind, Place
<1>5. dumps(files) \in Content /\ dumps(files).lists = files
    BY DEF WalkTypeOK, dumps
<1>6. dumps(Append(files, Line(Here, f.data))) \in Content
    BY <1>1, <1>2, <1>4, <1>5, ContentAssumption DEF Place
<1>. QED  BY <1>3, <1>6

LEMMA WalkInitially ==
    ASSUME Init PROVE WalkTypeOK /\ WalkInv
<1>1. /\ setting \in Setting /\ input \in InputDir[setting] /\ snapshot = input
      /\ todo = {} /\ found = FALSE /\ files = <<>> /\ members = <<>> /\ stage = "idle"
    BY DEF Init, PackagerInit
<1>2. input \in Directory
    BY <1>1, InputAssumption
<1>3. ASSUME NEW n \in InputPath, NEW f \in input[n]
      PROVE  f.data \in MayHold(n)
    <2>1. f \in File
        BY <1>2, FileThere
    <2>. QED  BY <1>1, <2>1 DEF File, MayHold
<1>4. WalkTypeOK
    BY <1>1, <1>2, <1>3, ContentAssumption DEF WalkTypeOK, Within
<1>. QED  BY <1>1, <1>4 DEF WalkInv

LEMMA WalkTypeStep ==
    ASSUME WalkTypeOK, WalkInv,
           NEW signing_private, NEW device_public,
           PackagerNext(signing_private, device_public)
    PROVE  WalkTypeOK'
<1>1. CASE Edit
    <2>0. PICK n \in InputPath :
            \E f \in {{}} \cup {{r} : r \in Replacement[setting][n]} :
                input' = [input EXCEPT ![n] = f]
        BY <1>1 DEF Edit
    <2>1. PICK f \in {{}} \cup {{r} : r \in Replacement[setting][n]} :
                input' = [input EXCEPT ![n] = f]
        BY <2>0
    <2>2. \A r \in f : r \in File /\ r.data \in MayHold(n)
        <3>1. SUFFICES ASSUME NEW r \in f
                       PROVE  r \in File /\ r.data \in MayHold(n)
            OBVIOUS
        <3>2. r \in Replacement[setting][n] /\ setting \in Setting
            BY DEF WalkTypeOK
        <3>3. r \in File
            BY <3>2, InputAssumption
        <3>. QED  BY <3>2, <3>3 DEF MayHold, File
    <2>3. f \in {{}} \cup {{g} : g \in File}
        BY <2>2
    <2>4. Within(input')
        BY <2>1, <2>2, <2>3 DEF Within, Directory, WalkTypeOK
    <2>. QED  BY <1>1, <2>4 DEF Edit, Walk, WalkTypeOK
<1>2. CASE StartPack
    BY <1>2, ContentAssumption DEF StartPack, WalkTypeOK
<1>3. CASE \/ CheckKeyFiles(signing_private, device_public)
           \/ LoadSigningKey(signing_private) \/ LoadDeviceKey(device_public)
           \/ Seal \/ OpenOutput \/ FillOutput \/ AbortPack
    <2>1. UNCHANGED <<setting, input, todo, found, files, members, snapshot>>
        BY <1>3 DEF CheckKeyFiles, LoadSigningKey, LoadDeviceKey, Seal, OpenOutput, FillOutput, AbortPack, Walk
    <2>. QED  BY <2>1 DEF WalkTypeOK
<1>4. CASE ListInput
    <2>1. /\ stage = "list" /\ todo' = Listed
          /\ UNCHANGED <<setting, input, found, files, members, snapshot>>
        BY <1>4 DEF ListInput
    <2>2. ~found
        BY <2>1 DEF WalkInv
    <2>. QED  BY <2>1, <2>2 DEF Listed, Place, WalkTypeOK
<1>5. CASE ListAgain
    BY <1>5 DEF ListAgain, Listed, Place, WalkTypeOK
<1>6. CASE IsFile
    <2>1. /\ todo # {} /\ UNCHANGED <<setting, input, files, members, snapshot>>
          /\ \/ found' = TRUE /\ todo' = todo
             \/ found' = found /\ todo' = todo \ {First} /\ ~found
        BY <1>6 DEF IsFile
    <2>. QED  BY <2>1 DEF WalkTypeOK
<1>7. CASE HashFile
    <2>1. todo' \subseteq Place /\ found' = FALSE /\ todo # {}
        BY <1>7 DEF HashFile, Visit, WalkTypeOK
    <2>2. files' \in Seq(Listing) /\ dumps(files') \in Content
        <3>1. CASE \E f \in input[Here] : files' = Append(files, Line(Here, f.data))
            BY <1>7, <2>1, <3>1, DumpsGrows, Appended DEF HashFile, WalkInv, Hashed, WalkTypeOK
        <3>2. CASE files' = files
            BY <3>2 DEF WalkTypeOK
        <3>. QED  BY <1>7, <3>1, <3>2 DEF HashFile
    <2>. QED  BY <1>7, <2>1, <2>2 DEF HashFile, Visit, WalkTypeOK
<1>8. CASE AddFile
    <2>1. todo' \subseteq Place /\ found' = FALSE /\ todo # {}
        BY <1>8 DEF AddFile, Visit, WalkTypeOK
    <2>2. members' \in Seq(Member)
        <3>1. ASSUME NEW f \in input[Here],
                     members' = Append(members, [path |-> Here, kind |-> f.kind, data |-> f.data])
              PROVE  members' \in Seq(Member)
            <4>1. Here \in InputPath /\ f \in File
                BY <2>1, FirstOfTodo, FileThere DEF WalkTypeOK, Within
            <4>2. [path |-> Here, kind |-> f.kind, data |-> f.data] \in Member
                BY <4>1 DEF Member, File
            <4>. QED  BY <3>1, <4>2 DEF WalkTypeOK
        <3>. QED  BY <1>8, <3>1 DEF AddFile, WalkTypeOK
    <2>. QED  BY <1>8, <2>1, <2>2 DEF AddFile, Visit, WalkTypeOK
<1>. QED
    BY <1>1, <1>2, <1>3, <1>4, <1>5, <1>6, <1>7, <1>8 DEF PackagerNext

\* What was said of a path that has not changed goes for it when it has.
LEMMA EditKeepsWalk ==
    ASSUME WalkTypeOK, WalkInv, Edit PROVE WalkInv'
<1>1. PICK n \in InputPath :
            /\ \E f : input' = [input EXCEPT ![n] = f]
            /\ edited' = edited \cup {n}
            /\ restless' = restless \cup ({n} \cap edited)
    BY DEF Edit
<1>2. /\ UNCHANGED <<stage, todo, found, files, members, snapshot>>
      /\ \A m \in InputPath : m # n => input'[m] = input[m]
    BY <1>1 DEF Edit, Walk, WalkTypeOK, Within, Directory
<1>3. ASSUME stage = "manifest"
      PROVE  Hashed'
    <2>1. Hashed
        BY <1>3 DEF WalkInv
    <2>2. ASSUME NEW p \in Place, PathOrder[p] \notin edited'
          PROVE  /\ input'[PathOrder[p]] = input[PathOrder[p]]
                 /\ PathOrder[p] \in InputPath /\ PathOrder[p] \notin edited
        BY <1>1, <1>2, <2>2, PlacesApart
    <2>3. ASSUME NEW p \in Place, PathOrder[p] \notin edited',
                 NEW i \in DOMAIN files, files[i].path = PathOrder[p]
          PROVE  LineIsOf(files[i], input')
        BY <2>1, <2>2, <2>3 DEF Hashed, LineIsOf, DataAt
    <2>. QED  BY <1>2, <2>1, <2>2, <2>3 DEF Hashed
<1>4. ASSUME stage \in {"tarball", "write", "fill"}
      PROVE  Gathered'
    <2>1. Gathered
        BY <1>4 DEF WalkInv
    <2>2. Behind(files', {}) /\ Behind(members', todo')
        BY <1>2, <2>1 DEF Gathered
    <2>3. \A m \in InputPath :
            Settled(restless, files, snapshot, m) => Settled(restless', files', snapshot', m)
        BY <1>1, <1>2 DEF Settled
    <2>4. Settled(restless', files', snapshot', n)
        BY <1>1, <1>2, <2>1 DEF Gathered, Settled
    <2>5. ASSUME NEW m \in InputPath
          PROVE  /\ m \notin edited' => input'[m] = snapshot'[m] /\ Steady(files', snapshot', m)
                 /\ input'[m] # snapshot'[m] => Settled(restless', files', snapshot', m)
        <3>1. CASE m = n
            BY <1>1, <2>4, <3>1
        <3>2. CASE m # n
            BY <1>1, <1>2, <2>1, <2>3, <3>2 DEF Gathered
        <3>. QED  BY <3>1, <3>2
    <2>6. ASSUME NEW i \in DOMAIN members'
          PROVE  \/ MemberIsOf(members'[i], snapshot')
                 \/ /\ members'[i].path \in edited'
                    /\ Settled(restless', files', snapshot', members'[i].path)
        <3>1. members \in Seq(Member) /\ i \in DOMAIN members
            BY <1>2 DEF WalkTypeOK
        <3>2. members[i] \in Member
            BY <3>1
        <3>3. members[i].path \in InputPath
            BY <3>2 DEF Member
        <3>. QED  BY <1>1, <1>2, <2>1, <2>3, <3>1, <3>3 DEF Gathered
    <2>7. ASSUME NEW p \in Place \ todo', snapshot'[PathOrder[p]] # {}
          PROVE  \/ Has(members', PathOrder[p])
                 \/ PathOrder[p] \in edited' /\ Settled(restless', files', snapshot', PathOrder[p])
        <3>1. PathOrder[p] \in InputPath
            BY PlacesApart
        <3>. QED  BY <1>1, <1>2, <2>1, <2>3, <2>7, <3>1 DEF Gathered
    <2>. QED  BY <2>2, <2>5, <2>6, <2>7 DEF Gathered
<1>. QED  BY <1>2, <1>3, <1>4 DEF WalkInv

LEMMA IsFileKeepsWalk ==
    ASSUME WalkTypeOK, WalkInv, IsFile PROVE WalkInv'
<1>1. /\ UNCHANGED <<stage, input, edited, restless, files, members, snapshot>>
      /\ todo # {} /\ todo \subseteq Place
      /\ \/ todo' = todo
         \/ input[Here] = {} /\ todo' = todo \ {First}
    BY DEF IsFile, WalkTypeOK
<1>2. First \in Place /\ Here = PathOrder[First] /\ Here \in InputPath
    BY <1>1, FirstOfTodo DEF Here
<1>3. ASSUME stage = "manifest"
      PROVE  Hashed'
    BY <1>1, <1>2, <1>3, BehindShrinks, PlacesApart DEF WalkInv, Hashed
<1>4. ASSUME stage \in {"tarball", "write", "fill"}
      PROVE  Gathered'
    <2>1. Gathered
        BY <1>4 DEF WalkInv
    <2>2. Behind(members, todo')
        BY <1>1, <2>1, BehindShrinks DEF Gathered
    <2>3. ASSUME NEW p \in Place \ todo', snapshot[PathOrder[p]] # {}
          PROVE  \/ Has(members, PathOrder[p])
                 \/ PathOrder[p] \in edited /\ Settled(restless, files, snapshot, PathOrder[p])
        <3>1. CASE p \in todo
            <4>1. PathOrder[p] = Here /\ input[Here] = {}
                BY <1>1, <1>2, <2>3, <3>1
            <4>. QED  BY <1>2, <2>1, <2>3, <4>1 DEF Gathered
        <3>2. CASE p \notin todo
            BY <2>1, <2>3, <3>2 DEF Gathered
        <3>. QED  BY <3>1, <3>2
    <2>. QED  BY <1>1, <2>1, <2>2, <2>3 DEF Gathered
<1>5. stage \in {"manifest", "tarball"}
    BY DEF IsFile
<1>6. /\ stage' \notin {"key_files", "signing_key", "device_key", "list", "write", "fill"}
      /\ stage' = "manifest" => members' = <<>>
    BY <1>1, <1>5 DEF WalkInv
<1>. QED  BY <1>1, <1>3, <1>4, <1>6 DEF WalkInv

LEMMA HashFileKeepsWalk ==
    ASSUME WalkTypeOK, WalkInv, HashFile PROVE WalkInv'
<1>1. /\ stage = "manifest" /\ UNCHANGED <<input, edited, restless, members, snapshot>>
      /\ todo # {} /\ todo \subseteq Place /\ todo' = todo \ {First}
    BY DEF HashFile, Visit, WalkTypeOK
<1>2. members = <<>> /\ Hashed
    BY <1>1 DEF WalkInv
<1>3. CASE stage' = "idle"
    BY <1>3 DEF WalkInv
<1>4. ASSUME NEW f \in input[Here], stage' = stage,
             files' = Append(files, Line(Here, f.data))
      PROVE  WalkInv'
    <2>1. First \in Place /\ Here = PathOrder[First] /\ Here \in InputPath
        BY <1>1, FirstOfTodo DEF Here
    <2>2. Line(Here, f.data) \in Listing /\ files \in Seq(Listing)
        BY <1>1, <1>2, DumpsGrows DEF Hashed, WalkTypeOK
    <2>3. Line(Here, f.data).path = Here /\ Line(Here, f.data).sha256 = EVP_sha256(f.data)
        BY DEF Line
    <2>4. LineIsOf(Line(Here, f.data), input)
        BY <2>1, <2>3, FileThere DEF LineIsOf, WalkTypeOK, Within
    <2>. DEFINE line == Line(Here, f.data)
    <2>. HIDE DEF line
    <2>5. Behind(files', todo')
        BY <1>1, <1>2, <1>4, <2>2, <2>3, BehindGrows DEF Hashed, line
    <2>6. /\ DOMAIN files' = 1..(Len(files) + 1)
          /\ files'[Len(files) + 1] = line
          /\ \A i \in DOMAIN files : i \in DOMAIN files' /\ files'[i] = files[i]
          /\ \A i \in DOMAIN files' : i \in DOMAIN files \/ i = Len(files) + 1
          /\ Len(files) + 1 \in DOMAIN files'
        BY <1>4, <2>2, Appended DEF line
    <2>7. ASSUME NEW p \in Place, PathOrder[p] \notin edited, input[PathOrder[p]] # {}
          PROVE  p \in todo' \/ Has(files', PathOrder[p])
        <3>1. CASE p = First
            <4>1. files'[Len(files) + 1].path = PathOrder[p]
                BY <2>1, <2>3, <2>6, <3>1 DEF line
            <4>. QED  BY <2>6, <4>1 DEF Has
        <3>2. CASE p # First
            BY <1>1, <1>2, <2>6, <2>7, <3>2 DEF Hashed, Has
        <3>. QED  BY <3>1, <3>2
    <2>8. ASSUME NEW p \in Place, PathOrder[p] \notin edited,
                 NEW i \in DOMAIN files', files'[i].path = PathOrder[p]
          PROVE  LineIsOf(files'[i], input)
        BY <1>2, <2>4, <2>6, <2>8 DEF Hashed, line
    <2>9. Hashed'
        BY <1>1, <2>5, <2>7, <2>8 DEF Hashed
    <2>. QED  BY <1>1, <1>2, <1>4, <2>9 DEF WalkInv
<1>. QED  BY <1>3, <1>4 DEF HashFile, Ends

LEMMA ListAgainKeepsWalk ==
    ASSUME WalkTypeOK, WalkInv, ListAgain PROVE WalkInv'
<1>1. /\ stage = "manifest" /\ todo = {} /\ stage' = "tarball" /\ todo' = Listed
      /\ snapshot' = input /\ UNCHANGED <<input, edited, restless, files, members>>
    BY DEF ListAgain
<1>2. Hashed /\ members = <<>>
    BY <1>1 DEF WalkInv
<1>3. ASSUME NEW n \in InputPath, n \notin edited
      PROVE  Steady(files, input, n)
    BY <1>1, <1>2, <1>3, PlacesApart DEF Hashed, Steady
<1>4. Behind(files, {}) /\ Behind(members, todo')
    BY <1>1, <1>2, BehindShrinks, BehindNothing DEF Hashed
<1>5. \A p \in Place \ todo' : input[PathOrder[p]] = {}
    BY <1>1 DEF Listed, Place
<1>6. Gathered'
    BY <1>1, <1>2, <1>3, <1>4, <1>5 DEF Gathered, Settled
<1>. QED  BY <1>1, <1>6 DEF WalkInv

LEMMA AddFileKeepsWalk ==
    ASSUME WalkTypeOK, WalkInv, WalkTypeOK', AddFile PROVE WalkInv'
<1>1. /\ stage = "tarball" /\ UNCHANGED <<input, edited, restless, files, snapshot>>
      /\ todo # {} /\ todo \subseteq Place /\ todo' = todo \ {First}
    BY DEF AddFile, Visit, WalkTypeOK
<1>2. Gathered
    BY <1>1 DEF WalkInv
<1>3. CASE stage' = "idle"
    BY <1>3 DEF WalkInv
<1>4. ASSUME NEW f \in input[Here], stage' = stage,
             members' = Append(members, [path |-> Here, kind |-> f.kind, data |-> f.data])
      PROVE  WalkInv'
    <2>. DEFINE m == [path |-> Here, kind |-> f.kind, data |-> f.data]
    <2>1. First \in Place /\ Here = PathOrder[First] /\ Here \in InputPath
        BY <1>1, FirstOfTodo DEF Here
    <2>2. m \in Member /\ members \in Seq(Member)
        BY <2>1, FileThere DEF WalkTypeOK, Within, Member, File
    <2>3. m.path = Here /\ m.kind = f.kind /\ m.data = f.data
        OBVIOUS
    <2>. HIDE DEF m
    <2>4. \/ MemberIsOf(m, snapshot)
          \/ m.path \in edited /\ Settled(restless, files, snapshot, m.path)
        BY <1>2, <2>1, <2>3 DEF Gathered, MemberIsOf
    <2>5. Behind(members', todo')
        BY <1>1, <1>2, <1>4, <2>2, <2>3, BehindGrows DEF Gathered, m
    <2>6. /\ members'[Len(members) + 1] = m /\ Len(members) + 1 \in DOMAIN members'
          /\ \A i \in DOMAIN members : i \in DOMAIN members' /\ members'[i] = members[i]
          /\ \A i \in DOMAIN members' : i \in DOMAIN members \/ i = Len(members) + 1
        BY <1>4, <2>2, Appended DEF m
    <2>7. \A i \in DOMAIN members' :
            \/ MemberIsOf(members'[i], snapshot)
            \/ members'[i].path \in edited /\ Settled(restless, files, snapshot, members'[i].path)
        BY <1>2, <2>4, <2>6 DEF Gathered
    <2>8. ASSUME NEW p \in Place \ todo', snapshot[PathOrder[p]] # {}
          PROVE  \/ Has(members', PathOrder[p])
                 \/ PathOrder[p] \in edited /\ Settled(restless, files, snapshot, PathOrder[p])
        <3>1. CASE p = First
            BY <2>1, <2>3, <2>6, <3>1 DEF Has
        <3>2. CASE p # First
            BY <1>1, <1>2, <2>6, <2>8, <3>2 DEF Gathered, Has
        <3>. QED  BY <3>1, <3>2
    <2>9. Gathered'
        BY <1>1, <1>2, <2>5, <2>7, <2>8 DEF Gathered
    <2>. QED  BY <1>1, <1>4, <2>9 DEF WalkInv
<1>. QED  BY <1>3, <1>4 DEF AddFile, Ends

LEMMA WalkStep ==
    ASSUME WalkTypeOK, WalkInv, [Next]_vars
    PROVE  WalkTypeOK' /\ WalkInv'
<1>1. CASE UNCHANGED packagerVars
    <2>1. UNCHANGED <<setting, input, edited, restless, stage, todo, found, files, members, snapshot>>
        BY <1>1 DEF packagerVars
    <2>2. Hashed' <=> Hashed
        BY <2>1 DEF Hashed
    <2>3. Gathered' <=> Gathered
        BY <2>1 DEF Gathered
    <2>. QED  BY <2>1, <2>2, <2>3 DEF WalkTypeOK, WalkInv
<1>2. ASSUME NEW signing_private, NEW device_public,
             PackagerNext(signing_private, device_public)
      PROVE  WalkTypeOK' /\ WalkInv'
    <2>1. WalkTypeOK'
        BY <1>2, WalkTypeStep
    <2>. SUFFICES WalkInv'
        BY <2>1
    <2>2. CASE StartPack
        BY <2>2 DEF StartPack, WalkInv
    <2>3. CASE \/ CheckKeyFiles(signing_private, device_public)
               \/ LoadSigningKey(signing_private) \/ LoadDeviceKey(device_public)
        BY <2>3 DEF CheckKeyFiles, LoadSigningKey, LoadDeviceKey, Walk, Ends, WalkInv
    <2>4. CASE ListInput
        <3>1. /\ stage = "list" /\ stage' = "manifest" /\ todo' = Listed
              /\ UNCHANGED <<input, edited, restless, files, members, snapshot>>
            BY <2>4 DEF ListInput
        <3>2. files = <<>> /\ members = <<>>
            BY <3>1 DEF WalkInv
        <3>3. Hashed'
            BY <3>1, <3>2, BehindNothing DEF Hashed, Listed, Place
        <3>. QED  BY <3>1, <3>2, <3>3 DEF WalkInv
    <2>5. CASE Seal \/ OpenOutput
        <3>1. /\ UNCHANGED <<input, edited, restless, todo, files, members, snapshot>>
              /\ stage \in {"tarball", "write"} /\ todo = {}
              /\ stage' \in {"idle", "write", "fill"}
            BY <2>5 DEF Seal, OpenOutput, Ends, Walk, WalkInv
        <3>2. Gathered
            BY <3>1 DEF WalkInv
        <3>3. Gathered'
            BY <3>1, <3>2 DEF Gathered
        <3>. QED  BY <3>1, <3>3 DEF WalkInv
    <2>6. CASE FillOutput \/ AbortPack
        BY <2>6 DEF FillOutput, AbortPack, Ends, WalkInv
    <2>. QED
        BY <1>2, <2>1, <2>2, <2>3, <2>4, <2>5, <2>6, EditKeepsWalk, IsFileKeepsWalk,
           HashFileKeepsWalk, ListAgainKeepsWalk, AddFileKeepsWalk DEF PackagerNext
<1>. QED  BY <1>1, <1>2 DEF Next, vars, CopyKey

-----------------------------------------------------------------------------
(* The package file.                                                       *)

ManifestMember(lines) ==
    [path |-> ManifestPath, kind |-> "regular", data |-> dumps(lines)]

\* Every member is the snapshot's file, and every file of it a member, or
\* else the manifest has a line for what the snapshot holds; but at some paths.
Collected(lines, ms, dir, but) ==
    /\ \A i \in DOMAIN ms :
          \/ MemberIsOf(ms[i], dir)
          \/ Settled(but, lines, dir, ms[i].path)
    /\ \A n \in InputPath : dir[n] # {} =>
          Has(ms, n) \/ Settled(but, lines, dir, n)

Sealed(blob, lines, ms) ==
    /\ lines \in Seq(Listing) /\ ms \in Seq(Member) /\ dumps(lines) \in Content
    /\ blob.members = Append(ms, ManifestMember(lines))
    /\ Behind(lines, {}) /\ Behind(ms, {})
    /\ Within(blob.snapshot)
    /\ Collected(lines, ms, blob.snapshot, blob.restless)

OutputInv == \A blob \in output : \E lines, ms : Sealed(blob, lines, ms)

LEMMA OutputStep ==
    ASSUME WalkTypeOK, WalkInv, OutputInv, [Next]_vars
    PROVE  OutputInv'
<1>1. CASE output' = output
    BY <1>1 DEF OutputInv
<1>2. CASE OpenOutput \/ FillOutput
    <2>1. /\ stage \in {"write", "fill"}
          /\ \E whole : output' = {Blob(whole)}
        BY <1>2 DEF OpenOutput, FillOutput
    <2>2. Gathered /\ todo = {}
        BY <2>1 DEF WalkInv
    <2>3. Collected(files, members, snapshot, restless)
        <3>1. \A n \in InputPath : \E p \in Place \ todo : PathOrder[p] = n
            BY <2>2, PlacesApart
        <3>. QED  BY <2>2, <3>1 DEF Gathered, Collected
    <2>4. ASSUME NEW whole
          PROVE  Sealed(Blob(whole), files, members)
        <3>1. /\ Blob(whole).members = Append(members, ManifestMember(files))
              /\ Blob(whole).snapshot = snapshot /\ Blob(whole).restless = restless
            BY DEF Blob, TheManifest, ManifestMember
        <3>. QED  BY <2>2, <2>3, <3>1 DEF Sealed, Gathered, WalkTypeOK
    <2>. QED  BY <2>1, <2>4 DEF OutputInv
<1>3. ASSUME NEW signing_private, NEW device_public,
             PackagerNext(signing_private, device_public)
      PROVE  output' = output \/ OpenOutput \/ FillOutput
    BY <1>3 DEF PackagerNext, Edit, StartPack, CheckKeyFiles, LoadSigningKey, LoadDeviceKey, ListInput,
                IsFile, HashFile, ListAgain, AddFile, Visit, Seal, AbortPack
<1>. QED  BY <1>1, <1>2, <1>3 DEF Next, vars, packagerVars, CopyKey

LEMMA Verdict ==
    ASSUME NEW entries \in Seq(Entry), FilesAt(entries, ManifestPath) # {}
    PROVE  fota_verify_manifest(entries) = "OK" <=>
               /\ ManifestOf(entries).parses
               /\ \A l \in DOMAIN ManifestOf(entries).files :
                      ListingMatches(entries, ManifestOf(entries).files[l])
               /\ Len(ManifestOf(entries).files) = Cardinality(FirmwareFiles(entries))
BY DEF fota_verify_manifest, MatchedCount

\* What the updater unpacks: the members, the packager's manifest last.
LEMMA Unpacked ==
    ASSUME NEW blob, NEW lines, NEW ms, Sealed(blob, lines, ms),
           NEW entries, entries = Received(blob).entries
    PROVE  /\ entries \in Seq(Entry)
           /\ DOMAIN ms = 1..Len(ms) /\ Len(ms) \in Nat
           /\ DOMAIN entries = 1..(Len(ms) + 1) /\ Len(entries) = Len(ms) + 1
           /\ \A i \in DOMAIN ms :
                 /\ i \in DOMAIN entries /\ ms[i] \in Member
                 /\ entries[i].path = ms[i].path /\ entries[i].type = "FILE"
                 /\ entries[i].data = ms[i].data
           /\ entries[Len(ms) + 1].path = ManifestPath
           /\ entries[Len(ms) + 1].type = "FILE"
           /\ entries[Len(ms) + 1].data = dumps(lines)
           /\ \A i \in DOMAIN entries : i \in DOMAIN ms \/ i = Len(ms) + 1
<1>. DEFINE last == ManifestMember(lines)
            S == Member \cup {last}
            packed == blob.members
<1>1. /\ ms \in Seq(S) /\ last \in S /\ packed = Append(ms, last)
      /\ dumps(lines) \in Content /\ ms \in Seq(Member)
    BY DEF Sealed
<1>2. /\ packed \in Seq(S)
      /\ DOMAIN packed = 1..(Len(ms) + 1) /\ DOMAIN ms = 1..Len(ms) /\ Len(ms) \in Nat
      /\ packed[Len(ms) + 1] = last
      /\ \A i \in DOMAIN ms : i \in DOMAIN packed /\ packed[i] = ms[i]
      /\ \A i \in DOMAIN packed : i \in DOMAIN ms \/ i = Len(ms) + 1
    <2>. HIDE DEF last, S
    <2>. QED  BY <1>1, Appended
<1>3. entries = [i \in DOMAIN packed |->
                    [path |-> packed[i].path, type |-> "FILE", data |-> packed[i].data]]
    BY DEF Received
<1>4. /\ last.path = ManifestPath /\ last.data = dumps(lines)
      /\ ManifestPath \in Path
    BY ManifestPathAssumption, PlacesApart DEF ManifestMember
<1>5. ASSUME NEW i \in DOMAIN ms
      PROVE  ms[i] \in Member /\ ms[i].path \in Path /\ ms[i].data \in Content
    <2>1. ms[i] \in Member
        BY <1>1
    <2>2. ms[i].path \in InputPath /\ ms[i].data \in Content
        BY <2>1 DEF Member
    <2>. QED  BY <2>1, <2>2, PlacesApart
<1>. HIDE DEF last, S, packed
<1>6. \A i \in DOMAIN packed : /\ packed[i].path \in Path
                               /\ packed[i].data \in Content
    BY <1>1, <1>2, <1>4, <1>5
<1>7. \A i \in DOMAIN packed : entries[i] \in Entry
    BY <1>3, <1>6 DEF Entry
<1>8. entries \in Seq(Entry) /\ Len(entries) = Len(ms) + 1
    BY <1>2, <1>3, <1>7
<1>. QED  BY <1>2, <1>3, <1>4, <1>5, <1>8

\* The packager's own manifest lists what it lists, and not itself.
LEMMA OwnManifest ==
    ASSUME NEW blob, NEW lines, NEW ms, Sealed(blob, lines, ms),
           NEW entries, entries = Received(blob).entries,
           \A i \in DOMAIN ms : ms[i].path # ManifestPath
    PROVE  /\ FilesAt(entries, ManifestPath) = {Len(ms) + 1}
           /\ FirmwareFiles(entries) = DOMAIN ms
           /\ ManifestOf(entries) = Manifest[dumps(lines)]
           /\ ManifestOf(entries).files = lines
           /\ ManifestOf(entries).parses <=>
                \A l \in DOMAIN lines : lines[l].path \notin EscapedPath
           /\ \A l \in DOMAIN lines : lines[l].path = ManifestPath =>
                ~ListingMatches(entries, lines[l])
<1>1. /\ FilesAt(entries, ManifestPath) = {Len(ms) + 1}
      /\ FirmwareFiles(entries) = DOMAIN ms
    <2>1. ASSUME NEW i \in DOMAIN entries
          PROVE  /\ entries[i].type = "FILE"
                 /\ (entries[i].path = ManifestPath) <=> (i = Len(ms) + 1)
                 /\ (i \in DOMAIN ms) <=> (i # Len(ms) + 1)
        <3>1. CASE i \in DOMAIN ms
            <4>1. entries[i].path = ms[i].path /\ entries[i].type = "FILE"
                BY <3>1, Unpacked
            <4>2. DOMAIN ms = 1..Len(ms) /\ Len(ms) \in Nat
                BY Unpacked
            <4>. QED  BY <3>1, <4>1, <4>2
        <3>2. CASE i = Len(ms) + 1
            <4>1. DOMAIN ms = 1..Len(ms) /\ Len(ms) \in Nat
                BY Unpacked
            <4>2. entries[i].path = ManifestPath /\ entries[i].type = "FILE"
                BY <3>2, Unpacked
            <4>. QED  BY <3>2, <4>1, <4>2
        <3>. QED  BY <3>1, <3>2, Unpacked
    <2>2. Len(ms) + 1 \in DOMAIN entries /\ DOMAIN ms \subseteq DOMAIN entries
        BY Unpacked
    <2>. QED  BY <2>1, <2>2 DEF FilesAt, FirmwareFiles
<1>2. find_entry(entries, ManifestPath) = Len(ms) + 1
    BY <1>1, Unpacked, FindEntry
<1>3. ManifestOf(entries) = Manifest[dumps(lines)]
    BY <1>2, Unpacked DEF ManifestOf
<1>4. dumps(lines) \in Content /\ dumps(lines).lists = lines
    BY DEF Sealed, dumps
<1>5. /\ ManifestOf(entries).files = lines
      /\ ManifestOf(entries).parses <=>
           \A l \in DOMAIN lines : lines[l].path \notin EscapedPath
    BY <1>3, <1>4, DumpsAssumption
<1>6. ASSUME NEW l \in DOMAIN lines, lines[l].path = ManifestPath,
             ListingMatches(entries, lines[l])
      PROVE  FALSE
    <2>1. EVP_sha256(dumps(lines)) = lines[l].sha256
        BY <1>2, <1>6, Unpacked DEF ListingMatches
    <2>. QED  BY <1>4, <2>1, ContentAssumption
<1>. QED  BY <1>1, <1>3, <1>5, <1>6

LEMMA SnapshotIsInstalled ==
    ASSUME NEW blob, NEW lines, NEW ms, Sealed(blob, lines, ms),
           Accepted(Received(blob)),
           NEW entries, entries = Received(blob).entries,
           \A i \in DOMAIN entries : i < Len(entries) => entries[i].path # ManifestPath
    PROVE  {<<entries[i].path, entries[i].data>> :
                i \in {j \in FirmwareFiles(entries) : entries[j].path \notin blob.restless}} =
           {<<n, DataAt(blob.snapshot, n)>> : n \in FilesOf(blob.snapshot) \ blob.restless}
<1>. DEFINE dir == blob.snapshot
            but == blob.restless
<1>1. \A i \in DOMAIN ms : ms[i].path # ManifestPath
    BY Unpacked
<1>2. /\ FilesAt(entries, ManifestPath) # {} /\ FirmwareFiles(entries) = DOMAIN ms
      /\ ManifestOf(entries).files = lines
      /\ \A l \in DOMAIN lines : lines[l].path = ManifestPath =>
            ~ListingMatches(entries, lines[l])
    BY <1>1, OwnManifest
<1>3. entries \in Seq(Entry)
    BY Unpacked
<1>4. fota_verify_manifest(entries) = "OK"
    BY DEF Accepted, Validation, Received
<1>5. /\ \A l \in DOMAIN lines : ListingMatches(entries, lines[l])
      /\ Len(lines) = Cardinality(FirmwareFiles(entries))
    BY <1>2, <1>3, <1>4, Verdict
<1>6. DistinctListings(entries)
    <2>1. ManifestPath \notin ListedPaths(entries)
        BY <1>2, <1>5 DEF ListedPaths
    <2>. QED  BY <1>2, <2>1 DEF DistinctListings, Sealed, Behind
<1>7. ExactSet(entries)
    BY <1>2, <1>3, <1>5, <1>6, AcceptedIsExact
<1>8. ASSUME NEW i \in DOMAIN ms, ms[i].path \notin but
      PROVE  /\ ms[i].path \in FilesOf(dir)
             /\ ms[i].data = DataAt(dir, ms[i].path)
    <2>1. dir \in Directory /\ ms[i].path \in InputPath
        BY Unpacked DEF Sealed, Within, Member
    <2>2. CASE MemberIsOf(ms[i], dir)
        BY <1>1, <2>1, <2>2, FileThere DEF MemberIsOf, FilesOf
    <2>3. CASE Steady(lines, dir, ms[i].path)
        <3>1. PICK l \in DOMAIN lines : /\ lines[l].path = entries[i].path
                                        /\ lines[l].sha256 = EVP_sha256(entries[i].data)
            BY <1>2, <1>7 DEF ExactSet, AllVouched
        <3>2. entries[i].path = ms[i].path /\ entries[i].data = ms[i].data
            BY Unpacked
        <3>3. LineIsOf(lines[l], dir)
            BY <2>3, <3>1, <3>2 DEF Steady
        <3>4. EVP_sha256(ms[i].data) = EVP_sha256(DataAt(dir, ms[i].path))
            BY <3>1, <3>2, <3>3 DEF LineIsOf
        <3>. QED  BY <1>1, <2>1, <3>1, <3>2, <3>3, <3>4 DEF LineIsOf, FilesOf, EVP_sha256
    <2>. QED  BY <1>8, <2>2, <2>3 DEF Sealed, Collected, Settled
<1>9. ASSUME NEW n \in FilesOf(dir) \ but
      PROVE  \E i \in DOMAIN ms : ms[i].path = n
    <2>1. n \in InputPath /\ dir[n] # {} /\ n # ManifestPath
        BY DEF FilesOf
    <2>2. CASE Steady(lines, dir, n)
        <3>1. n \in ListedPaths(entries)
            BY <1>2, <2>1, <2>2 DEF Steady, Has, ListedPaths
        <3>2. n \in PresentPaths(entries)
            BY <1>7, <3>1 DEF ExactSet
        <3>. QED  BY <1>2, <3>2, Unpacked DEF PresentPaths
    <2>. QED  BY <2>1, <2>2 DEF Sealed, Collected, Settled, Has
<1>10. \A i \in DOMAIN ms : entries[i].path = ms[i].path /\ entries[i].data = ms[i].data
    BY Unpacked
<1>. HIDE DEF dir, but
<1>11. {<<entries[i].path, entries[i].data>> :
            i \in {j \in DOMAIN ms : entries[j].path \notin but}} =
       {<<n, DataAt(dir, n)>> : n \in FilesOf(dir) \ but}
    BY <1>8, <1>9, <1>10
<1>. QED  BY <1>2, <1>11 DEF dir, but

\* Whatever somebody does to the input directory, the keys or the packager
\* meanwhile: a package a device accepts, if it holds no manifest but the
\* packager's, installs the directory as it was at one instant, all of it but
\* for the paths that were changed more than once while pack() ran.
THEOREM SnapshotDelivered == Spec => []AcceptedIsSnapshot
<1>1. Init => WalkTypeOK /\ WalkInv /\ OutputInv
    BY WalkInitially DEF Init, PackagerInit, OutputInv
<1>2. WalkTypeOK /\ WalkInv /\ OutputInv /\ [Next]_vars => (WalkTypeOK /\ WalkInv /\ OutputInv)'
    BY WalkStep, OutputStep
<1>3. OutputInv => AcceptedIsSnapshot
    <2>1. SUFFICES ASSUME OutputInv, NEW blob \in output, Accepted(Received(blob)),
                          NEW entries, entries = Received(blob).entries,
                          \A i \in DOMAIN entries :
                              i < Len(entries) => entries[i].path # ManifestPath
                   PROVE  {<<entries[i].path, entries[i].data>> :
                               i \in {j \in FirmwareFiles(entries) :
                                         entries[j].path \notin blob.restless}} =
                          {<<n, DataAt(blob.snapshot, n)>> :
                               n \in FilesOf(blob.snapshot) \ blob.restless}
        BY DEF AcceptedIsSnapshot
    <2>2. PICK lines, ms : Sealed(blob, lines, ms)
        BY <2>1 DEF OutputInv
    <2>. QED  BY <2>1, <2>2, SnapshotIsInstalled
<1>. QED  BY <1>1, <1>2, <1>3, PTL DEF Spec

-----------------------------------------------------------------------------
(* A run that ended well, in a directory nobody touched.                   *)

SuccessInv ==
    /\ stage = "device_key" => signer # {}
    /\ stage \in {"list", "manifest", "tarball", "write", "fill"} =>
          signer # {} /\ recipient # {}
    /\ stage # "idle" => code = NotEnded
    /\ code = 0 => /\ stage = "idle" /\ output = {Blob(TRUE)}
                   /\ signer # {} /\ recipient # {}
                   /\ todo = {} /\ Gathered

LEMMA SuccessInitially ==
    ASSUME Init PROVE SuccessInv
BY DEF Init, PackagerInit, SuccessInv, NotEnded

LEMMA SuccessStep ==
    ASSUME WalkInv, SuccessInv, [Next]_vars
    PROVE  SuccessInv'
<1>1. CASE UNCHANGED packagerVars
    <2>1. UNCHANGED <<stage, code, output, signer, recipient, todo, release, members, files,
                      snapshot, input, edited, restless>>
        BY <1>1 DEF packagerVars
    <2>2. (Blob(TRUE) = Blob(TRUE)') /\ (Gathered <=> Gathered')
        BY <2>1 DEF Blob, TheManifest, Gathered
    <2>. QED  BY <2>1, <2>2 DEF SuccessInv
<1>2. ASSUME NEW signing_private, NEW device_public,
             PackagerNext(signing_private, device_public)
      PROVE  SuccessInv'
    <2>1. CASE FillOutput
        <3>1. /\ stage = "fill" /\ stage' = "idle" /\ output' = {Blob(TRUE)}
              /\ UNCHANGED <<signer, recipient, todo, release, members, files, snapshot,
                             input, edited, restless>>
            BY <2>1 DEF FillOutput, Ends, Keys, Walk
        <3>2. Gathered /\ todo = {} /\ signer # {} /\ recipient # {}
            BY <3>1 DEF WalkInv, SuccessInv
        <3>3. (Blob(TRUE)' = Blob(TRUE)) /\ Gathered'
            BY <3>1, <3>2 DEF Blob, TheManifest, Gathered
        <3>. QED  BY <3>1, <3>2, <3>3 DEF SuccessInv
    <2>2. ASSUME \/ StartPack \/ CheckKeyFiles(signing_private, device_public)
                 \/ LoadSigningKey(signing_private) \/ LoadDeviceKey(device_public)
          PROVE  SuccessInv'
        <3>1. code' # 0 /\ (stage' # "idle" => code' = NotEnded)
            BY <2>2 DEF StartPack, CheckKeyFiles, LoadSigningKey, LoadDeviceKey, Ends, SuccessInv, NotEnded
        <3>2. /\ stage' = "device_key" => signer' # {}
              /\ stage' \in {"list", "manifest", "tarball", "write", "fill"} =>
                    signer' # {} /\ recipient' # {}
            BY <2>2 DEF StartPack, CheckKeyFiles, LoadSigningKey, LoadDeviceKey, Ends, SuccessInv
        <3>. QED  BY <3>1, <3>2 DEF SuccessInv
    <2>3. ASSUME Edit \/ ListInput \/ IsFile \/ HashFile \/ ListAgain \/ AddFile \/ Seal
                   \/ OpenOutput \/ AbortPack
          PROVE  SuccessInv'
        <3>1. /\ stage # "idle" /\ UNCHANGED <<signer, recipient>>
              /\ \/ code' = code /\ stage' # "idle"
                 \/ code' \in {NotEnded, 1} /\ stage' = "idle"
            BY <2>3 DEF Edit, ListInput, IsFile, HashFile, ListAgain, AddFile, Visit, Seal,
                        OpenOutput, AbortPack, Ends, Keys
        <3>2. \/ stage' = stage /\ stage \notin {"idle"}
              \/ stage' = "idle"
              \/ stage \in {"list", "manifest", "tarball", "write"} /\ stage' # "device_key"
            BY <2>3, <3>1 DEF Edit, ListInput, IsFile, HashFile, ListAgain, AddFile, Visit, Seal,
                        OpenOutput, AbortPack, Ends
        <3>3. code' # 0
            BY <3>1 DEF SuccessInv, NotEnded
        <3>. QED  BY <3>1, <3>2, <3>3 DEF SuccessInv
    <2>. QED  BY <1>2, <2>1, <2>2, <2>3 DEF PackagerNext
<1>. QED  BY <1>1, <1>2 DEF Next, vars, CopyKey

\* The keys fit: of one run of the key generator there is one pair of each kind.
LEMMA KeysOfOneRunFit ==
    ASSUME KeyInv, NEW blob \in output, blob.signer # {}, blob.recipient # {},
           KeysOfOneRun(blob), blob.whole
    PROVE  Verifies(blob) /\ Unwraps(blob)
<1>1. PICK run \in 1..keygenRuns :
            /\ \A key \in blob.signer \cup blob.recipient : key.run = run
            /\ \A name \in Provisioned : deployed[name].run = run
    BY DEF KeysOfOneRun
<1>2. PICK s \in blob.signer, r \in blob.recipient : TRUE
    OBVIOUS
<1>3. /\ s \in SigningKeys /\ deployed["signing_public"] \in SigningKeys
      /\ r \in DeviceKeys /\ deployed["device_private"] \in DeviceKeys
    BY DEF SigningKeys, DeviceKeys
<1>4. /\ s.run = deployed["signing_public"].run
      /\ r.run = deployed["device_private"].run
    BY <1>1 DEF Provisioned
<1>5. /\ s.pair = deployed["signing_public"].pair
      /\ r.pair = deployed["device_private"].pair
    BY <1>3, <1>4 DEF KeyInv, Ring
<1>. QED  BY <1>5 DEF Verifies, Unwraps

\* A tarball that is a faithful copy of a directory.
Copies(ms, dir) ==
    /\ \A i \in DOMAIN ms : MemberIsOf(ms[i], dir)
    /\ \A n \in InputPath : dir[n] # {} => Has(ms, n)

\* Nothing is unsupported in a copy of a directory of plain files.
LEMMA PlainFiles ==
    ASSUME NEW blob, NEW lines, NEW ms, Sealed(blob, lines, ms),
           Copies(ms, blob.snapshot)
    PROVE  (\A i \in DOMAIN blob.members : ~Unsupported(blob.members[i])) <=>
           \A n \in InputPath : \A f \in blob.snapshot[n] :
               f.kind = "regular" /\ n \notin LongPath
<1>. DEFINE dir == blob.snapshot
            packed == blob.members
            last == ManifestMember(lines)
            S == Member \cup {last}
            Plain(m) == m.kind = "regular" /\ m.path \notin LongPath
<1>1. /\ ms \in Seq(Member) /\ ms \in Seq(S) /\ last \in S /\ packed = Append(ms, last)
    BY DEF Sealed
<1>2. /\ DOMAIN packed = 1..(Len(ms) + 1) /\ Len(ms) \in Nat
      /\ packed[Len(ms) + 1] = last
      /\ \A i \in DOMAIN ms : i \in DOMAIN packed /\ packed[i] = ms[i]
      /\ \A i \in DOMAIN packed : i \in DOMAIN ms \/ i = Len(ms) + 1
    <2>. HIDE DEF last, S
    <2>. QED  BY <1>1, Appended
<1>3. last.kind = "regular" /\ last.path = ManifestPath
    BY DEF ManifestMember
<1>4. \A i \in DOMAIN ms : ms[i] \in Member
    BY <1>1
<1>5. \A m : m.kind \in {"regular", "hardlink", "symlink"} => (Unsupported(m) <=> ~Plain(m))
    BY DEF Unsupported, TB!Typeflag
<1>6. Plain(last)
    BY <1>3, ManifestPathAssumption
<1>. HIDE DEF last, S, packed, Plain
<1>7. (\A i \in DOMAIN packed : ~Unsupported(packed[i])) <=> \A i \in DOMAIN ms : Plain(ms[i])
    <2>1. \A i \in DOMAIN ms : Unsupported(ms[i]) <=> ~Plain(ms[i])
        BY <1>4, <1>5 DEF Member
    <2>2. ~Unsupported(last)
        BY <1>3, <1>5, <1>6
    <2>. QED  BY <1>2, <2>1, <2>2
<1>8. ASSUME NEW i \in DOMAIN ms, \A n \in InputPath : \A f \in dir[n] :
                                      f.kind = "regular" /\ n \notin LongPath
      PROVE  Plain(ms[i])
    <2>1. ms[i].path \in InputPath
        BY <1>4 DEF Member
    <2>. QED  BY <1>8, <2>1 DEF Copies, MemberIsOf, Plain
<1>9. ASSUME NEW n \in InputPath, NEW f \in dir[n], \A i \in DOMAIN ms : Plain(ms[i])
      PROVE  f.kind = "regular" /\ n \notin LongPath
    <2>1. PICK i \in DOMAIN ms : ms[i].path = n
        BY DEF Copies, Has
    <2>2. PICK g \in dir[n] : ms[i].kind = g.kind
        BY <2>1 DEF Copies, MemberIsOf
    <2>3. dir \in Directory
        BY DEF Sealed, Within
    <2>4. g = f
        BY <2>3, FileThere
    <2>. QED  BY <1>9, <2>1, <2>2, <2>4 DEF Plain
<1>. QED  BY <1>7, <1>8, <1>9 DEF packed

\* Of a faithful copy every firmware file has one member, and its data.
LEMMA CopiedFiles ==
    ASSUME NEW blob, NEW lines, NEW ms, Sealed(blob, lines, ms),
           NEW dir, dir = blob.snapshot, Copies(ms, dir),
           NEW entries, entries = Received(blob).entries
    PROVE  /\ \A i \in FirmwareFiles(entries) :
                 /\ entries[i].path \in FilesOf(dir)
                 /\ entries[i].data = DataAt(dir, entries[i].path)
           /\ \A n \in FilesOf(dir) : \E i \in FirmwareFiles(entries) : entries[i].path = n
           /\ PresentPaths(entries) = FilesOf(dir)
           /\ DistinctFiles(entries)
<1>1. FirmwareFiles(entries) \subseteq DOMAIN ms
    BY Unpacked DEF FirmwareFiles
<1>2. ASSUME NEW i \in DOMAIN ms
      PROVE  /\ ms[i].path \in InputPath /\ dir[ms[i].path] # {}
             /\ ms[i].data = DataAt(dir, ms[i].path)
             /\ i \in DOMAIN entries /\ entries[i].type = "FILE"
             /\ entries[i].path = ms[i].path /\ entries[i].data = ms[i].data
    <2>1. ms[i] \in Member /\ entries[i].path = ms[i].path /\ entries[i].data = ms[i].data
          /\ i \in DOMAIN entries /\ entries[i].type = "FILE"
        BY Unpacked
    <2>2. dir \in Directory /\ ms[i].path \in InputPath
        BY <2>1 DEF Sealed, Within, Member
    <2>3. PICK f \in dir[ms[i].path] : ms[i].data = f.data
        BY DEF Copies, MemberIsOf
    <2>. QED  BY <2>1, <2>2, <2>3, FileThere
<1>3. ASSUME NEW i \in FirmwareFiles(entries)
      PROVE  /\ entries[i].path \in FilesOf(dir)
             /\ entries[i].data = DataAt(dir, entries[i].path)
    <2>1. entries[i].path # ManifestPath
        BY DEF FirmwareFiles
    <2>. QED  BY <1>1, <1>2, <2>1 DEF FilesOf
<1>4. ASSUME NEW n \in FilesOf(dir)
      PROVE  \E i \in FirmwareFiles(entries) : entries[i].path = n
    <2>1. PICK i \in DOMAIN ms : ms[i].path = n
        BY DEF Copies, Has, FilesOf
    <2>2. n # ManifestPath
        BY DEF FilesOf
    <2>. QED  BY <1>2, <2>1, <2>2 DEF FirmwareFiles
<1>5. DistinctFiles(entries)
    BY <1>1, <1>2 DEF DistinctFiles, Sealed, Behind
<1>6. PresentPaths(entries) = FilesOf(dir)
    BY <1>3, <1>4 DEF PresentPaths
<1>. QED  BY <1>3, <1>4, <1>5, <1>6

\* Without a manifest.json of the directory's own the packager's counts, and
\* it is accepted if the updater can read it.
LEMMA OwnManifestAccepted ==
    ASSUME NEW blob, NEW lines, NEW ms, Sealed(blob, lines, ms),
           NEW dir, dir = blob.snapshot, Copies(ms, dir),
           \A n \in InputPath : Steady(lines, dir, n),
           dir[ManifestPath] = {},
           NEW entries, entries = Received(blob).entries
    PROVE  fota_verify_manifest(entries) = "OK" <=> FilesOf(dir) \cap EscapedPath = {}
<1>1. \A i \in DOMAIN ms : ms[i].path # ManifestPath
    BY DEF Copies, MemberIsOf
<1>2. /\ FilesAt(entries, ManifestPath) # {} /\ ManifestOf(entries).files = lines
      /\ ManifestOf(entries).parses <=> \A l \in DOMAIN lines : lines[l].path \notin EscapedPath
    BY <1>1, OwnManifest
<1>3. entries \in Seq(Entry)
    BY Unpacked
<1>4. ASSUME NEW l \in DOMAIN lines
      PROVE  /\ lines[l].path \in FilesOf(dir)
             /\ lines[l].sha256 = EVP_sha256(DataAt(dir, lines[l].path))
    <2>1. lines[l].path \in InputPath
        BY PlacesApart DEF Sealed, Behind
    <2>. QED  BY <2>1 DEF Steady, LineIsOf, FilesOf
<1>5. ASSUME NEW n \in FilesOf(dir)
      PROVE  \E l \in DOMAIN lines : lines[l].path = n
    BY DEF FilesOf, Steady, Has
<1>6. ListedPaths(entries) = FilesOf(dir)
    BY <1>2, <1>4, <1>5 DEF ListedPaths
<1>7. AllVouched(entries)
    <2>1. SUFFICES ASSUME NEW i \in FirmwareFiles(entries)
                   PROVE  \E l \in DOMAIN lines :
                              /\ lines[l].path = entries[i].path
                              /\ lines[l].sha256 = EVP_sha256(entries[i].data)
        BY <1>2 DEF AllVouched
    <2>2. /\ entries[i].path \in FilesOf(dir)
          /\ entries[i].data = DataAt(dir, entries[i].path)
        BY CopiedFiles
    <2>. QED  BY <1>4, <1>5, <2>2
<1>8. ExactSet(entries)
    BY <1>6, <1>7, CopiedFiles DEF ExactSet
<1>9. DistinctListings(entries)
    <2>1. ManifestPath \notin ListedPaths(entries)
        BY <1>6 DEF FilesOf
    <2>. QED  BY <1>2, <2>1 DEF DistinctListings, Sealed, Behind
<1>10. fota_verify_manifest(entries) = "OK" <=> ManifestOf(entries).parses
    BY <1>2, <1>3, <1>8, <1>9, Verdict, ExactIsAccepted
<1>11. (\A l \in DOMAIN lines : lines[l].path \notin EscapedPath) <=>
            FilesOf(dir) \cap EscapedPath = {}
    BY <1>4, <1>5
<1>. QED  BY <1>2, <1>10, <1>11

\* One that lies in the directory comes first and counts: the package is
\* accepted if that one lists the other files.
LEMMA ForeignManifestAccepted ==
    ASSUME NEW blob, NEW lines, NEW ms, Sealed(blob, lines, ms), CleanManifests,
           NEW dir, dir = blob.snapshot, Copies(ms, dir),
           dir[ManifestPath] # {},
           NEW entries, entries = Received(blob).entries,
           NEW own, own = Manifest[DataAt(dir, ManifestPath)]
    PROVE  fota_verify_manifest(entries) = "OK" <=>
               /\ own.parses
               /\ {own.files[i] : i \in DOMAIN own.files} =
                    {[path |-> n, sha256 |-> EVP_sha256(DataAt(dir, n))] : n \in FilesOf(dir)}
<1>1. PICK k \in DOMAIN ms : ms[k].path = ManifestPath
    BY ManifestPathAssumption DEF Copies, Has
<1>2. ms[k].data = DataAt(dir, ManifestPath) /\ ms[k].data \in MayHold(ManifestPath)
    <2>1. PICK f \in dir[ManifestPath] : ms[k].data = f.data
        BY <1>1 DEF Copies, MemberIsOf
    <2>2. ManifestPath \in InputPath /\ dir \in Directory /\ f.data \in MayHold(ManifestPath)
        BY ManifestPathAssumption DEF Sealed, Within
    <2>. QED  BY <2>1, <2>2, FileThere
<1>3. /\ k \in FilesAt(entries, ManifestPath)
      /\ \A i \in FilesAt(entries, ManifestPath) : i = k \/ i = Len(ms) + 1
      /\ Len(ms) \in Nat /\ k \in 1..Len(ms)
      /\ entries[k].data = ms[k].data /\ entries \in Seq(Entry)
    <2>1. \A i \in DOMAIN ms : ms[i].path = ManifestPath => i = k
        BY <1>1 DEF Sealed, Behind
    <2>2. /\ \A i \in DOMAIN ms : i \in DOMAIN entries /\ entries[i].path = ms[i].path
                                    /\ entries[i].type = "FILE" /\ entries[i].data = ms[i].data
          /\ \A i \in DOMAIN entries : i \in DOMAIN ms \/ i = Len(ms) + 1
          /\ DOMAIN ms = 1..Len(ms) /\ Len(ms) \in Nat /\ entries \in Seq(Entry)
        BY Unpacked
    <2>. QED  BY <1>1, <2>1, <2>2 DEF FilesAt
<1>4. find_entry(entries, ManifestPath) = k
    <2>1. \A i \in FilesAt(entries, ManifestPath) : k <= i
        BY <1>3
    <2>2. \A i \in FilesAt(entries, ManifestPath) :
              (\A j \in FilesAt(entries, ManifestPath) : i <= j) => i = k
        BY <1>3
    <2>. QED  BY <1>3, <2>1, <2>2 DEF find_entry
<1>5. ManifestOf(entries) = own
    BY <1>2, <1>3, <1>4 DEF ManifestOf
<1>6. own.files \in Seq(Listing) /\ FilesAt(entries, ManifestPath) # {}
    BY <1>3, <1>5, ListingsAreSequence
<1>7. /\ \A i, j \in DOMAIN own.files : own.files[i].path = own.files[j].path => i = j
      /\ \A i \in DOMAIN own.files : own.files[i].path # ManifestPath
    BY <1>2 DEF CleanManifests
<1>8. DistinctListings(entries)
    BY <1>5, <1>7 DEF DistinctListings, ListedPaths
<1>. DEFINE line(n) == [path |-> n, sha256 |-> EVP_sha256(DataAt(dir, n))]
            Right == {own.files[i] : i \in DOMAIN own.files} = {line(n) : n \in FilesOf(dir)}
<1>9. \A l \in DOMAIN own.files : own.files[l] =
            [path |-> own.files[l].path, sha256 |-> own.files[l].sha256]
    <2>1. \A l \in DOMAIN own.files : own.files[l] \in Listing
        BY <1>6
    <2>. QED  BY <2>1 DEF Listing
<1>10. ASSUME ExactSet(entries)
       PROVE  Right
    <2>1. ASSUME NEW n \in FilesOf(dir)
          PROVE  \E l \in DOMAIN own.files : own.files[l] = line(n)
        <3>1. PICK i \in FirmwareFiles(entries) : entries[i].path = n
            BY CopiedFiles
        <3>2. entries[i].data = DataAt(dir, n)
            BY <3>1, CopiedFiles
        <3>3. PICK l \in DOMAIN own.files : /\ own.files[l].path = entries[i].path
                                            /\ own.files[l].sha256 = EVP_sha256(entries[i].data)
            BY <1>5, <1>10 DEF ExactSet, AllVouched
        <3>. QED  BY <1>9, <3>1, <3>2, <3>3
    <2>2. ASSUME NEW l \in DOMAIN own.files
          PROVE  \E n \in FilesOf(dir) : own.files[l] = line(n)
        <3>1. own.files[l].path \in FilesOf(dir)
            <4>1. own.files[l].path \in ListedPaths(entries)
                BY <1>5 DEF ListedPaths
            <4>. QED  BY <1>10, <4>1, CopiedFiles DEF ExactSet
        <3>2. PICK m \in DOMAIN own.files : own.files[m] = line(own.files[l].path)
            BY <2>1, <3>1
        <3>3. own.files[m].path = own.files[l].path
            BY <3>2
        <3>. QED  BY <1>7, <3>1, <3>2, <3>3
    <2>. HIDE DEF line
    <2>. QED  BY <2>1, <2>2
<1>11. ASSUME Right
       PROVE  ExactSet(entries)
    <2>1. \A n \in FilesOf(dir) : \E l \in DOMAIN own.files : own.files[l] = line(n)
        BY <1>11
    <2>2. \A l \in DOMAIN own.files : \E n \in FilesOf(dir) : own.files[l] = line(n)
        BY <1>11
    <2>3. \A n : line(n).path = n /\ line(n).sha256 = EVP_sha256(DataAt(dir, n))
        OBVIOUS
    <2>. HIDE DEF line, Right
    <2>4. ListedPaths(entries) = FilesOf(dir)
        BY <1>5, <2>1, <2>2, <2>3 DEF ListedPaths
    <2>5. AllVouched(entries)
        <3>1. SUFFICES ASSUME NEW i \in FirmwareFiles(entries)
                       PROVE  \E l \in DOMAIN own.files :
                                  /\ own.files[l].path = entries[i].path
                                  /\ own.files[l].sha256 = EVP_sha256(entries[i].data)
            BY <1>5 DEF AllVouched
        <3>2. /\ entries[i].path \in FilesOf(dir)
              /\ entries[i].data = DataAt(dir, entries[i].path)
            BY CopiedFiles
        <3>. QED  BY <2>1, <2>3, <3>2
    <2>. QED  BY <2>4, <2>5, CopiedFiles DEF ExactSet
<1>12. fota_verify_manifest(entries) = "OK" <=> own.parses /\ ExactSet(entries)
    BY <1>3, <1>5, <1>6, <1>8, Verdict, ExactIsAccepted, AcceptedIsExact
<1>. QED  BY <1>10, <1>11, <1>12

LEMMA CopyAccepted ==
    ASSUME KeyInv, WalkTypeOK, SuccessInv, CleanManifests,
           code = 0, edited = {}, NEW blob \in output, KeysOfOneRun(blob)
    PROVE  Accepted(Received(blob)) <=>
               /\ Deliverable(input)
               /\ blob.release.platform = PlatformTag
               /\ blob.release.versioned
<1>1. /\ blob = Blob(TRUE) /\ signer # {} /\ recipient # {} /\ todo = {} /\ Gathered
    BY DEF SuccessInv
<1>2. /\ blob.whole = TRUE /\ blob.signer = signer /\ blob.recipient = recipient
      /\ blob.snapshot = snapshot /\ blob.members = Append(members, ManifestMember(files))
    BY <1>1 DEF Blob, TheManifest, ManifestMember
<1>3. input = snapshot /\ \A n \in InputPath : Steady(files, snapshot, n)
    <2>1. \A n \in InputPath : input[n] = snapshot[n] /\ Steady(files, snapshot, n)
        BY <1>1 DEF Gathered
    <2>. QED  BY <2>1 DEF WalkTypeOK, Within, Directory
<1>4. Copies(members, snapshot)
    <2>1. \A n \in InputPath : \E p \in Place \ todo : PathOrder[p] = n
        BY <1>1, PlacesApart
    <2>. QED  BY <1>1, <2>1 DEF Gathered, Copies
<1>5. Sealed(blob, files, members)
    BY <1>1, <1>2, <1>4 DEF Sealed, Gathered, WalkTypeOK, Collected, Copies
<1>6. Verifies(blob) /\ Unwraps(blob)
    BY <1>1, <1>2, KeysOfOneRunFit
<1>. DEFINE k == Received(blob)
<1>7. k = Received(blob)
    OBVIOUS
<1>. HIDE DEF k
<1>8. k.platform = blob.release.platform /\ k.unpack \in {"OK", "UNSUPPORTED_ENTRY"}
    BY <1>7 DEF Received
<1>9. k.header /\ k.whole /\ k.signed /\ k.unwraps /\ DecryptOk(k)
    <2>1. k.header /\ k.whole /\ k.decrypts /\ k.signed /\ k.unwraps
        BY <1>2, <1>6, <1>7, Zenon DEF Received
    <2>2. k.len = 16
        BY <1>7 DEF Received
    <2>3. INT32_MAX \in Int /\ 16 <= INT32_MAX
        BY SMT DEF INT32_MAX
    <2>4. DecryptOk(k)
        BY <2>1, <2>2, <2>3, SMT DEF DecryptOk
    <2>. QED  BY <2>1, <2>4
<1>15. Accepted(k) <=> /\ blob.release.platform = PlatformTag
                      /\ blob.release.versioned
                      /\ Validation(k) = "OK"
    <2>1. k.versioned = blob.release.versioned
        BY <1>7 DEF Received
    <2>. QED  BY <1>8, <1>9, <2>1 DEF Accepted
<1>10. Validation(k) = "OK" <=>
          /\ \A i \in DOMAIN blob.members : ~Unsupported(blob.members[i])
          /\ fota_verify_manifest(k.entries) = "OK"
    <2>1. k.unpack = "OK" <=> \A i \in DOMAIN blob.members : ~Unsupported(blob.members[i])
        BY <1>7 DEF Received
    <2>. QED  BY <2>1 DEF Validation
<1>11. (\A i \in DOMAIN blob.members : ~Unsupported(blob.members[i])) <=>
           \A n \in InputPath : \A f \in input[n] : f.kind = "regular" /\ n \notin LongPath
    BY <1>2, <1>3, <1>4, <1>5, PlainFiles
<1>12. k.entries = Received(blob).entries
    BY <1>7
<1>13. fota_verify_manifest(k.entries) = "OK" <=>
          IF input[ManifestPath] = {}
          THEN FilesOf(input) \cap EscapedPath = {}
          ELSE /\ Manifest[DataAt(input, ManifestPath)].parses
               /\ {Manifest[DataAt(input, ManifestPath)].files[i] :
                      i \in DOMAIN Manifest[DataAt(input, ManifestPath)].files} =
                  {[path |-> n, sha256 |-> EVP_sha256(DataAt(input, n))] : n \in FilesOf(input)}
    <2>1. CASE input[ManifestPath] = {}
        BY <1>2, <1>3, <1>4, <1>5, <1>12, <2>1, OwnManifestAccepted
    <2>2. CASE input[ManifestPath] # {}
        <3>. DEFINE own == Manifest[DataAt(input, ManifestPath)]
        <3>1. own = Manifest[DataAt(input, ManifestPath)]
            OBVIOUS
        <3>. HIDE DEF own
        <3>2. input = blob.snapshot /\ Copies(members, input)
            BY <1>2, <1>3, <1>4
        <3>3. fota_verify_manifest(k.entries) = "OK" <=>
                  /\ own.parses
                  /\ {own.files[i] : i \in DOMAIN own.files} =
                       {[path |-> n, sha256 |-> EVP_sha256(DataAt(input, n))] :
                            n \in FilesOf(input)}
            BY <1>5, <1>12, <2>2, <3>1, <3>2, ForeignManifestAccepted, SMTT(20)
        <3>. QED  BY <2>2, <3>1, <3>3
    <2>. QED  BY <2>1, <2>2
<1>14. Accepted(k) <=> /\ Deliverable(input)
                       /\ blob.release.platform = PlatformTag
                       /\ blob.release.versioned
    BY <1>15, <1>10, <1>11, <1>13 DEF Deliverable
<1>. QED  BY <1>7, <1>14

\* A package that was finished while nobody touched the directory is
\* accepted, by a device with keys of the same run of the key generator,
\* exactly if the directory is one that can be delivered and the arguments
\* name the device's platform and a version.
THEOREM PackedAccepted ==
    ASSUME CleanManifests
    PROVE  Spec => []PackedIsAccepted
<1>. DEFINE Inv == /\ KeygenTypeOK /\ KeyFileInv /\ KeyInv
                   /\ WalkTypeOK /\ WalkInv /\ SuccessInv
<1>1. Init => Inv
    BY KeygenInitially, KeysInitially, WalkInitially, SuccessInitially
<1>2. Inv /\ [Next]_vars => Inv'
    BY KeygenStep, KeyStep, WalkStep, SuccessStep
<1>3. Inv => PackedIsAccepted
    BY CopyAccepted DEF PackedIsAccepted
<1>. QED  BY <1>1, <1>2, <1>3, PTL DEF Spec

=============================================================================
