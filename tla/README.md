# fota-secure in TLA+

fota-secure packs firmware into one signed and encrypted file and installs it
on a device. This directory specifies the part of it that decides what ends up
on the device, checks it with TLC on small instances, and proves the main
results with TLAPS for every value of the constants.

Paths below are relative to the repository.

## 1. Inventory

| part | source | state it keeps | operations | hard because |
|---|---|---|---|---|
| updater | `consumer/src/main.c` | none of its own between runs | one run: check, verify, decrypt, install, record | a dozen early returns in an order that matters; killed or failing anywhere; two runs at once |
| write loop | `consumer/src/installer.c` 661-765 | the install directory | mkdir of parents, `fopen "wb"`, `fwrite`, `fclose` per file, in place | a run that ends halfway leaves two releases mixed |
| version file | `consumer/src/version.c` | the version file, the hash of the downgrade secret | parse, compare, read, write, downgrade check | rewritten in place; "unreadable" means 0.0.0.0; read early, written late |
| manifest check | `consumer/src/installer.c` 554-657 | none | tarball and manifest must agree | decided by comparing two counts |
| manifest.json parser | `consumer/src/installer.c` 330-542 | none | finds `"files"`, reads path/sha256 pairs | a hand-written parser |
| tar parser | `consumer/src/installer.c` 100-328 | none | entries of a ustar archive, path safety | octal sizes, rounding, bounds |
| gunzip | `consumer/src/installer.c` 17-98 | none | inflate into a growing buffer with a cap | the boundary at the cap, termination |
| header | `consumer/src/header.c` | none | 51 bytes at fixed offsets, then sections of variable length | must agree with the packager |
| cryptography | `consumer/src/fcrypto.c` | key files | verify, unwrap, decrypt | order of the three |
| packager | `packager/fota_secure/` | input directory, output file | manifest, tar, encrypt, sign, write | walks the directory twice; interrupted writes |
| key generator | `keygen/generate_keys.py` | four key files | two key pairs | interrupted or repeated runs |

How they interact: the packager writes a package; it reaches a device by any
means; `main` reads all of it into memory, then calls `header.c`, `version.c`,
`fcrypto.c` and `installer.c` in turn. Nothing calls back. Runs of the updater
share the install directory and the version file, and nothing else; there is no
lock, no temporary file, no rename and no fsync.

What makes each part correct:

- updater: only a package that passes every check changes anything on the
  device; an exit code means what `docs/FORMAT_SPEC.md` says; a run always ends;
- version file: the recorded version goes down only with the secret; an
  interrupted install is let through again; a finished one is not repeated;
- write loop: success means that all the listed files are there;
- manifest check: accepted means that files and manifest lines are the same set;
- parsers: no read outside the buffer, the same bytes always the same entries,
  what the packager writes is accepted;
- packager: every package it writes is accepted by a device with the right keys,
  or it reports an error;
- key generator: the private and public key it leaves belong together.

`PROJECT.json` lists the hazards at their lines.

## 2. Modules

| module | models | states what |
|---|---|---|
| `FotaDigest` | SHA-256 of libcrypto (external) | equal digests, equal data |
| `FotaVersion` | `version.c` | order on versions, what a version file reads as, short writes, the downgrade decision |
| `FotaInstaller` | `fota_verify_manifest` as an operator | tar entries, manifest lines, the verdict, what acceptance should mean (`ExactSet`) |
| `FotaPackage` | the checks of `main`, without their order | what a package is to the updater, and which packages are accepted |
| `ManifestCheck` | the loop of `fota_verify_manifest` | that the loop computes the operator's verdict, and what a verdict says |
| `Consumer` | `main` with write loop and version file | runs of the updater on one device |
| `UpdateContract` | | what the updater promises of a device, without saying how |
| `DeviceContract` | | `Consumer` as an implementation of `UpdateContract` |
| `PowerLoss` | `Consumer` with a medium behind the page cache | what a power cut leaves |
| `Gunzip` | `fota_gunzip` with zlib's `inflate` (external) | the buffer and its cap, why a stream is refused, that the loop ends |
| `TarParse` | `fota_tar_parse` | which bytes are an entry's, that nothing is skipped, paths |
| `Tarball` | what `tarfile` writes for `stage_and_compress` | the blocks of a packed archive |
| `PackedTar` | `TarParse` on what `Tarball` writes | that the device reads what was packed |
| `Numeral` | | the number that digits stand for, in a base |
| `TarField` | `parse_octal_field` | which fields hold a number, and which number |
| `VersionText` | `fota_version_parse`, the text of the version file | the texts that are versions |
| `ManifestJson` | `parse_manifest_files`, and `json.dumps` (external) | which manifests the device can read |
| `Blob` | `header.c`, the split in `main`, `blob.py` | where the sections of a package are, and what is signed |
| `Parsers` | the four modules above, one call per behaviour | that every answer is what the bytes mean |
| `Keygen` | `generate_keys.py` | |
| `Packager` | `cli.py`, `manifest.py`, `tarball.py` over a directory that changes | |
| `Delivery` | `Keygen` and `Packager` side by side, and a device | which packages a device accepts, and what it installs |
| `MCConsumer`, `MCManifest`, `MCGunzip`, `MCTarParse`, `MCParsers`, `MCPowerLoss`, `MCDelivery` | values of the constants for TLC | |
| `SequenceLemmas` | | induction on numbers, what a recursive function computes, where the parts of a joined sequence are |
| `FotaPackageProofs`, `ManifestCheckProofs`, `GunzipProofs`, `ParsersProofs`, `DeliveryProofs` | | theorems about the modules they are named for, and what those extend |
| `TarParseProofs` | | theorems about `TarParse` on any buffer, and on a packed one (`PackedTar`) |
| `ConsumerProofs` | | theorems about `Consumer` for runs that overlap, the downgrade rule, and for one run at a time `Consumer`, `DeviceContract` and `PowerLoss` |

How they compose: `FotaPackage` extends `FotaVersion` and `FotaInstaller`;
`Consumer` and `Packager` extend `FotaPackage`. `PowerLoss` extends `Consumer`
by more variables. `PackedTar` joins `TarParse` and `Tarball`. `DeviceContract`
instantiates `UpdateContract` on the state of `Consumer`. `Delivery` joins `Keygen` and `Packager`. `FotaInstaller` takes the
verdict of the manifest as an operator, which `ManifestCheck` justifies;
`FotaVersion` and `FotaInstaller` take the meaning of a version file and of a
manifest as given, which `Parsers` justifies.

Operators called `..._Something` and commented "Mutant" are variants of the
operator after them with a plausible bug. No specification uses them; they are
there to see that a property notices the bug.

### Consumer

`Proc` is a set of invocation slots: each runs one package after another, so one
slot is a device that is updated again and again, and two slots are runs that
overlap. `pc[p]` is the point of `main` that `p` has reached:

| `pc` | action | code |
|---|---|---|
| idle | `Start` | arguments, `read_all` (main.c 110-146) |
| header | `CheckHeader` | header, platform tag, version text (148-166) |
| version | `CheckVersion` | installed version, secret hash, downgrade check (168-198) |
| space | `CheckSpace` | section bounds, statvfs (200-224) |
| verify | `VerifySignature` | 226-254 |
| decrypt | `Decrypt` | unwrap and decrypt (256-288) |
| extract | `Validate` | gunzip, tar, manifest (installer.c 712-740) |
| write | `SkipEntry`, `OpenFile`, `EndLoop` | loop, mkdir, fopen (742-753, 661-701) |
| fill | `FillFile` | fwrite, fclose (702-708) |
| record | `OpenVersionFile` | fopen of the version file (version.c 144) |
| stamp | `CloseVersionFile` | fwrite, fclose (148-153) |
| hook | `Finish` | post-install hook, exit 0 (main.c 307-308) |

A step ends where the process touches something another process, or the next
run, can see. Steps that only compute are joined.

A package is a record of outcomes: whether its header parses, its signature
verifies, and so on, and the tar entries it unpacks to. The checks themselves
are thus abstract; their order, their exit codes and what each of them protects
are not. `tree` maps every path to nothing, a directory, a whole file, or `torn`:
opened for writing and not completed. `versionFile` is what
`fota_version_read_installed` can make of the file: absent, blank, malformed, or
a version. `ledger` is a history variable: the version that the last successful
call of `fota_version_write_installed` recorded.

When two processes have one file open, `clobbered` says so: what is then left may
be the data of the one that closes, a mixture, or what was there when it closed.

What goes wrong is a parameter. A behaviour has a `setting`, fixed by `Init`:
`Offers[setting]` are the packages handed over, `KillAt[setting]` the points at
which a run may be killed, `FailAt[setting]` those at which a call may fail. A
property that depends on what goes wrong names it: `VersionFileSafe`,
`Undisturbed`. A failing write may leave any prefix of the version text
(`ShortWrites`): a text cut in its last component reads as a smaller version, one
cut earlier does not parse. A version file that cannot be opened reads as
0.0.0.0, as the code has it.

### UpdateContract and DeviceContract

The contract knows a device with a recorded version, a set of whole files, and at
most one update in progress (`target`). An update begins if it is newer than what
is recorded, or the operator gives the secret; it replaces files of its own image
and no others; it is abandoned at any point, or committed when its image is
complete, and only then is its version recorded.

`DeviceContract` maps `Consumer` to it, for one slot: `target` is the package of a
run between `write` and `stamp`, `files` are the whole files of `tree` (a torn file
and a directory count as no file), `recorded` is `ledger`, and the image of a
package is what its manifest vouches for. `protected` is `VersionFileSafe`: in a
setting where the version file can be spoiled the contract does not restrict what
may begin, but all the rest still holds. Every step of `main` before `write` is
`Give` or a stutter, but for the last, which is `Begin`; each mkdir, fopen and
fclose of the write loop is `Replace`, a stutter or, if it fails, `Abandon`, and
so is a kill; a `CloseVersionFile` that succeeds is `Commit`.

### PowerLoss

Neither `write_entry_file` (installer.c 703-708) nor
`fota_version_write_installed` (version.c 144-153) calls `fsync`, so `tree` and
`versionFile` of `Consumer` are what the page cache says. `disk` and `diskVersion`
are what the medium holds. `WriteBackFile` brings one path there, perhaps in part;
`WriteBackVersion` the version file, perhaps its length before its text; in any
order, since the code asks for none. A `PowerCut` ends every run and leaves what the
medium holds.

### ManifestCheck

One step per line of the manifest. `Tarball` is the set of tarballs it is run on.
`matched` is the array that the code fills and does not read; `matched_count` is
what it decides by.

### Gunzip

`capacity` and `total` are the code's. One iteration of the loop is one step that
finds the buffer full (`Grow`) or one call of `inflate`. A stream is the number of
bytes in it and what follows them: its end, nothing, or damage. `inflate` may do
whatever `zlib.h` allows: in particular it may report the end of the stream in the
call that fills the buffer, or not before the next.

### TarParse and Tarball

One header per step. The buffer is a sequence of 512 byte blocks and perhaps a
part of another. A block is what it says when it is read as a header: all NUL or
not, checksum right or wrong, prefix field used or not, a path as the list of its
components, a typeflag, and a size. The contents of files are such blocks too, so
the parser may mistake one for the other, and only its arithmetic keeps it from
doing so. The sums and the product wrap at `SizeMax`, as `size_t` does.

`Tarball` says what `tarfile` writes for a list of files. The list is what `rglob`
and `is_file()` make of a directory, so it can contain links; here paths are taken
to fit the name field. Longer ones are in `Packager` and `Delivery`.

### Parsers

A behaviour is one call of one function and its answer. The functions are
operators of four modules, written after the code, and each is compared with a
definition of what the bytes mean that is written in another way:

- `TarField`: `parse_octal_field` is the loop over the bytes of a field (digit,
  padding, other), a recursive function of how many have been read; `NumbersIn`
  says which runs of digits are a number. Which number is `Numeral`'s business: it
  adds up the places, where the parsers shift and add.
- `VersionText`: `fota_version_parse` is the loop over the characters, a recursive
  function of how many have been read, and so is a component, which wraps and is
  compared with its bound at every digit; `VersionsIn` says where the three dots
  have to be. `Reading` and `Line` are the version file as
  `fota_version_read_installed` and `fota_version_write_installed` have it. Cutting
  a line anywhere gives exactly the `ShortWrites` that `FotaVersion` assumes.
- `ManifestJson`: a text is a sequence of symbols, with runs of characters that
  nothing looks into as one symbol of known width. `dumps` is what
  `json.dumps(manifest, indent=2)` makes of a manifest; `parse_manifest_files` finds
  the key as text and reads on from there. Its two nested loops are one, with a state
  that says which of them it is in (`ListPass`, `FilePass`); that loop and the one of
  `extract_json_string` (`StringPass`) are recursive functions of how often they have
  been passed. A pass moves on or ends the loop, so one more pass than there are
  symbols is enough. The two `cap`s are those of the buffers for path and digest. A
  NUL byte in a manifest is left out.
- `Blob`: real bytes and real sizes. `build_header` and `assemble` are the
  packager's, with the sizes they refuse (a signature by a key that has not 2048
  bits is one), `fota_header_parse`, `platform_tag_matches` and `Sections` the
  device's.

### Keygen, Packager and Delivery

| action | code |
|---|---|
| `OpenKeyFile`, `FillKeyFile` | `generate_keypair`, `write_private_key`, `write_public_key`: four files in a fixed order, each opened and then filled |
| `CheckKeyFiles` | both key files are there (cli.py 40-43) |
| `LoadSigningKey`, `LoadDeviceKey` | cli.py 45-46 |
| `ListInput`, `IsFile`, `HashFile` | `build_manifest`: `sorted(rglob)`, `is_file`, `sha256_file` |
| `ListAgain`, `IsFile`, `AddFile` | `stage_and_compress`: the second walk, `tar.add` |
| `Seal` | the manifest as last member, encryption, wrapping, header, signature (cli.py 51-66) |
| `OpenOutput`, `FillOutput` | `write_bytes` |
| `AbortPack`, `InterruptKeygen` | an uncaught `OSError`, or a signal, anywhere |
| `Edit` | somebody changes the input directory meanwhile |
| `CopyKey` | `cp` of a key to the device |

A key is the pair it belongs to and the run that made it. A file of the directory
is what `lstat` says of it and its data; a manifest is a content with its list, so
that one may also lie in the directory. `snapshot` is a history variable: the
directory when the second walk began. The device is `Received`, which turns a
package file into the record of outcomes that `FotaPackage` and `Consumer` take:
the signature verifies if the halves of one pair meet and the file is whole, links
and headers with a prefix are refused by the tar parser, the rest is
`fota_verify_manifest`. Sizes are below the cap on decompressed data.

## 3. What is checked

| run | instance | shows |
|---|---|---|
| `consumer` | one slot; four settings: three releases and fourteen packages that are refused for one reason each, with kills and failures everywhere; the releases, with calls on the version file that work; the same, not killed at `stamp` either; three releases with the same paths and no faults | `InstalledIsAuthentic`, `OnlyAcceptedPackagesTouchTheDevice`: what is on the device came from an accepted package; `SuccessMeansInstalled`; `RejectionLeavesNoTrace`: exit codes 2 to 9 are never given after writing has begun; `InterruptedInstallIsRetryable`; `UpToDateMeansInstalled`; `NoDowngradeWithoutSecret`; `ImplementsContract`; `EveryRunEnds`; `AcceptedIsInstalled` |
| `consumer_pair` | two slots, two releases and a forged package, no faults | authenticity and termination without a lock |
| `power_loss` | three releases and a forged package; power cuts anywhere, any order of write-back; two settings: kills and failing calls anywhere, or anywhere but on the version file | `InstalledIsAuthentic` still holds of what the medium kept; `PowerCutIsRetryable` |
| `manifest` | up to three entries beside the manifest over two paths, two contents and a directory; up to three manifest lines | `LoopComputesVerdict`, `AcceptedMeansExactSet`, `PackagedIsAccepted` |
| `gunzip` | chunk of 3 bytes, caps 0, 2, 3, 8 and 12, streams of 0 to 14 bytes, whole, truncated, corrupt or empty | `TypeOK`: never more than the cap; `OkMeansWhole`; `FailureIsJustified`: a whole stream below the cap gets through; `EveryStreamEnds` |
| `tar` | every buffer of up to three blocks out of sixteen and an end, with or without part of a block after it; the tarball of every directory of up to two files of up to two blocks | `EntriesAreApart`, `NothingIsSkipped`, `EntriesStayInside`, `EveryParseEnds`; `PackedIsParsed`: the device reads what was packed, whatever is in the files |
| `parsers` | octal fields of up to five bytes over two digits, padding and another byte; version texts of up to five components of seven kinds; version files cut anywhere; manifests of up to two files out of eleven awkward paths, cut anywhere; packages with tags, versions and keys of the boundary lengths, cut around every boundary; pairs of packages made of one text cut in different places | `FieldHoldsNumber`, `VersionIsMeant`, `CutVersionReads`, `ManifestReadsBack`, `CutManifestIsNoticed`, `PackedIsSplit`, `SignedDataFixesSections` |
| `delivery` | three settings: the directory changes while it is packed; a directory for each awkward kind of file, and arguments that do not fit; the key generator is run twice | `FinishedKeysFit`, `PackedIsAccepted`, `AcceptedIsSnapshot` |

What some of them need, and what they leave open:

- `PowerCutIsRetryable` is about the moment of the cut, and holds for any order of
  write-back: if the version file on the medium can be read, the last package is
  not blocked, and it is let through again unless its version had been recorded by
  then. It does not say that all files are there when the package is "up to date",
  but for a cut at the hook with everything written back: the code forces no order,
  so the version may be on the medium and the files not, and a completed update be
  lost without anybody noticing. Nor does it say anything of a version file whose
  length got to the medium before its text: it is made of NULs, and every later run
  ends with exit code 1. Its premise `NeverBack` is needed too: with the secret, a
  rollback may be recorded in the cache and the newer version be back after the cut;
  and after a kill at `stamp` an older release may be let in, while the newer version
  is still on the medium.
- `ManifestReadsBack` is exact: a manifest reads back if no name needs a `\uXXXX`
  escape, no path has more than 255 characters, and no value before the list looks
  like its key; otherwise the whole package is refused. `installer.c` 360-364 calls
  the escapes out of scope for the project's own generator, but `json.dumps` writes
  them for every character that is not ASCII.
- `PackedIsAccepted` is an equivalence too. `Deliverable` names the directories
  that get through: no links, no path that needs the prefix field, no such escape,
  and no `manifest.json` of its own unless that lists the other files. In the
  other cases the packager exits with 0 and no device takes the package; so
  does a `--fw-version` that is not a version.
- `AcceptedIsSnapshot`: if a file changes between the walks, digest and data differ
  and the package is refused; the manifest is thus also the packager's guard
  against its own race. It does not guard against a file that is replaced between
  its two reads and put back before the second: the package is accepted, and the
  directory may never have been like it. So the property leaves out `restless`, the
  paths that were changed more than once in the run; TLC finds that it must. It is
  stated for a packager whose `manifest.json` is the only one: with one in the
  directory, the first is checked.
- `UpToDateMeansInstalled` is about a device that has recorded a release and was
  not disturbed.

Four runs end in a violation that the code really has:

| run | what happens | against |
|---|---|---|
| `version_torn` | a run is killed while the version file is empty; the next one, of an older release, is let in without the secret | `docs/THREAT_MODEL.md` 96 |
| `version_race` | two runs read the version, the newer release is recorded first | `docs/THREAT_MODEL.md` 96 |
| `manifest_duplicate` | a path listed twice hides a file that is not listed | `consumer/src/installer.h` 102-103 |
| `tar_links` | a symbolic link to a file in the input directory is packed as a symbolic link entry, which every device refuses | `docs/THREAT_MODEL.md` 130-131, `consumer/src/installer.h` 62 |

The first two check `DowngradesAreBlocked`, which is `NoDowngradeWithoutSecret`
without its condition. `docs/ARCHITECTURE.md` 126-127 also says that verified
files are moved into place. The code has no such step: it opens the installed
path itself, and `OpenFile` shows it as `torn` until `FillFile`.

### Bounds

Three releases are the least with which a version can be recorded, another be
interrupted, and a third be older than both; two of them have their entries in
another order with the manifest first or last, and the third turns a directory
into a file. One component of a version has two digits so that it can be cut.
Every refused package fails one check and no other, so that the check is what
stops it. A secret is right, wrong or missing. Two slots are enough for a race on
a file or on the version. Nothing in `Consumer` grows without bound: every
variable is reset or overwritten by the next run.

`power_loss` has the three releases of `consumer` and one package that is refused;
the contract and the exit codes are the business of `consumer`.

In `ManifestCheck` three entries and three lines make every case of the
comparison happen: missing, extra, repeated on either side, wrong digest, equal
counts for the wrong reason. The proofs cover all other sizes.

In `Gunzip` the caps lie below the chunk, at it, at a doubling and between two,
and the streams end before, at and after each. What happens to a stream of exactly
the cap is left open by `zlib.h` and by the properties. The cast of the input's
length to `unsigned int` (installer.c 33) is not modelled: inputs are below 4 GiB.

In `TarParse` a buffer of four blocks has room for two members and a marker, or
for a member with data that looks like one. The sizes are 0, 1, one block, one
byte more, more than the buffer, and a refused field. `IsBuffer` is the one
assumption on `size_t`: it holds a buffer in memory plus the largest field. With
64 bits it does; 8^12 with a 32 bit `size_t` it would not. The table of entries
grows at 0, 16, 32... entries; only the first is reached here, the proof has all.

In `Parsers`, `MaxPart` = 20, `Wrap` = 256 and `BufferSize` = 16 stand for
4294967295, 2^64 and 64. `WrapAssumption` is what makes the check after every digit
sufficient, for the true values as for these: a component that was below the bound
cannot pass 2^w with one more digit. `MCVersionField` has a component, 260, that
would wrap to 4.

In `Delivery` one key generator and one packager run at a time (`KeygenRuns` and
`PackRuns` bound how often). The directory changes as often as its owner likes; in the
setting where it does, each of two firmware paths may hold two contents or nothing, so
a file can be replaced, put back and removed. A change replaces a file at once; one
that is read while it is written gives a content that fails its digest or one that
another change could have put there. The order of paths is fixed, and `manifest.json`
sorts last: where it sorts does not matter, since the packager's own is appended after
all of them.

### Fairness

`WF_vars(Step(p))`: a run that is not killed goes on. The code waits for nothing
but system calls, so the operating system's scheduling gives this. Starting a run
and killing one are never required. `WF_vars(Next)` in `Gunzip` and `TarParse` says
that a function that can go on does. `PowerLoss`, `Parsers` and `Delivery` have
safety properties only, and no fairness.

## 4. What is proved

From the named assumptions of the modules, which TLC evaluates in every run:
`PackageAssumption`, `SettingAssumption`, `SpaceAssumption`,
`NodeStateAssumption` of `Consumer`, `ManifestAssumption`, `MaxPartAssumption`,
`NoSecretAssumption`; those of `Gunzip`, `TarParse` and `PackedTar` (the input
directory holds plain files; `tar_links` is about others); those of `Packager` (the
order of paths has each once, manifest.json is a path of the input directory that
fits the name field, `json.dumps` writes what the device's parser makes of it
unless a path needs an escape, and `ContentAssumption`: the manifests the packager
may write are contents, and none contains its own digest); and those of
`Parsers` (arguments are bytes, the bytes of a field and the characters of a version
text are of the kinds that `TarField` and `VersionText` know, the versions written
are versions, a platform tag has no NUL, and a manifest is texts, with 64 characters
that need no escape for a digest: `DictAssumption`). `ManifestJson` assumes that the
words both programs write have a width, and that "path" and "sha256" fit the buffer
of 16 (`WidthAssumption`). `VersionText` assumes what the sizes of
version.c give: a component and one digit more do not wrap (`WrapAssumption`), `Tens`
has every power of ten a component can reach (`TensAssumption`), and the longest
line, of 44 characters, fits the buffer of 64 (`BufferAssumption`).

- `ConsumerProofs!TypeCorrect`, `OnlyAcceptedWrites`, `Authentic`: for any number
  of overlapping runs and any faults. The invariant `IInv` adds to the types what
  a process has established when it reaches a point (`Established`: one conjunct
  per check of `main`), and that the file it has open is a firmware file of its
  package. Without the first, nothing is known of a package that is being
  written; without the second, not even the type of what is written. Each action
  has a lemma; `OthersKeep` carries what the other processes have established.
- `ConsumerProofs!RejectedLeavesNoTrace`: in the same generality, an exit code from
  2 to 9 means that the write loop was never reached. `LoopIndexInv` is the
  strengthening: the loop index is positive from the first entry to the next
  start, and a package whose index is positive has passed the manifest check.
  Only three kinds of step touch what it speaks of (`StepShape`): a run begins,
  ends or continues.
- `ConsumerProofs!NoDowngrade`: if runs do not overlap (`OneAtATime`), none is
  cut while the version file is empty, and the file can be read
  (`VersionFileSafe`), the recorded version goes down only with the secret. The
  invariant is that the version file reads as the ledger whenever nobody is
  rewriting it, and that a process past the downgrade check may still record its
  version. `version_torn` and `version_race` show that the conditions are needed.
  The setting never changes (`SettingStays`), which makes the condition on it one
  of the behaviour.
- `ConsumerProofs!SuccessIsInstalled`, `InterruptedIsRetryable`: for one run at a
  time and packages whose manifest lists no path twice, nor itself
  (`CleanPackages`), with kills and failing calls anywhere (the second leaves out
  the version file, as its property does). `ProgressInv` says how far a run has
  got: every entry before the loop index is in place, and stays there because no
  later entry has its path; after the loop all of them are, and at the hook the
  version file says so. `RetryInv` says that the decision the run was let in by
  would be made again until it rewrites the version file: from then on everything
  is in place.
- `ConsumerProofs!UpToDateIsInstalled`: exit code 2 is right, in the settings its
  property speaks of, for packages as above whose releases are numbered from
  0.0.0.1 on, one build to a number (`OneBuildPerVersion`; 0.0.0.0 is what a device
  without a version file has). `CurrentInv` says that the version file names a
  release that is in place whenever nobody is writing, and that a tree made of
  these releases has no file where another needs a directory, which is why no
  mkdir and no fopen fails. `MCConsumer` has TLC evaluate both conditions for the
  packages of the run.
- `ConsumerProofs!PowerTypeCorrect`, `AuthenticAfterPowerLoss`: with power cuts at
  any moment, any order of write-back and any overlap. What the medium holds was
  once what the page cache held, so it is from accepted packages too
  (`MediumAuthentic`); a cut brings it back.
- `ConsumerProofs!PowerCutRetryable`: for one run at a time, `CleanPackages`, and
  the conditions of the property, with any order of write-back. `LagInv` relates two
  devices, the one the updater sees and the one on the medium: the second never has
  the newer version, except while the version file is being rewritten; a run that
  was let in is newer than both until it records, and no older than either from then
  on. A cut replaces the first device by the second.
- `ConsumerProofs!Implements`: under the same two conditions and with a slot at
  all, `Consumer` implements `UpdateContract`. One lemma per action of the contract
  and one case per step of `main`. `SafeInv`, which is the invariant of
  `NoDowngrade` in the settings where that applies, gives the guard of `Begin`;
  `ProgressInv` the guard of `Commit`.
- `ManifestCheckProofs!AcceptedIsExactSet`: for a tarball and a manifest of any
  size, if no line is repeated and none names the manifest, acceptance means the
  exact set. Lines map to entries injectively, the two sets have the same number
  of elements, so the map is onto: the counting argument the code relies on.
  `manifest_duplicate` shows that the condition is needed.
- `ManifestCheckProofs!PackagedAccepted`: the converse, of any size: a tarball that
  holds exactly the listed files, each listed once, is never turned away. It
  rests on `FotaPackageProofs!ExactIsAccepted`, the same counting read backwards.
- `ManifestCheckProofs!LoopIsVerdict`: the loop and the operator agree, so what is
  shown of one holds of the other.
- `FotaPackageProofs!DowngradeDecision`: exactly which versions are let through,
  from the fact that the comparison is a total order (`LessTrichotomy`).
- `DeliveryProofs!KeysFit`: for any number of runs of the key generator, cut
  anywhere. `KeyFileInv`: the files before the one in hand are of this run, and
  the public half of each pair is that of the private one.
- `DeliveryProofs!SnapshotDelivered`: for any directory, changed anywhere, at any
  time and any number of times. The difficulty is that the packager reads each file
  twice. `WalkInv` says of every path that is not `restless` that if it has changed
  since the second walk began, the first walk had seen it as the snapshot has it
  (`Settled`); so that whatever is added to the tarball later either is the
  snapshot's file or does not have the digest of the manifest. `OutputInv` carries
  this to the package file, and `AcceptedIsExactSet`'s counting does the rest.
- `DeliveryProofs!PackedAccepted`: the equivalence, for a directory nobody touches
  and under `CleanManifests`: a manifest.json in it lists no path twice, nor itself.
  `KeyInv` adds that keys of one run are of one pair for each purpose, wherever
  they have been copied; `SuccessInv` that the tarball is a faithful copy. The two
  cases, the packager's own manifest or one of the directory's, are
  `OwnManifestAccepted` and `ForeignManifestAccepted`.
- `ParsersProofs!PackageSplit`: for tags, versions, keys and payloads of any bytes
  and lengths, cut where `Cuts` has it. `HeaderLayout` and `PackageLayout` say which
  byte is where; `CutIsSplit` reads them back from n bytes of the package. A tag
  fills its field without a terminator, so that a padded tag stands for one
  platform only because no tag has a NUL byte (`PaddedIsInjective`).
- `ParsersProofs!FieldNumber`: for fields of any length. `ReadSoFar` says what is
  known after each byte: that all were padding, or where the digits began and what
  they stand for, or where the number ended, or that no number can be in the field
  any more. `OneNumber` says that a field holds at most one, and `NumberOfAppend`
  that one digit more means to shift and add. The bound is the one that
  `TarParse` relies on (`IsBuffer`): the value stays below 8^n.
- `ParsersProofs!VersionMeaning`: for texts of any length, with components of any
  length. The argument goes along the characters in both directions. A text that can
  be cut into four numerals is followed from boundary to boundary (`CutStep`); and
  what the loop has accepted so far was cut (`FoundStep`), so that nothing else is
  accepted. `ComponentIs` is where the width matters: a component is compared with
  its bound at every digit, so it is refused before ten times it can wrap, and a
  component that was not refused is the number its digits stand for. A test after the
  last digit only would not do (the mutant `Component_CheckedLast`).
- `ParsersProofs!CutVersionFiles`: for every version. `LineLayout` says which
  character of the line is where, `DotsOfPrefix` that the dots of a cut line are
  those of the whole that were kept, so that a line cut before the last component has
  begun is no version (`ShortPrefix`) and one cut later is a version with the first
  digits of that component (`LongPrefix`). `HeadsAre` says what those stand for: the
  component, or the component divided by a power of ten, which is what `CutLast` of
  `FotaVersion` says. So the abstraction the runs of `Consumer` rest on, `ShortWrites`,
  is neither too small nor too large. `DecimalSteps` shows that the recursive
  definition of the digits, which is a choice, has a solution.
- `ParsersProofs!ManifestReading`: for any number of files, with paths and texts of
  any length. It has a half about the text and a half about the parser. The first
  says where each symbol of `dumps` is (`At`): in a string every symbol is one symbol
  or two (`StringLayout`), and items lie one behind the other (`SeparatedLayout`), so
  that the members, the files and their fields have places. The second follows the
  loops from place to place: `ReadString`, by induction on the symbols of the value,
  that a string is taken apart as it was put together, or fails for want of room or
  for an escape the device does not know; `ReadField`, `ReadEntry` and, by induction on
  the files, `ReadList`. What is left is the search for the key, which knows no
  strings: `KeyInMember` says that before the list its text can only be the end of a
  value, and `KeysOfDump` that this happens exactly if a value ends like it
  (`EndsLikeKey`), which is what `KeyIsFirst` rules out; such a value is followed by a
  comma and the manifest refused.
- `ParsersProofs!CutManifests`: whatever a loop accepts in the first symbols of a text
  it accepts in the whole text (`CutString`, `CutList`, and `CutManifest` for the
  parser), since every symbol it looks at is there. So a list that is read from a cut
  manifest is the one that is read from the whole, and `ManifestReading` says which
  that is. This needs that the end of the text ends no list (the mutant
  `ListEnds_AtEnd`).
- `ParsersProofs!SignatureCovers`: for any two blobs. The signed bytes are joined
  without lengths, but they begin with the header, of fixed size, which says how
  long the wrapped key is; so one part after another can be cancelled
  (`JointCancels`).
- `GunzipProofs!CapIsKept`, `OkIsWhole`, `Justified`: for every chunk, cap and
  stream. The invariant adds that no more comes out of a stream than is in it.
- `TarParseProofs!EntriesApart`, `NothingSkipped`, `StayInside`: for buffers of any
  length. The invariant has two parts the code never states: every entry ends where
  the next header is read or before (`EntriesEnd`), which keeps a new entry apart
  from all earlier ones, and every block before that place belongs to an entry
  (`Covered`). The arithmetic does not wrap, by the comparison with the length of
  the buffer and the assumption on `size_t`. That a path without `..` stays inside
  needs no counting: it never moves up.
- `TarParseProofs!PackedParsed`: for any number of plain files of any length, with
  any bytes in them. `LaidOut` says where the header and the data of each file are
  in what the packager has joined, by induction on the number of files
  (`SequenceLemmas!FlattenLayout`); `PackedInv`, that the parser has read the first
  files so far, each where it was put, and stands at the header of the next. So it
  never takes contents for a header, whatever they look like.

Only model-checked:

- the liveness properties `EveryRunEnds`, `AcceptedIsInstalled`, `EveryStreamEnds`
  and `EveryParseEnds`: the provers know neither fairness nor ENABLED. Every
  invariant and every action property that a passing run checks is proved.

Where a proof needs induction over data, `SequenceLemmas!Induction` and
`ParsersProofs!StrongInduction` have it for sets of numbers (the library's own has an operator as a
parameter, which the provers cannot instantiate; that every set of numbers has a least
one serves as well).

## 5. Not modelled

- RSA, AES, SHA-256 and deflate: libraries. A check by one of them is an outcome.
- The octal checksum of a tar header: a fact of the block.
- How the hash file of the downgrade secret is read (version.c 156-178): what comes
  of it is the constant `StoredHash`.
- `parse_blob`, `decrypt_payload`, `unwrap_key` and the like in the packager: only
  its tests call them.
- A package of version 0.0.0.0 on a device without a version file (it is answered
  with "up to date"): the runs give every release a greater version.
- Tests and fixtures: evidence of what is meant, not part of the system.

What could follow: `parse_manifest_files` on texts of any origin, against a grammar of
what a manifest is, and with NUL bytes in strings; the hash file of the downgrade
secret, read as `VersionText` reads the version file.
