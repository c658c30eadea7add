--------------------------- MODULE DeviceContract ---------------------------
(***************************************************************************)
(* Consumer as an implementation of UpdateContract, for a device on which  *)
(* one invocation runs at a time.                                          *)
(***************************************************************************)
EXTENDS Consumer

TheSlot == CHOOSE p \in Proc : TRUE

\* What the manifest of k vouches for: the digest is that of the first entry
\* with the path.
UpdateOf(k) ==
    [version |-> k.version,
     image |-> [n \in PresentPaths(k.entries) |->
                   k.entries[find_entry(k.entries, n)].data]]

Trusted == {UpdateOf(k) : k \in {j \in Package : Accepted(j)}}

Installing ==
    IF pc[TheSlot] \in {"write", "fill", "record", "stamp"}
    THEN {UpdateOf(pkg[TheSlot])} ELSE {}

WholeFiles == [n \in Node |-> IF tree[n] \in Content THEN tree[n] ELSE "absent"]

Contract == INSTANCE UpdateContract WITH
    Update <- Trusted, Place <- Node, NoFile <- "absent",
    protected <- VersionFileSafe, recorded <- ledger,
    given <- secret[TheSlot], target <- Installing, files <- WholeFiles

\* Every run of the updater is an update of the contract: it begins when its
\* package has passed every check and is newer or allowed, replaces only its
\* own files, and records its version when all of them are there.
ImplementsContract == Contract!Spec

=============================================================================
