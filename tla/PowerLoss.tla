----------------------------- MODULE PowerLoss -----------------------------
(***************************************************************************)
(* Consumer on a device that may lose power.  Neither write_entry_file nor *)
(* fota_version_write_installed calls fsync, so what they wrote reaches    *)
(* the medium whenever the kernel chooses: every file and the version file *)
(* on its own, in part or in full, in any order; a power cut leaves what   *)
(* is there.                                                               *)
(***************************************************************************)
EXTENDS Consumer

VARIABLES
    disk,          \* disk[n]: what the medium holds for tree[n]
    diskVersion    \* what the medium holds for the version file

medium == <<disk, diskVersion>>

PowerInit ==
    /\ Init
    /\ disk = tree
    /\ diskVersion = versionFile

\* One path is written back: a file may get there in part.  Its directories
\* come first.
WriteBackFile(n) ==
    /\ disk[n] # tree[n]
    /\ \A m \in Parents(n) : disk[m] = tree[m]
    /\ \E c \in {tree[n]} \cup IF IsFile(n) THEN {"torn"} ELSE {} :
          disk' = [disk EXCEPT ![n] = c]
    /\ UNCHANGED <<vars, diskVersion>>

\* The length of the version file and its text are written back apart: what
\* is there meanwhile is blank, or made of NULs, which does not parse.
WriteBackVersion ==
    /\ diskVersion # versionFile
    /\ diskVersion' \in {versionFile, BlankFile, MalformedFile}
    /\ UNCHANGED <<vars, disk>>

\* Every process is gone, and so is what was not written back.
PowerCut ==
    /\ pc' = [p \in Proc |-> "idle"]
    /\ exit' = [p \in Proc |-> IF pc[p] = "idle" THEN exit[p] ELSE NoExit]
    /\ tree' = disk
    /\ versionFile' = diskVersion
    /\ UNCHANGED <<locals, ledger, medium>>

PowerNext ==
    \/ Next /\ UNCHANGED medium
    \/ \E n \in Node : WriteBackFile(n)
    \/ WriteBackVersion
    \/ PowerCut

PowerSpec == PowerInit /\ [][PowerNext]_<<vars, medium>>

-----------------------------------------------------------------------------
(* Properties.                                                             *)

\* Type invariant.
PowerTypeOK ==
    /\ TypeOK
    /\ disk \in [Node -> NodeState]
    /\ diskVersion \in VersionFile

\* The recorded version goes back on the device by a power cut alone: nobody
\* has a secret, no call on the version file fails, and no run is killed while
\* that file is empty.
NeverBack == Secret = {} /\ VersionFileSafe

\* Power is lost at any moment, with any part of what was written on the
\* medium.  If the version that is left there can be read, then the last
\* package of p is not blocked when it is run again, and it is let through
\* unless p had recorded its version; if it is up to date, and all had been
\* written back when p was about to exit with 0, then every file it lists is
\* in place.  (What is up to date with a file missing is one that p had
\* recorded while the file was not yet on the medium: nothing calls fsync.)
PowerCutIsRetryable ==
    [][ PowerCut /\ NeverBack =>
        \A p \in Proc : idx[p] > 0 /\ Readable(diskVersion) =>
            \/ Retry(p)' = "ALLOW"
            \/ /\ Retry(p)' = "UP_TO_DATE"
               /\ pc[p] \in {"hook", "idle"}
               /\ pc[p] = "hook" /\ disk = tree => FilesInstalled(pkg[p])' ]_<<vars, medium>>

=============================================================================
