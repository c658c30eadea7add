--------------------------- MODULE UpdateContract ---------------------------
(***************************************************************************)
(* What the updater promises of a device, without saying how: one update   *)
(* at a time is begun, replaces its own files and no others, and is either *)
(* completed, when its version is recorded, or abandoned.                  *)
(*                                                                         *)
(* An update has a version and an image, a function from paths to file     *)
(* contents.  Nothing is said of what a file holds while it is replaced    *)
(* but that it is not a whole file of somebody else's.                     *)
(***************************************************************************)
EXTENDS FotaVersion

CONSTANTS
    Update,       \* updates whose maker the device trusts
    Place,        \* the paths of the install directory
    NoFile,       \* what a path holds that has no whole file
    StoredHash    \* as for the downgrade decision

VARIABLES
    protected,    \* nothing can spoil the record of the version
    recorded,     \* the version recorded last
    given,        \* the secret typed by the operator
    target,       \* {u} while u is being installed, else {}
    files         \* the whole files of the install directory

vars == <<protected, recorded, given, target, files>>

Init ==
    /\ protected \in BOOLEAN
    /\ recorded = ZeroVersion
    /\ given = NoSecret
    /\ target = {}
    /\ files = [n \in Place |-> NoFile]

Give ==
    /\ target = {}
    /\ given' \in Secret \cup {NoSecret}
    /\ UNCHANGED <<protected, recorded, target, files>>

\* Forward, or back with the secret.
MayInstall(u) ==
    protected => Less(recorded, u.version) \/ SecretMatches(given, StoredHash)

Begin ==
    /\ target = {}
    /\ \E u \in Update : MayInstall(u) /\ target' = {u}
    /\ UNCHANGED <<protected, recorded, given, files>>

\* Any of u's files are replaced, or are on their way to be.
Replaces(u) ==
    /\ DOMAIN files' = DOMAIN files
    /\ \A n \in DOMAIN files :
          \/ files'[n] = files[n]
          \/ n \in DOMAIN u.image /\ files'[n] \in {NoFile, u.image[n]}

Replace ==
    /\ \E u \in target : Replaces(u)
    /\ UNCHANGED <<protected, recorded, given, target>>

Abandon ==
    /\ \E u \in target : Replaces(u)
    /\ target' = {}
    /\ UNCHANGED <<protected, recorded, given>>

\* Every file of the image is in place.
Complete(u) == \A n \in DOMAIN u.image : n \in DOMAIN files /\ files[n] = u.image[n]

Commit ==
    /\ \E u \in target : Complete(u) /\ recorded' = u.version
    /\ target' = {}
    /\ UNCHANGED <<protected, given, files>>

Next == Give \/ Begin \/ Replace \/ Abandon \/ Commit

Spec == Init /\ [][Next]_vars

=============================================================================
