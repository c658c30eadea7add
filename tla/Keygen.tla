------------------------------- MODULE Keygen -------------------------------
(***************************************************************************)
(* keygen/generate_keys.py: main() writes four key files one after another *)
(* over what is there.  It may be killed at any point and started again.   *)
(* One run at a time.                                                      *)
(***************************************************************************)
EXTENDS Integers, Sequences

VARIABLES
    keyFile,     \* keyFile[name]: the key in the file
    at,          \* the place in KEYFILES of the next file, 0 if not running
    opened,      \* that file has been opened
    pair,        \* the last keypair generated
    keygenRuns,  \* how often it was started
    finished     \* its last run ended with exit code 0

keygenVars == <<keyFile, at, opened, pair, keygenRuns, finished>>

\* In the order in which main() writes them.
KEYFILES == <<"signing_private", "signing_public", "device_private", "device_public">>

KeyName == {KEYFILES[i] : i \in DOMAIN KEYFILES}

\* A key: the keypair it belongs to, and the run that generated it.
\* A file that is missing, empty or cut off holds NoKey.
NoKey == [pair |-> 0, run |-> 0]

\* Before the first run, or after one that was not disturbed.
NoKeys ==
    /\ keyFile = [name \in KeyName |-> NoKey]
    /\ pair = 0 /\ keygenRuns = 0 /\ finished = FALSE

NewKeys ==
    /\ keyFile = [name \in KeyName |->
                    [pair |-> IF name \in {"signing_private", "signing_public"} THEN 1 ELSE 2,
                     run |-> 1]]
    /\ pair = 2 /\ keygenRuns = 1 /\ finished = TRUE

KeygenInit == (NoKeys \/ NewKeys) /\ at = 0 /\ opened = FALSE

\* limit bounds how often.
StartKeygen(limit) ==
    /\ at = 0 /\ keygenRuns < limit
    /\ at' = 1 /\ opened' = FALSE
    /\ keygenRuns' = keygenRuns + 1
    /\ finished' = FALSE
    /\ UNCHANGED <<keyFile, pair>>

\* A private key file is the first of its pair: generate_keypair precedes it.
Generated == IF at \in {1, 3} THEN pair + 1 ELSE pair

\* Mutant: a key that is already there is kept.
OpenKeyFile_KeepOld ==
    /\ at \in DOMAIN KEYFILES /\ ~opened
    /\ pair' = Generated
    /\ IF keyFile[KEYFILES[at]] = NoKey
       THEN opened' = TRUE /\ UNCHANGED at
       ELSE at' = at + 1 /\ UNCHANGED opened
    /\ UNCHANGED <<keyFile, keygenRuns, finished>>

OpenKeyFile ==
    /\ at \in DOMAIN KEYFILES /\ ~opened
    /\ pair' = Generated
    /\ keyFile' = [keyFile EXCEPT ![KEYFILES[at]] = NoKey]
    /\ opened' = TRUE
    /\ UNCHANGED <<at, keygenRuns, finished>>

FillKeyFile ==
    /\ opened
    /\ keyFile' = [keyFile EXCEPT ![KEYFILES[at]] = [pair |-> pair, run |-> keygenRuns]]
    /\ at' = at + 1 /\ opened' = FALSE
    /\ UNCHANGED <<pair, keygenRuns, finished>>

EndKeygen ==
    /\ at > Len(KEYFILES)
    /\ at' = 0 /\ finished' = TRUE
    /\ UNCHANGED <<keyFile, opened, pair, keygenRuns>>

\* Killed, or no space left.
InterruptKeygen ==
    /\ at # 0
    /\ at' = 0 /\ opened' = FALSE
    /\ UNCHANGED <<keyFile, pair, keygenRuns, finished>>

KeygenNext(limit) ==
    \/ StartKeygen(limit) \/ OpenKeyFile \/ FillKeyFile \/ EndKeygen \/ InterruptKeygen

=============================================================================
