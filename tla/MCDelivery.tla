----------------------------- MODULE MCDelivery -----------------------------
(***************************************************************************)
(* Values for Delivery: in the setting "edits" the keys are there and the  *)
(* directory changes, in "kinds" it holds one file of each awkward kind    *)
(* and the arguments vary, in "keys" the key generator is run twice.       *)
(***************************************************************************)
EXTENDS Delivery, TLC

Boot == <<"boot">>
LibX == <<"lib", "x">>
Long == <<"a long name">>
Unfit == <<"a name too long">>
Escaped == <<"caf">>

MCName == {"boot", "lib", "x", "a long name", "a name too long", "caf", "manifest.json"}

MCPathOrder == <<Unfit, Long, Boot, Escaped, LibX, ManifestPath>>

MCLongPath == {Long}
MCUnfitPath == {Unfit}
MCEscapedPath == {Escaped}

Bytes(x) == [of |-> x, lists |-> <<>>]
One == Bytes("1")
Two == Bytes("2")

\* A manifest.json that lies in the input directory.
Foreign == dumps(<<Line(Boot, Two), Line(LibX, One)>>)

\* Every list a walk may make: each path is missing or has one of its contents.
Holds(n) == IF n = ManifestPath THEN {One, Foreign} ELSE {One, Two}

WithLine(S, n) == S \cup {Append(s, Line(n, c)) : s \in S, c \in Holds(n)}

MCLists ==
    LET Upto[n \in 0..Len(MCPathOrder)] ==
            IF n = 0 THEN {<<>>} ELSE WithLine(Upto[n - 1], MCPathOrder[n])
    IN  Upto[Len(MCPathOrder)]

MCContent == {One, Two, Foreign} \cup {dumps(s) : s \in MCLists}

MCManifest ==
    [c \in MCContent |->
        [parses |-> /\ c = dumps(c.lists)
                    /\ \A i \in DOMAIN c.lists : c.lists[i].path # Escaped,
         files |-> c.lists]]

Plain(c) == {[kind |-> "regular", data |-> c]}

Nothing == [n \in InputPath |-> {}]

Usual == [Nothing EXCEPT ![Boot] = Plain(One), ![LibX] = Plain(One)]

Awkward ==
    {[Usual EXCEPT ![n] = Plain(One)] : n \in {Long, Unfit, Escaped}}
    \cup {[Usual EXCEPT ![Boot] = {[kind |-> "symlink", data |-> Two]}],
          [Usual EXCEPT ![LibX] = {[kind |-> "hardlink", data |-> One]}]}
    \cup {[Usual EXCEPT ![Boot] = Plain(b), ![ManifestPath] = Plain(m)] :
             b \in {One, Two}, m \in {One, Foreign}}
    \cup {Nothing}

MCSetting == {"edits", "kinds", "keys"}

MCInputDir ==
    ("edits" :> {Usual, [Usual EXCEPT ![Boot] = {}],
                 [Usual EXCEPT ![ManifestPath] = Plain(Foreign)]}) @@ ("kinds" :> Awkward)
        @@ ("keys" :> {[Usual EXCEPT ![LibX] = {}]})

MCReplacement ==
    [s \in MCSetting |-> [n \in InputPath |->
        IF s # "edits" THEN {}
        ELSE CASE n \in {Boot, LibX} -> Plain(One) \cup Plain(Two)
               [] n = ManifestPath -> Plain(Foreign)
               [] OTHER -> {}]]

Good == [platform |-> "GENERIC", fits |-> TRUE, versioned |-> TRUE, version |-> <<1, 2, 3, 4>>]

MCRelease ==
    ("edits" :> {Good}) @@ ("keys" :> {Good})
        @@ ("kinds" :> {Good, [Good EXCEPT !.platform = "OTHER"],
                        [Good EXCEPT !.fits = FALSE],
                        [Good EXCEPT !.versioned = FALSE, !.version = ZeroVersion]})

MCKeygenRuns == [s \in MCSetting |-> IF s = "keys" THEN 2 ELSE 1]

MCPackRuns == [s \in MCSetting |-> IF s = "edits" THEN 1 ELSE 2]

\* What the theorem about PackedIsAccepted assumes holds of these values.
ASSUME CleanManifests

=============================================================================
