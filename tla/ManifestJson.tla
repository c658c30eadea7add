---------------------------- MODULE ManifestJson ----------------------------
(***************************************************************************)
(* manifest.json as text: json.dumps(manifest, indent=2) of the packager   *)
(* and parse_manifest_files of consumer/src/installer.c.                   *)
(*                                                                         *)
(* A text is a sequence of symbols: the punctuation of JSON one character  *)
(* each, Space for a run of white space, and a word for a run of other     *)
(* characters, which nothing in either program looks into.                 *)
(***************************************************************************)
EXTENDS Integers, SequencesExt

CONSTANT Width   \* Width[w]: the characters of the word w

Quote == "\""
Backslash == "\\"
Space == " "
Slash == "/"

\* A character json.dumps writes as \uXXXX, or as \n and the like.
Special == "special"

Symbol == DOMAIN Width \cup {Quote, Backslash, Space, Slash, Special,
                             ":", ",", "[", "]", "{", "}"}

\* The words both programs write have a width; that of a key of a file is below
\* the 16 of its buffer.
ASSUME WidthAssumption ==
    /\ \A w \in DOMAIN Width : Width[w] \in Nat
    /\ {"platform", "fw_version", "build_date_utc", "git_commit", "files",
        "path", "sha256", "now", "unknown", "u00e9"} \subseteq DOMAIN Width
    /\ Width["path"] < 16 /\ Width["sha256"] < 16

WidthOf(symbol) == IF symbol \in DOMAIN Width THEN Width[symbol] ELSE 1

Characters(value) ==
    LET before[n \in 0..Len(value)] ==
            IF n = 0 THEN 0 ELSE before[n - 1] + WidthOf(value[n])
    IN  before[Len(value)]

-----------------------------------------------------------------------------
(* The packager.                                                           *)

Escaped(s) ==
    CASE s \in {Quote, Backslash} -> <<Backslash, s>>
      [] s = Special -> <<Backslash, "u00e9">>
      [] OTHER -> <<s>>

\* A JSON string.  "/" is written as it is.
String(value) ==
    <<Quote>> \o FlattenSeq([i \in DOMAIN value |-> Escaped(value[i])]) \o <<Quote>>

Member(key, value) == String(<<key>>) \o <<":", Space>> \o value

Separated(items) ==
    FlattenSeq([i \in DOMAIN items |->
        <<Space>> \o items[i] \o (IF i < Len(items) THEN <<",">> ELSE <<Space>>)])

Object(members) == <<"{">> \o Separated(members) \o <<"}">>

\* An empty list is written on one line.
List(items) == <<"[">> \o Separated(items) \o <<"]">>

\* A manifest: the platform and version of the command line, and the files.
dumps(m) ==
    Object(<<Member("platform", String(m.platform)),
             Member("fw_version", String(m.fw_version)),
             Member("build_date_utc", String(<<"now">>)),
             Member("git_commit", String(<<"unknown">>)),
             Member("files", List([i \in DOMAIN m.files |->
                 Object(<<Member("path", String(m.files[i].path)),
                          Member("sha256", String(m.files[i].sha256))>>)]))>>)

-----------------------------------------------------------------------------
(* The device.  Each loop is a function of how often it has been passed.   *)

Has(text, pos, symbol) == pos <= Len(text) /\ text[pos] = symbol

skip_json_whitespace(text, pos) ==
    Min({i \in pos..Len(text) : text[i] # Space} \cup {Len(text) + 1})

Failed(s) == [s EXCEPT !.state = "failed"]

Taken(s, symbol, cap, next) ==
    IF Characters(Append(s.value, symbol)) < cap
    THEN [s EXCEPT !.value = Append(@, symbol), !.next = next]
    ELSE Failed(s)

\* One pass of the loop of extract_json_string, and what follows the last.
StringPass(text, cap, s) ==
    CASE s.state # "reading" -> s
      [] s.state = "reading" /\ s.next > Len(text) -> Failed(s)
      [] s.state = "reading" /\ Has(text, s.next, Quote) ->
            [s EXCEPT !.state = "ok", !.next = @ + 1]
      [] s.state = "reading" /\ Has(text, s.next, Backslash) ->
            IF /\ s.next + 1 <= Len(text)
               /\ text[s.next + 1] \in {Quote, Backslash, Slash}
            THEN Taken(s, text[s.next + 1], cap, s.next + 2) ELSE Failed(s)
      [] OTHER -> Taken(s, text[s.next], cap, s.next + 1)

StringStart(text, pos) ==
    [value |-> <<>>, next |-> pos + 1,
     state |-> IF Has(text, pos, Quote) THEN "reading" ELSE "failed"]

\* Mutant: no escapes.
extract_json_string_Raw(text, pos, cap) ==
    LET ends == {i \in (pos + 1)..Len(text) : text[i] = Quote}
    IN  IF Has(text, pos, Quote) /\ ends # {}
        THEN [value |-> SubSeq(text, pos + 1, Min(ends) - 1),
              next |-> Min(ends) + 1, state |-> "ok"]
        ELSE [value |-> <<>>, next |-> pos, state |-> "failed"]

extract_json_string(text, pos, cap) ==
    LET after[n \in 0..(Len(text) + 1)] ==
            IF n = 0 THEN StringStart(text, pos)
            ELSE StringPass(text, cap, after[n - 1])
    IN  after[Len(text) + 1]

\* One "key": value of a file; the last of two with the same key counts.
Field(text, pos, s) ==
    LET key == extract_json_string(text, pos, 16)
        colon == skip_json_whitespace(text, key.next)
        value == extract_json_string(text, skip_json_whitespace(text, colon + 1),
                                     IF key.value = <<"path">> THEN 256 ELSE 65)
        read == /\ key.state = "ok" /\ value.state = "ok" /\ Has(text, colon, ":")
    IN  CASE read /\ key.value = <<"path">> ->
                [s EXCEPT !.next = value.next, !.path = value.value,
                          !.have = @ \cup {"path"}]
          [] read /\ key.value = <<"sha256">> /\ Characters(value.value) = 64 ->
                [s EXCEPT !.next = value.next, !.sha256 = value.value,
                          !.have = @ \cup {"sha256"}]
          [] OTHER -> Failed(s)

\* One pass of the loop over one {...}: both fields must have been there.
FilePass(text, s) ==
    LET pos == skip_json_whitespace(text, s.next)
    IN  CASE Has(text, pos, "}") ->
                IF s.have = {"path", "sha256"}
                THEN [s EXCEPT !.state = "list", !.next = pos + 1,
                               !.files = Append(@, [path |-> s.path,
                                                    sha256 |-> s.sha256])]
                ELSE Failed(s)
          [] Has(text, pos, ",") -> [s EXCEPT !.next = pos + 1]
          [] OTHER -> Field(text, pos, s)

\* Mutant: the end of the text ends the list too.
ListEnds_AtEnd(text, pos) == pos > Len(text) \/ Has(text, pos, "]")

ListEnds(text, pos) == Has(text, pos, "]")

\* One pass of the loop over the list.
ListPass(text, s) ==
    LET pos == skip_json_whitespace(text, s.next)
    IN  CASE ListEnds(text, pos) -> [s EXCEPT !.state = "ok"]
          [] Has(text, pos, ",") -> [s EXCEPT !.next = pos + 1]
          [] Has(text, pos, "{") ->
                [s EXCEPT !.state = "file", !.next = pos + 1, !.have = {}]
          [] OTHER -> Failed(s)

Pass(text, s) ==
    CASE s.state = "list" -> ListPass(text, s)
      [] s.state = "file" -> FilePass(text, s)
      [] OTHER -> s

ListStart(pos) ==
    [next |-> pos, path |-> <<>>, sha256 |-> <<>>, have |-> {}, files |-> <<>>,
     state |-> "list"]

FileList(text, pos) ==
    LET after[n \in 0..(Len(text) + 1)] ==
            IF n = 0 THEN ListStart(pos) ELSE Pass(text, after[n - 1])
    IN  after[Len(text) + 1]

\* {files} for OK, {} for MANIFEST_PARSE.  The key is looked for as text,
\* from the start, wherever it may be.
parse_manifest_files(text) ==
    LET keys == {i \in 1..(Len(text) - 2) :
                    SubSeq(text, i, i + 2) = <<Quote, "files", Quote>>}
        colon == skip_json_whitespace(text, Min(keys) + 3)
        bracket == skip_json_whitespace(text, colon + 1)
        end == FileList(text, bracket + 1)
    IN  IF /\ keys # {} /\ Has(text, colon, ":") /\ Has(text, bracket, "[")
           /\ end.state = "ok"
        THEN {end.files} ELSE {}

-----------------------------------------------------------------------------
(* What the packager may count on.                                         *)

\* A file whose manifest entry the device can read: no character of its path
\* but quotes and backslashes has to be escaped, and it is short enough.
Listable(file) ==
    /\ \A i \in DOMAIN file.path : file.path[i] # Special
    /\ Characters(file.path) <= 255

\* The search for the key stops at no value before it.
KeyIsFirst(m) ==
    \A value \in {m.platform, m.fw_version} :
        value # <<"files">> /\ ~IsSuffix(<<Quote, "files">>, value)

=============================================================================
