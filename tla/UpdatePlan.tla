------------------------------ MODULE UpdatePlan ------------------------------
(* The plan file of MAA.Updater (MaaUpdater/main.cpp): its small JSON reader, and  *)
(* what it takes a path of the plan for.  A text is a sequence of symbols: a       *)
(* punctuation mark, a blank, a word, or the four digits of a \u escape.  What is  *)
(* read of a string is a sequence of symbols too.  Positions count from 1, and 0   *)
(* is npos.  RECURSIVE: this module is for TLC only.                               *)
EXTENDS Naturals, Sequences, SequencesExt, TLC

CONSTANTS
  Lower,      \* the words with capitals -> the same in small letters
  Digits,     \* the digits of \u escapes -> the symbol they stand for
  Root        \* the components of an absolute path, the drive first

Quote == "\""
Backslash == "\\"
Blanks == {" ", "\n"}
Nul == "NUL"
Half == "half"      \* one half of a surrogate pair, by itself in UTF-8
Unknown == "?"      \* U+FFFD, what such a half is converted to

-----------------------------------------------------------------------------
RECURSIVE ParseFrom(_, _, _), SkipNested(_, _, _, _, _), SkipPlain(_, _),
          SkipJsonWhitespace(_, _), FindFrom(_, _, _), ParseElements(_, _, _)

\* An escape at pos: \n is a line's end, any other mark or letter is itself.
Escape(json, pos, result) ==
  IF json[pos] = "u"
  THEN IF pos < Len(json)
       THEN ParseFrom(json, pos + 2, Append(result, Digits[json[pos + 1]]))
       ELSE ParseFrom(json, pos + 1, result)
  ELSE ParseFrom(json, pos + 1, Append(result, IF json[pos] = "n" THEN "\n" ELSE json[pos]))

\* A string from pos, after its opening quote, and the position after its closing one.
ParseFrom(json, pos, result) ==
  IF pos > Len(json) THEN [value |-> result, pos |-> pos]
  ELSE IF json[pos] = Quote THEN [value |-> result, pos |-> pos + 1]
  ELSE IF json[pos] = Backslash /\ pos < Len(json) THEN Escape(json, pos + 1, result)
  ELSE ParseFrom(json, pos + 1, Append(result, json[pos]))
ParseJsonString(json, pos) == ParseFrom(json, pos, <<>>)

SkipJsonWhitespace(json, pos) ==
  IF pos <= Len(json) /\ json[pos] \in Blanks THEN SkipJsonWhitespace(json, pos + 1) ELSE pos

\* Only marks of the same kind are counted, and none inside a string.
Deeper(depth, mark, open) ==
  CASE mark = open -> depth + 1
    [] open = "{" /\ mark = "}" -> depth - 1
    [] open = "[" /\ mark = "]" -> depth - 1
    [] OTHER -> depth
\* A mutant: what stands in a string is counted too.
SkipNested_strings(json, pos, open, depth, string) ==
  IF pos > Len(json) THEN pos
  ELSE IF Deeper(depth, json[pos], open) = 0 THEN pos + 1
  ELSE SkipNested(json, pos + 1, open, Deeper(depth, json[pos], open), string)
SkipNested(json, pos, open, depth, string) ==
  IF pos > Len(json) THEN pos
  ELSE IF string
       THEN SkipNested(json, IF json[pos] = Backslash THEN pos + 2 ELSE pos + 1, open, depth,
                       json[pos] # Quote)
       ELSE IF Deeper(depth, json[pos], open) = 0 THEN pos + 1
       ELSE SkipNested(json, pos + 1, open, Deeper(depth, json[pos], open), json[pos] = Quote)

SkipPlain(json, pos) ==
  IF pos > Len(json) \/ json[pos] \in {",", "}", "]"} \cup Blanks THEN pos
  ELSE SkipPlain(json, pos + 1)

SkipFrom(json, pos) ==
  CASE pos > Len(json) -> pos
    [] pos <= Len(json) /\ json[pos] = Quote -> ParseJsonString(json, pos + 1).pos
    [] pos <= Len(json) /\ json[pos] \in {"{", "["} -> SkipNested(json, pos + 1, json[pos], 1, FALSE)
    [] OTHER -> SkipPlain(json, pos)
SkipJsonValue(json, pos) == SkipFrom(json, SkipJsonWhitespace(json, pos))

\* After a member's ":".
Member(json, pos, found, key) ==
  CASE pos > Len(json) -> 0
    [] pos <= Len(json) /\ found = key -> pos
    [] OTHER -> FindFrom(json, SkipJsonWhitespace(json, SkipJsonValue(json, pos)), key)
Keyed(json, pos, found, key) ==
  IF pos > Len(json) \/ json[pos] # ":" THEN 0
  ELSE Member(json, SkipJsonWhitespace(json, pos + 1), found, key)
KeyAt(json, name, key) == Keyed(json, SkipJsonWhitespace(json, name.pos), name.value, key)

FindFrom(json, pos, key) ==
  IF pos > Len(json) \/ json[pos] = "}" THEN 0
  ELSE IF json[pos] # Quote THEN FindFrom(json, SkipJsonWhitespace(json, pos + 1), key)
  ELSE KeyAt(json, ParseJsonString(json, pos + 1), key)

Opened(json, pos, key) ==
  IF pos > Len(json) \/ json[pos] # "{" THEN 0
  ELSE FindFrom(json, SkipJsonWhitespace(json, pos + 1), key)
FindTopLevelJsonValueStartByKey(json, key) == Opened(json, SkipJsonWhitespace(json, 1), key)

\* The text up to its first NUL.
UpToNul(s) == IF Nul \in ToSet(s) THEN SubSeq(s, 1, SelectInSeq(s, LAMBDA c : c = Nul) - 1) ELSE s
Utf8ToWide(s) == [i \in DOMAIN UpToNul(s) |-> IF s[i] = Half THEN Unknown ELSE s[i]]

\* The strings of an array; whatever else it has is passed over.
AfterElement(json, s, result) == ParseElements(json, s.pos, Append(result, Utf8ToWide(s.value)))
ParseElements(json, pos, result) ==
  IF pos > Len(json) \/ json[pos] = "]" THEN result
  ELSE IF json[pos] # Quote THEN ParseElements(json, pos + 1, result)
  ELSE AfterElement(json, ParseJsonString(json, pos + 1), result)
ArrayAt(json, pos) ==
  IF pos = 0 \/ json[pos] # "[" THEN <<>> ELSE ParseElements(json, pos + 1, <<>>)
ParseJsonStringArray(json, key) == ArrayAt(json, FindTopLevelJsonValueStartByKey(json, key))

PropertyAt(json, pos) ==
  IF pos = 0 \/ json[pos] # Quote THEN <<>> ELSE Utf8ToWide(ParseJsonString(json, pos + 1).value)
ParseJsonStringProperty(json, key) == PropertyAt(json, FindTopLevelJsonValueStartByKey(json, key))

Missing == <<"missing">>
LoadPendingUpdatePlan(json) ==
  [ok |-> json \notin {Missing, <<>>},
   packageType |-> ParseJsonStringProperty(json, <<"packageType">>),
   removeList |-> ParseJsonStringArray(json, <<"removeList">>),
   moveList |-> ParseJsonStringArray(json, <<"moveList">>)]

-----------------------------------------------------------------------------
(* Paths.                                                                        *)

LowerCase(s) == [i \in DOMAIN s |-> IF s[i] \in DOMAIN Lower THEN Lower[s[i]] ELSE s[i]]
EqualsIgnoreCase(left, right) == LowerCase(left) = right

Slashed(s) == [i \in DOMAIN s |-> IF s[i] = "/" THEN Backslash ELSE s[i]]
EnsureTrailingSeparator(s) == IF s # <<>> /\ Last(s) # Backslash THEN Append(s, Backslash) ELSE s
RECURSIVE Stripped(_, _)
Stripped(s, marks) == IF s # <<>> /\ Last(s) \in marks THEN Stripped(Front(s), marks) ELSE s
NormalizeRelativePath(s) == Stripped(Slashed(s), {Backslash, " "})

IsRecycleAndReplaceDirectory(s) ==
  \/ EqualsIgnoreCase(NormalizeRelativePath(s), <<"resource">>)
  \/ EqualsIgnoreCase(NormalizeRelativePath(s), <<"externals">>)

\* GetFullPathNameW: "." is dropped, ".." drops what is before it, down to the drive.
Entered(path, name) ==
  CASE name \in {Backslash, "."} -> path
    [] name = ".." -> IF Len(path) > 1 THEN Front(path) ELSE path
    [] OTHER -> Append(path, name)
Joined(path) ==
  [i \in 1 .. 2 * Len(path) - 1 |-> IF i % 2 = 1 THEN path[(i + 1) \div 2] ELSE Backslash]
GetFullPathName(s) ==
  IF Last(s) = Backslash THEN EnsureTrailingSeparator(Joined(FoldLeft(Entered, <<>>, s)))
  ELSE Joined(FoldLeft(Entered, <<>>, s))

Drives == {"C:", "D:"}
IsDriveRootDirectory(s) ==
  s # <<>> /\ Len(Stripped(GetFullPathName(s), {Backslash})) = 1 /\ s[1] \in Drives

Refused == <<>>
IsUnder(candidate, root) ==
  Len(candidate) >= Len(root) /\ LowerCase(SubSeq(candidate, 1, Len(root))) = LowerCase(root)
Candidate(candidate, root) ==
  IF IsUnder(candidate, EnsureTrailingSeparator(root)) THEN candidate ELSE Refused
TryResolvePathUnderRoot(root, rel) ==
  IF ToSet(rel) \subseteq {" "} \/ rel[1] \in Drives \/ Slashed(rel)[1] = Backslash THEN Refused
  ELSE Candidate(GetFullPathName(root \o <<Backslash>> \o Slashed(rel)), GetFullPathName(root))
=============================================================================
