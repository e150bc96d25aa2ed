---- MODULE TaskSymbols ----
(* The expressions of task lists: the symbols of TaskDataSymbol and the scanner  *)
(* of TaskDataSymbolStream. A string (a task's name, an expression) is the       *)
(* sequence of its words and punctuation marks, so that "A@B" is <<"A","@","B">> *)
(* and white space is not there.                                                 *)
EXTENDS Naturals, Sequences, SequencesExt

Punctuation == {",", "(", ")", "{", "}", "@", "#", "*", "+", "^"}
SharpTypes == {"sub", "next", "on_error_next", "exceeded_next", "reduce_other_times",
               "self", "back", "none"}

\* A symbol has a name only if it is of type Name.
Symbol(type) == [type |-> type, name |-> <<>>]
NameSymbol(name) == [type |-> "Name", name |-> name]
IsName(symbol) == symbol.type = "Name"
IsSharpType(symbol) == symbol.type \in SharpTypes

\* What TaskDataSymbol::name() prints.
Printed(symbol) == IF IsName(symbol) THEN symbol.name ELSE <<symbol.type>>

\* "A" or "A@B" read as numbers: only these words are.
Numbers == [zero |-> 0, one |-> 1, two |-> 2, three |-> 3]
IsNumber(symbol) == IsName(symbol) /\ Len(symbol.name) = 1 /\ symbol.name[1] \in DOMAIN Numbers
NumberOf(symbol) == Numbers[symbol.name[1]]

\* A word is a sharp type only right after "#", which it replaces; if what stands
\* before the "#" can be a prefix, "@" is understood between the two.
ScanWord(stream, word) ==
  IF word \in SharpTypes /\ stream # <<>> /\ Last(stream) = Symbol("#")
  THEN LET before == Front(stream)
           prefixed == /\ before # <<>>
                       /\ \/ IsName(Last(before))
                          \/ IsSharpType(Last(before))
                          \/ Last(before) = Symbol(")")
       IN before \o (IF prefixed THEN <<Symbol("@")>> ELSE <<>>) \o <<Symbol(word)>>
  ELSE Append(stream, NameSymbol(<<word>>))

Scan(stream, token) ==
  IF token \in Punctuation THEN Append(stream, Symbol(token)) ELSE ScanWord(stream, token)

\* TaskDataSymbolStream::parse.
Parsed(expr) == Append(FoldLeft(Scan, <<>>, expr), Symbol("End"))

\* A name at its i-th "@": the prefix before it, the base after it.
Ats(name) == SelectSeq([i \in 1 .. Len(name) |-> i], LAMBDA i : name[i] = "@")
Before(name, at) == SubSeq(name, 1, at - 1)
After(name, at) == SubSeq(name, at + 1, Len(name))
AtJoined(prefix, name) == prefix \o <<"@">> \o name

\* TaskData::append_prefix of a name.
Prefixed(name, prefix) ==
  CASE prefix = <<>> -> name
    [] name = <<>> -> prefix
    [] Head(name) = "#" -> prefix \o name
    [] OTHER -> AtJoined(prefix, name)

\* What a name has between its "@"s, without what follows the last one.
Segments(name) ==
  {SubSeq(name, l + 1, r - 1) :
     <<l, r>> \in {<<l, r>> \in ({0} \cup ToSet(Ats(name))) \X ToSet(Ats(name)) :
                     l < r /\ \A m \in ToSet(Ats(name)) : ~(l < m /\ m < r)}}

\* TaskData::append_prefix of a list: an entry that has the prefix already stays.
PrefixedList(list, prefix) ==
  IF prefix = <<>> THEN list
  ELSE [i \in DOMAIN list |->
          IF prefix \in Segments(list[i]) THEN list[i] ELSE Prefixed(list[i], prefix)]
====
