---- MODULE TaskExpressions ----
(* What the expressions of task lists are to mean, by the comments of the source:  *)
(* an expression is a tree, printed as the grammar at TaskDataSymbolStream.cpp:84 *)
(* has it ("@" binds closest and from the left, then "*", then "+" and "^", from   *)
(* the right), and its meaning is put together from those of its parts.           *)
EXTENDS TaskData

\* A table of two tasks, and the owner of the list that is read.
Owner == <<"O">>
Table == (<<"A">> :> [next |-> <<<<"B">>>>]) @@ (<<"B">> :> [next |-> <<<<"A">>, <<"B">>>>])
          @@ (Owner :> <<>>)

Leaf(kind) == [op |-> "leaf", kind |-> kind]
Node(op, left, right) == [op |-> op, left |-> left, right |-> right]

Leaves == {Leaf("A"), Leaf("B"), Leaf("#self")}
Simple ==
  Leaves \cup {Node(op, l, r) : op \in {"+", "^", "@"}, l \in Leaves, r \in Leaves}
         \cup {Node("*", l, n) : l \in Leaves, n \in {"zero", "two"}}
Named == {e \in Simple : e.op \in {"leaf", "+"} /\ (e.op = "leaf" => e # Leaf("#self"))
                         /\ (e.op = "+" => Leaf("#self") \notin {e.left, e.right})}
Expressions ==
  Simple \cup {Node(op, l, r) : op \in {"+", "^", "@"}, l \in Simple, r \in Leaves}
         \cup {Node(op, l, r) : op \in {"+", "^", "@"}, l \in Leaves, r \in Simple}
         \cup {Node("*", l, "two") : l \in Simple}
         \cup {Node("#", l, type) : l \in Named, type \in {"next", "back", "none"}}

Level(e) ==
  CASE e.op \in {"+", "^"} -> 1
    [] e.op = "*" -> 2
    [] e.op \in {"@", "#"} -> 3
    [] e.op = "leaf" -> 4

RECURSIVE Text(_), Meaning(_)

Within(level, e) == IF Level(e) < level THEN <<"(">> \o Text(e) \o <<")">> ELSE Text(e)
Text(e) ==
  CASE e.op = "leaf" -> IF e.kind = "#self" THEN <<"#", "self">> ELSE <<e.kind>>
    [] e.op = "*" -> Within(3, e.left) \o <<"*", e.right>>
    [] e.op = "#" -> Within(3, e.left) \o <<"#", e.right>>
    [] e.op = "@" -> Within(3, e.left) \o <<"@">> \o Within(4, e.right)
    [] e.op \in {"+", "^"} -> Within(2, e.left) \o <<e.op>> \o Within(1, e.right)

\* The names an expression stands for, and #self.  "A@#self is A and not A@self_name,
\* #self@A is self_name@A and not A" (TaskDataSymbol.cpp:10).
Self == <<"#self">>
Join(x, y) == IF y = Self THEN x ELSE AtJoined(IF x = Self THEN Owner ELSE x, y)
Meaning(e) ==
  CASE e.op = "leaf" -> <<<<e.kind>>>>
    [] e.op = "+" -> Meaning(e.left) \o Meaning(e.right)
    [] e.op = "^" -> SelectSeq(Meaning(e.left), LAMBDA x : x \notin ToSet(Meaning(e.right)))
    [] e.op = "*" -> FlattenSeq([i \in 1 .. Numbers[e.right] |-> Meaning(e.left)])
    [] e.op = "@" -> FlattenSeq([i \in DOMAIN Meaning(e.left) |->
                       [j \in DOMAIN Meaning(e.right) |-> Join(Meaning(e.left)[i], Meaning(e.right)[j])]])
    [] e.op = "#" /\ e.right = "next" ->
         FlattenSeq([i \in DOMAIN Meaning(e.left) |-> Table[Meaning(e.left)[i]].next])
    [] e.op = "#" /\ e.right = "back" -> Meaning(e.left)
    [] e.op = "#" /\ e.right = "none" -> <<>>

Names(e) == [i \in DOMAIN Meaning(e) |-> IF Meaning(e)[i] = Self THEN Owner ELSE Meaning(e)[i]]
Once(names) == FoldLeft(LAMBDA acc, n : IF Contains(acc, n) THEN acc ELSE Append(acc, n), <<>>, names)

\* Where the source does what another comment than its own says: a prefix before
\* #self, and "^" in a row of sums without parentheses.
RECURSIVE SelfPrefixed(_)
SelfPrefixed(e) ==
  CASE e.op = "leaf" -> FALSE
    [] e.op \in {"*", "#"} -> SelfPrefixed(e.left)
    [] e.op \in {"+", "^", "@"} ->
         \/ SelfPrefixed(e.left) \/ SelfPrefixed(e.right)
         \/ e.op = "@" /\ Self \in ToSet(Meaning(e.right))
RowWithout(e) ==
  /\ e.op \in {"+", "^"} /\ e.right.op \in {"+", "^"}
  /\ "^" \in {e.op, e.right.op}

\* The list that TaskData makes of the text is the meaning of the tree.
MeansWhatItSays(e, dup) ==
  LET c == CompileTasklist(ClearTasks([EmptyData EXCEPT !.json = Table]), <<Text(e)>>, Owner, dup)
  IN c.ok /\ c.tasks = IF dup THEN Names(e) ELSE Once(Names(e))
====
