----------------------------- MODULE MCUpdater -----------------------------
\* OTA packages, a full one, and one that is refused half way: a directory it
\* may not remove, then a path that leaves the installation.
EXTENDS UpdaterProcess, UpdatePlan

CONSTANTS exe, gone, res, lib, tmp, fresh, out

MCPlan == {
  [full |-> FALSE, remove |-> <<gone>>, move |-> <<exe>>],
  [full |-> FALSE, remove |-> <<>>, move |-> <<fresh, exe>>],
  [full |-> TRUE, remove |-> <<tmp>>, move |-> <<res, lib>>],
  [full |-> FALSE, remove |-> <<lib>>, move |-> <<exe, out>>]}

-----------------------------------------------------------------------------
(* The texts of a plan.  The program that writes it is not in the repository: the  *)
(* format is that of main.cpp:12, in any spelling JSON and Windows have for it.    *)

MCRoot == <<"C:", "\\", "Maa", "\\", "App">>
MCDriveRoot == IsDriveRootDirectory(MCRoot)
MCLower == ("FULL" :> "full" @@ "Resource" :> "resource" @@ "App" :> "app" @@ "Maa" :> "maa")
MCDigits == ("002F" :> "/" @@ "005C" :> "\\" @@ "D83D" :> Half @@ "0000" :> Nul)

\* The ways to write a path: its components, "" for nothing between two separators.
Ways(p) ==
  CASE p = exe -> <<<<"MAA.exe">>>>
    [] p = gone -> <<<<"debug", "old.dll">>>>
    [] p = res -> <<<<"resource">>, <<"Resource">>, <<"resource", "">>, <<"resource ">>>>
    [] p = lib -> <<<<"data", "lib">>, <<"data", ".", "lib">>, <<"data", "x", "..", "lib">>>>
    [] p = tmp -> <<<<"tmp">>>>
    [] p = fresh -> <<<<"data", "]">>>>
    [] p = out -> <<<<"..", "other">>, <<"data", "..", "..", "other">>, <<"C:", "other">>,
                    <<"", "other">>, <<" ">>, <<"..", "..", "..", "..">>>>
Way(p, n) == Ways(p)[1 + (n % Len(Ways(p)))]

Slashes == {<<"/">>, <<"\\", "/">>, <<"\\", "\\">>, <<"\\", "u", "002F">>, <<"\\", "u", "005C">>}
Spelt(name) ==
  CASE name = "" -> <<>>
    [] name = "resource " -> <<"resource", " ">>
    [] OTHER -> <<name>>
Separated(names, slash) ==
  FlattenSeq([i \in DOMAIN names |-> (IF i = 1 THEN <<>> ELSE slash) \o Spelt(names[i])])

\* f: the form of the text, see Forms.
Mark(f, mark) == f.blank \o <<mark>> \o f.blank
Quoted(s) == <<"\"">> \o s \o <<"\"">>
Commas(f, items) ==
  FlattenSeq([i \in DOMAIN items |-> (IF i = 1 THEN <<>> ELSE Mark(f, ",")) \o items[i]])
Listing(f, key, paths) ==
  Quoted(<<key>>) \o Mark(f, ":") \o Mark(f, "[")
    \o Commas(f, [i \in DOMAIN paths |-> Quoted(Separated(Way(paths[i], f.way), f.slash))])
    \o Mark(f, "]")
Type(f, pl) ==
  Quoted(<<"packageType">>) \o Mark(f, ":") \o Quoted(<<IF pl.full THEN f.full ELSE "ota">>)

\* A member of another name may hold what belongs to the plan's own.
Note == {
  Quoted(<<"removeList">>),
  <<"12">>,
  <<"{">> \o Quoted(<<"removeList">>) \o <<":", "[">> \o Quoted(<<"a">>) \o <<"]", "}">>,
  <<"[">> \o Quoted(<<"}", "]", "\\", "\"", "]">>) \o <<",", "[", "]", "]">>,
  <<"{">> \o Quoted(<<"a", "}">>) \o <<":", "null", "}">>,
  Quoted(<<"\\", "\"", ",", "moveList">>)}

Forms ==
  [order : {<<"type", "remove", "move", "note">>, <<"note", "move", "remove", "type">>,
            <<"move", "note", "type", "remove">>},
   note : Note, blank : {<<>>, <<" ", "\n">>}, slash : Slashes, way : 0 .. 5,
   full : {"full", "FULL"}]
MemberOf(f, pl, m) ==
  CASE m = "type" -> Type(f, pl)
    [] m = "remove" -> Listing(f, "removeList", pl.remove)
    [] m = "move" -> Listing(f, "moveList", pl.move)
    [] m = "note" -> Quoted(<<"note">>) \o Mark(f, ":") \o f.note
Text(f, pl) ==
  Mark(f, "{") \o Commas(f, [i \in DOMAIN f.order |-> MemberOf(f, pl, f.order[i])]) \o Mark(f, "}")

-----------------------------------------------------------------------------
Canonical(p) ==
  IF p \in Illegal THEN Refused ELSE MCRoot \o <<"\\">> \o Separated(Ways(p)[1], <<"\\">>)
Means(rel, p) ==
  /\ Stripped(LowerCase(TryResolvePathUnderRoot(MCRoot, rel)), {"\\", " "}) = LowerCase(Canonical(p))
  /\ IsRecycleAndReplaceDirectory(rel) = (p \in Recycled)
MeansAll(rels, paths) ==
  Len(rels) = Len(paths) /\ \A i \in DOMAIN paths : Means(rels[i], paths[i])
ReadAs(read, pl) ==
  /\ read.ok
  /\ EqualsIgnoreCase(read.packageType, <<"full">>) = pl.full
  /\ MeansAll(read.removeList, pl.remove) /\ MeansAll(read.moveList, pl.move)
ReadRight == {pl \in Plan : \A f \in Forms : ReadAs(LoadPendingUpdatePlan(Text(f, pl)), pl)}

\* The plan is read as it was written, in whatever form the writer chose: its members
\* in any order and among others that look like them, blanks or none, each separator
\* as it is or escaped; a path that leaves the installation in any way is refused, and
\* the two directories that go to the recycle bin are known in any spelling.
PlanAsWritten == stage = "wait" /\ run = 1 => plan \in ReadRight
=============================================================================
