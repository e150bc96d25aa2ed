---- MODULE TaskData ----
(* TaskData: tasks are generated from JSON when they are asked for, from the     *)
(* tasks they are based on and from expressions that name the lists of others.   *)
(* Every operator takes what the singleton keeps, td, and returns what it keeps   *)
(* afterwards, since being asked is what changes it:                             *)
(*   td.json      the task definitions of the files, merged                      *)
(*   td.status    TaskStatus; a name it does not have is "NotToBeGenerate"       *)
(*   td.raw       tasks whose lists are still expressions                        *)
(*   td.all       generated tasks                                                *)
(*   td.required  the template files the generated tasks name                    *)
(* RECURSIVE: this module is for TLC only.                                       *)
EXTENDS TaskSymbols, FiniteSets, TLC

CONSTANT MaxTasks       \* 65535 in get()

Lists == <<"next", "sub", "exceeded_next", "on_error_next", "reduce_other_times">>
AllowsDuplicates(list) == list \in {"sub", "reduce_other_times"}

NoTask == [name |-> <<>>]
Bad == "bad"            \* a JSON value of the wrong type
BadNames == <<"#bad">>  \* the same where a name or a list of names stands
Unset == "unset"        \* what is left of a value that was not read

\* default_task_info_ptr, and what an algorithm's own default has.
DefaultTask ==
  [name |-> <<>>, algorithm |-> "MatchTemplate", attr |-> "default", spec |-> "default",
   templ |-> <<"__INVALID__">>, lists |-> [l \in ToSet(Lists) |-> <<>>]]
UsesTemplate(algorithm) == algorithm \in {"MatchTemplate", "FeatureMatch"}
Algorithms == {"MatchTemplate", "OcrDetect", "FeatureMatch", "JustReturn"}

EmptyData == [json |-> <<>>, status |-> <<>>, raw |-> <<>>, all |-> <<>>, required |-> {}]

\* utils::get_value_or for a value and for a list (which a bad value leaves empty).
ValueOr(json, key, default) ==
  IF key \notin DOMAIN json THEN default ELSE IF json[key] = Bad THEN Unset ELSE json[key]
ListOr(json, key, default) ==
  IF key \notin DOMAIN json THEN default ELSE IF json[key] = BadNames THEN <<>> ELSE json[key]

Status(td, name) == IF name \in DOMAIN td.status THEN td.status[name] ELSE "NotToBeGenerate"
SetStatus(td, name, status) == [td EXCEPT !.status = (name :> status) @@ @]
JsonOf(td, name) == IF name \in DOMAIN td.json THEN td.json[name] ELSE <<>>

-----------------------------------------------------------------------------
(* Raw tasks: a task's base, and its lists before they are read.               *)

RECURSIVE GenerateRawTaskAndBase(_, _, _), BaseFrom(_, _, _)

GetRaw(td, name) ==
  LET r == GenerateRawTaskAndBase(td, name, TRUE)
  IN [td |-> r.td, task |-> IF r.ok THEN r.td.raw[name] ELSE NoTask]

GenerateRawTaskInfo(td, name, raw_prefix, base, type) ==
  LET got == IF base = <<>> THEN [td |-> td, task |-> NoTask] ELSE GetRaw(td, base)
      found == got.task # NoTask
      prefix == IF found THEN raw_prefix ELSE <<>>
      inherited(l) == IF found THEN got.task.lists[l] ELSE <<>>
      task == [name |-> name, type |-> type, base |-> base, prefix |-> prefix,
               lists |-> [l \in ToSet(Lists) |->
                            ListOr(JsonOf(td, name), l, PrefixedList(inherited(l), prefix))]]
  IN [td |-> [SetStatus(got.td, name, "NotToBeGenerate") EXCEPT !.raw = (name :> task) @@ @],
      ok |-> TRUE]

\* The first base of name from its i-th "@" on that exists; at is 0 if none does.
BaseFrom(td, name, i) ==
  IF i > Len(Ats(name)) THEN [td |-> td, at |-> 0]
  ELSE LET r == GenerateRawTaskAndBase(td, After(name, Ats(name)[i]), FALSE)
       IN IF r.ok THEN [td |-> r.td, at |-> Ats(name)[i]] ELSE BaseFrom(r.td, name, i + 1)

\* A task that is in no file: implicit if it has a base, and else remembered as missing.
GenerateImplicit(td, name) ==
  LET b == BaseFrom(td, name, 1)
  IN IF b.at # 0
     THEN GenerateRawTaskInfo(b.td, name, Before(name, b.at), After(name, b.at), "Implicit")
     ELSE [td |-> SetStatus(b.td, name, "NotExists"), ok |-> FALSE]

\* A task of a file: it says its base, or is named after it, or has none.
GenerateExplicit(td, name) ==
  LET generating == SetStatus(td, name, "Generating")
  IN IF "baseTask" \in DOMAIN td.json[name]
     THEN LET base == td.json[name].baseTask
              r == GenerateRawTaskAndBase(generating, base, TRUE)
          IN IF r.ok THEN GenerateRawTaskInfo(r.td, name, <<>>, base, "BaseTask") ELSE r
     ELSE LET b == BaseFrom(generating, name, 1)
          IN IF b.at # 0
             THEN GenerateRawTaskInfo(b.td, name, Before(name, b.at), After(name, b.at), "Template")
             ELSE GenerateRawTaskInfo(b.td, name, <<>>, <<>>, "Raw")

GenerateRawTaskAndBase(td, name, allow_implicit) ==
  CASE Status(td, name) = "NotToBeGenerate" ->
         IF name \in DOMAIN td.raw THEN [td |-> td, ok |-> TRUE]
         ELSE IF allow_implicit THEN GenerateImplicit(td, name) ELSE [td |-> td, ok |-> FALSE]
    [] Status(td, name) = "ToBeGenerate" -> GenerateExplicit(td, name)
    [] OTHER -> [td |-> td, ok |-> FALSE]          \* NotExists; Generating: a cycle

-----------------------------------------------------------------------------
(* TaskDataSymbolStream::decode, by recursive descent. c is the context: td, the  *)
(* stream and the place in it, whose list is read and whether it may repeat.     *)

RECURSIVE DecodeTasks(_), CompileFrom(_, _, _, _, _, _, _)

Current(c) == c.stream[c.at]
Advance(c) == [c EXCEPT !.at = @ + 1]
Yields(c, symbols) == [ok |-> TRUE, symbols |-> symbols, c |-> c]
Fails(c) == [ok |-> FALSE, symbols |-> <<>>, c |-> c]

CompileRawTasklist(td, exprs, self_name, dup) == CompileFrom(td, exprs, self_name, dup, 1, {}, <<>>)

\* TaskDataSymbol::append_prefix: prefix @ symbol.
Listed(c, list) ==
  IF list.ok THEN Yields([c EXCEPT !.td = list.td], list.symbols)
  ELSE Fails([c EXCEPT !.td = list.td])
ListOf(c, symbol, raw) ==
  IF raw.task = NoTask THEN Fails([c EXCEPT !.td = raw.td])
  ELSE Listed(c, CompileRawTasklist(raw.td, raw.task.lists[symbol.type], c.self, c.dup))
NamePrefixed(c, symbol, name) ==
  CASE name = <<>> \/ symbol.type \in {"none", "self"} -> Yields(c, <<symbol>>)
    [] name # <<>> /\ IsName(symbol) -> Yields(c, <<NameSymbol(AtJoined(name, symbol.name))>>)
    [] name # <<>> /\ symbol = Symbol("back") -> Yields(c, <<NameSymbol(name)>>)
    [] OTHER -> ListOf(c, symbol, GetRaw(c.td, name))
AppendPrefix(c, symbol, prefix) ==
  IF ~IsName(prefix) /\ prefix # Symbol("self") THEN Fails(c)
  ELSE NamePrefixed(c, symbol, IF IsName(prefix) THEN prefix.name ELSE c.self)

DecodeNameOrVtask(c) ==
  IF IsName(Current(c)) \/ IsSharpType(Current(c))
  THEN Yields(Advance(c), <<Current(c)>>) ELSE Fails(c)

Closed(r) ==
  IF r.ok /\ Current(r.c) = Symbol(")") THEN Yields(Advance(r.c), r.symbols) ELSE Fails(r.c)
DecodeParens(c) ==
  IF Current(c) = Symbol("(") THEN Closed(DecodeTasks(Advance(c))) ELSE DecodeNameOrVtask(c)

\* (A+B)@(C+D) = A@C + A@D + B@C + B@D
RECURSIVE DecodeVtasksFrom(_), DecodeMultasksFrom(_), DecodeTasksFrom(_)

Pairs(xs, ys) ==
  FlattenSeq([i \in DOMAIN xs |-> [j \in DOMAIN ys |-> <<xs[i], ys[j]>>]])
Paired(r, p) ==
  IF ~r.ok THEN r ELSE [AppendPrefix(r.c, p[2], p[1]) EXCEPT !.symbols = r.symbols \o @]
Crossed(x, y) ==
  IF ~y.ok THEN y
  ELSE DecodeVtasksFrom(FoldLeft(Paired, Yields(y.c, <<>>), Pairs(x.symbols, y.symbols)))
DecodeVtasksFrom(x) ==
  IF ~x.ok \/ Current(x.c) # Symbol("@") THEN x
  ELSE Crossed(x, DecodeParens(Advance(x.c)))

\* "* n" repeats what stands before it; "* 0" leaves nothing.
Multiplied(x, y) ==
  IF ~y.ok \/ ~IsNumber(y.symbols[1]) THEN Fails(y.c)
  ELSE DecodeMultasksFrom(Yields(y.c, FlattenSeq([i \in 1 .. NumberOf(y.symbols[1]) |-> x.symbols])))
DecodeMultasksFrom(x) ==
  IF ~x.ok \/ Current(x.c) # Symbol("*") THEN x
  ELSE Multiplied(x, DecodeNameOrVtask(Advance(x.c)))

\* A mutant: "*" binds as closely as "@".
DecodeMultasks_bindsClosest(c) == DecodeVtasksFrom(DecodeMultasksFrom(DecodeParens(c)))
DecodeMultasks(c) == DecodeMultasksFrom(DecodeVtasksFrom(DecodeParens(c)))

\* "+" joins; "^" takes away, the owner of the list for #self too.
Without(c, x, y) ==
  SelectSeq(x, LAMBDA s : /\ s \notin ToSet(y)
                          /\ ~(s = NameSymbol(c.self) /\ Symbol("self") \in ToSet(y)))
Combined(x, y) ==
  IF ~y.ok THEN y
  ELSE DecodeTasksFrom(Yields(y.c, IF Current(x.c) = Symbol("+") THEN x.symbols \o y.symbols
                                   ELSE Without(y.c, x.symbols, y.symbols)))
DecodeTasksFrom(x) ==
  IF ~x.ok \/ Current(x.c) \notin {Symbol("+"), Symbol("^")} THEN x
  ELSE Combined(x, DecodeMultasks(Advance(x.c)))

DecodeTasks(c) == DecodeTasksFrom(DecodeMultasks(c))

Decoded(r) == [td |-> r.c.td, ok |-> r.ok /\ Current(r.c) = Symbol("End"), symbols |-> r.symbols]
Decode(td, expr, self_name, dup) ==
  Decoded(DecodeTasks([td |-> td, stream |-> Parsed(expr), at |-> 1, self |-> self_name, dup |-> dup]))

-----------------------------------------------------------------------------
(* Task lists: compile_raw_tasklist and compile_tasklist.                        *)

\* symbols, after what is seen, without what may not be repeated.
AddNew(seen, symbols, dup) ==
  FoldLeft(LAMBDA acc, s : IF ~dup /\ Printed(s) \in acc.seen THEN acc
                           ELSE [seen |-> acc.seen \cup {Printed(s)}, new |-> Append(acc.new, s)],
           [seen |-> seen, new |-> <<>>], symbols)

CompileRest(d, exprs, self_name, dup, i, seen, symbols) ==
  IF ~d.ok THEN [td |-> d.td, ok |-> FALSE, symbols |-> <<>>]
  ELSE LET added == AddNew(seen, d.symbols, dup)
       IN CompileFrom(d.td, exprs, self_name, dup, i + 1,
                      added.seen \cup {exprs[i]}, symbols \o added.new)
CompileFrom(td, exprs, self_name, dup, i, seen, symbols) ==
  IF i > Len(exprs) THEN [td |-> td, ok |-> TRUE, symbols |-> symbols]
  ELSE IF exprs[i] = <<>> \/ (~dup /\ exprs[i] \in seen)
       THEN CompileFrom(td, exprs, self_name, dup, i + 1, seen, symbols)
       ELSE CompileRest(Decode(td, exprs[i], self_name, dup), exprs, self_name, dup, i, seen, symbols)

\* The names the symbols stand for: #self is the owner, #none and the like nothing.
TasksOf(raw, self_name, dup) ==
  LET named == SelectSeq(raw.symbols, LAMBDA s : IsName(s) \/ s = Symbol("self"))
      names == [i \in DOMAIN named |->
                  NameSymbol(IF IsName(named[i]) THEN named[i].name ELSE self_name)]
      added == AddNew({}, names, dup).new
  IN [td |-> raw.td, ok |-> raw.ok, tasks |-> [i \in DOMAIN added |-> added[i].name]]
CompileTasklist(td, exprs, self_name, dup) ==
  TasksOf(CompileRawTasklist(td, exprs, self_name, dup), self_name, dup)

-----------------------------------------------------------------------------
(* Tasks: generate_task_info and get.                                            *)

RECURSIVE GenerateTaskInfo(_, _)

Store(td, name, task) ==
  IF Cardinality(DOMAIN td.all) < MaxTasks THEN [td EXCEPT !.all = (name :> task) @@ @] ELSE td

Stored(g, name) ==
  IF g.task = NoTask THEN g ELSE [td |-> Store(g.td, name, g.task), task |-> g.task]
Get(td, name) ==
  IF name \in DOMAIN td.all THEN [td |-> td, task |-> td.all[name]]
  ELSE Stored(GenerateTaskInfo(td, name), name)

\* generate_match_task_info, generate_feature_match_task_info: the template is the
\* task's own file unless the task is implicit. A bad template is not entered in
\* what is required, any other bad value comes too late for that.
TemplateOf(json, raw, base) ==
  IF "template" \in DOMAIN json THEN json.template
  ELSE IF raw.type = "Implicit" /\ UsesTemplate(base.algorithm) THEN base.templ ELSE raw.name

\* What the algorithm's own generator makes of the JSON; it inherits only from a
\* base with the same algorithm. OCR takes a bad value for one that is not set.
Inherited(json, base, algorithm) ==
  ValueOr(json, "spec", IF base.algorithm = algorithm THEN base.spec ELSE "default")
Templated(td, templ, spec) ==
  IF templ = BadNames THEN [td |-> td, ok |-> FALSE, templ |-> <<>>, spec |-> Unset]
  ELSE [td |-> [td EXCEPT !.required = @ \cup {templ}], ok |-> spec # Unset,
        templ |-> templ, spec |-> spec]
MatchSpecifics(td, json, raw, base) ==
  Templated(td, TemplateOf(json, raw, base), Inherited(json, base, "MatchTemplate"))
FeatureSpecifics(td, json, raw, base) ==
  Templated(td, TemplateOf(json, raw, base), Inherited(json, base, "FeatureMatch"))
OcrSpecifics(td, json, base) ==
  [td |-> td, ok |-> TRUE, templ |-> <<>>, spec |-> Inherited(json, base, "OcrDetect")]

Specifics(td, json, raw, base, algorithm) ==
  CASE algorithm = "MatchTemplate" -> MatchSpecifics(td, json, raw, base)
    [] algorithm = "FeatureMatch" -> FeatureSpecifics(td, json, raw, base)
    [] algorithm = "OcrDetect" -> OcrSpecifics(td, json, base)
    [] algorithm = "JustReturn" -> [td |-> td, ok |-> TRUE, templ |-> <<>>, spec |-> "default"]
    [] algorithm \notin Algorithms -> [td |-> td, ok |-> FALSE, templ |-> <<>>, spec |-> Unset]

\* Reads the task's lists one after the other, up to the first that cannot be read.
ReadLists(td, json, raw) ==
  LET with(acc, l, c) == [td |-> c.td, ok |-> c.ok, lists |-> (l :> c.tasks) @@ acc.lists]
      read(acc, l) ==
        IF ~acc.ok THEN acc
        ELSE with(acc, l, CompileTasklist(acc.td, ListOr(json, l, raw.lists[l]), raw.name,
                                          AllowsDuplicates(l)))
  IN FoldLeft(read, [td |-> td, ok |-> TRUE, lists |-> <<>>], Lists)

IllFormed(td, name, raw) ==
  \/ raw.type = "Raw" /\ (name \notin DOMAIN td.json \/ raw.base # <<>>)
  \/ raw.type # "Raw" /\ raw.base = <<>>
  \/ raw.type \in {"Implicit", "Template"} /\ raw.prefix = <<>>
  \/ raw.type \in {"Raw", "BaseTask"} /\ raw.prefix # <<>>

Generated(json, name, base, own, read) ==
  IF ~read.ok THEN [td |-> read.td, task |-> NoTask]
  ELSE [td |-> read.td,
        task |-> [name |-> name, algorithm |-> ValueOr(json, "algorithm", base.algorithm),
                  attr |-> ValueOr(json, "attr", base.attr),
                  spec |-> own.spec, templ |-> own.templ, lists |-> read.lists]]

GenerateLists(json, name, raw, base, own) ==
  IF ~own.ok THEN [td |-> own.td, task |-> NoTask]
  ELSE Generated(json, name, base, own, ReadLists(own.td, json, raw))

\* base is the task it is based on, with what TaskData keeps then.
GenerateFromBase(json, name, raw, base) ==
  IF base.task = NoTask THEN base
  ELSE GenerateLists(json, name, raw, base.task,
         Specifics(base.td, json, raw, base.task, ValueOr(json, "algorithm", base.task.algorithm)))

GenerateFromRaw(td, name, raw) ==
  IF raw = NoTask \/ IllFormed(td, name, raw) THEN [td |-> td, task |-> NoTask]
  ELSE GenerateFromBase(JsonOf(td, name), name, raw,
         IF raw.base = <<>> THEN [td |-> td, task |-> DefaultTask] ELSE Get(td, raw.base))

GenerateWith(got, name) == GenerateFromRaw(got.td, name, got.task)
GenerateTaskInfo(td, name) == GenerateWith(GetRaw(td, name), name)

-----------------------------------------------------------------------------
(* Loading: lazy_parse, parse and the syntax check of the debug build.           *)

\* What a name missing from the files was remembered as stays. A mutant: the
\* generated tasks stay too.
ClearTasks_keepsAll(td) ==
  [td EXCEPT !.raw = <<>>, !.status = [n \in DOMAIN td.json |-> "ToBeGenerate"] @@ @]
ClearTasks(td) ==
  [td EXCEPT !.all = <<>>, !.raw = <<>>,
             !.status = [n \in DOMAIN td.json |-> "ToBeGenerate"] @@ @]

\* A task that says its base replaces the one of that name, any other adds to it.
Merged(json, file) ==
  [n \in DOMAIN json \cup DOMAIN file |->
     IF n \notin DOMAIN file THEN json[n]
     ELSE IF "baseTask" \in DOMAIN file[n]
          THEN IF file[n].baseTask = <<"#", "none">>
               THEN [k \in DOMAIN file[n] \ {"baseTask"} |-> file[n][k]] ELSE file[n]
          ELSE IF n \in DOMAIN json THEN file[n] @@ json[n] ELSE file[n]]

LazyParse(td, file) == ClearTasks([td EXCEPT !.json = Merged(@, file)])

\* Release: every task of the files is generated once, in the order of a hash map,
\* so that the template files are known.
GenerateAll(td, order) == FoldLeft(LAMBDA acc, n : GenerateTaskInfo(acc, n).td, td, order)

\* The keys a task may have, without those a comment key excuses.
CommonKeys == {"algorithm", "baseTask", "attr"} \cup ToSet(Lists)
AllowedKeys(algorithm) ==
  CommonKeys \cup (IF UsesTemplate(algorithm) THEN {"template"} ELSE {})
             \cup (IF algorithm = "JustReturn" THEN {} ELSE {"spec"})
WellWritten(g, keys) ==
  [td |-> g.td, ok |-> g.task # NoTask /\ keys \subseteq AllowedKeys(g.task.algorithm)]
SyntaxCheck(td, name) == WellWritten(Get(td, name), DOMAIN td.json[name])

\* One entry of a task's list: it must be generated, be looked at in its turn, and
\* not stand after a JustReturn task, which is always a match.
\* A mutant: an entry that cannot be generated is passed over.
Enqueued(acc, entry, g) ==
  [acc EXCEPT !.td = g.td, !.seen = @ \cup {entry},
              !.queue = IF entry \in acc.checking THEN @ ELSE Append(@, entry),
              !.checking = @ \cup {entry}]
CheckGot_passesOver(acc, entry, last_only, g) ==
  IF g.task = NoTask THEN [acc EXCEPT !.td = g.td] ELSE Enqueued(acc, entry, g)
CheckGot(acc, entry, last_only, g) ==
  IF g.task = NoTask THEN [acc EXCEPT !.td = g.td, !.ok = FALSE]
  ELSE [Enqueued(acc, entry, g) EXCEPT
          !.ok = @ /\ ~(last_only /\ acc.just_return),
          !.just_return = g.task.algorithm = "JustReturn" \/ (@ /\ ~last_only)]
CheckEntry(acc, entry, last_only) ==
  IF entry \in acc.seen THEN acc ELSE CheckGot(acc, entry, last_only, Get(acc.td, entry))

IsLoading(name) == Last(name) \in {"LoadingText", "LoadingTextPostDelay", "LoadingIcon"}

CheckTasklists(acc, name, task) ==
  LET check(a, l) == FoldLeft(LAMBDA x, e : CheckEntry(x, e, ~AllowsDuplicates(l) /\ ~IsLoading(name)),
                              [a EXCEPT !.seen = {}, !.just_return = FALSE], task.lists[l])
  IN FoldLeft(check, acc, Lists)

\* Everything the tasks of the files lead to, breadth first; MaxChecking bounds what
\* goes on for ever.
RECURSIVE CheckReachable(_, _)
CheckNext(acc, name, g, max_checking) ==
  CheckReachable(IF g.task = NoTask THEN [acc EXCEPT !.queue = Tail(@), !.td = g.td, !.ok = FALSE]
                 ELSE CheckTasklists([acc EXCEPT !.queue = Tail(@), !.td = g.td], name, g.task),
                 max_checking)
CheckReachable(acc, max_checking) ==
  IF acc.queue = <<>> \/ Cardinality(acc.checking) > max_checking THEN acc
  ELSE CheckNext(acc, Head(acc.queue), Get(acc.td, Head(acc.queue)), max_checking)

\* ASST_DEBUG: what lazy_parse does after it merged the file.
AndSyntax(acc, c) == [td |-> c.td, ok |-> acc.ok /\ c.ok]
AllSyntax(td, order) ==
  FoldLeft(LAMBDA acc, n : AndSyntax(acc, SyntaxCheck(acc.td, n)), [td |-> td, ok |-> TRUE], order)
Checking(syntax, order) ==
  [td |-> syntax.td, ok |-> syntax.ok, queue |-> order,
   checking |-> ToSet(order), seen |-> {}, just_return |-> FALSE]
Checked(all) == [td |-> ClearTasks(all.td), ok |-> all.ok]
DebugCheck(td, order, max_checking) ==
  Checked(CheckReachable(Checking(AllSyntax(td, order), order), max_checking))

\* parse: order is that of the hash map of the definitions.
Parse(td, file, order, build, max_checking) ==
  IF build = "debug" THEN DebugCheck(LazyParse(td, file), order, max_checking)
  ELSE [td |-> GenerateAll(LazyParse(td, file), order), ok |-> TRUE]

\* load: a file that cannot be read, or a name in two of them, and none is taken.
Unreadable == (<<"#unreadable">> :> <<>>)
TaskLoads(td, files, build, max_checking) ==
  LET merged == FoldSet(LAMBDA f, acc : f @@ acc, <<>>, files)
      clash == \E f, g \in files : f # g /\ DOMAIN f \cap DOMAIN g # {}
  IN IF Unreadable \in files \/ clash THEN {[td |-> td, ok |-> FALSE]}
     ELSE {Parse(td, merged, order, build, max_checking) :
             order \in SetToSeqs(DOMAIN td.json \cup DOMAIN merged)}

\* What a TaskData that has just been given the definitions would answer.
FreshTask(td, name) ==
  Get([EmptyData EXCEPT !.json = td.json, !.status = [n \in DOMAIN td.json |-> "ToBeGenerate"]], name).task
====
