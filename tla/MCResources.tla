---- MODULE MCResources ----
\* Five installations, each with the directories that may be loaded over one
\* another and the tasks its threads ask for.
EXTENDS LoadedTasks, TaskExpressions

Symmetry == Permutations(Threads)

Png(name) == <<name, ".", "png">>
File(dir, rel) == [dir |-> dir, rel |-> rel]
Task(name) == <<name>>
In(prefix, name) == <<prefix, "@">> \o name

\* What each plan takes; one of them more than there is room for.
MCPlanBytes(image) ==
  CASE image.dir = "over" -> 3
    [] image.dir # "over" /\ Head(image.rel) = "A" -> 2
    [] OTHER -> 1

\* Implicit tasks, lists that grow prefixes, and a directory over the first that
\* changes a task, gives one another base and adds one that was missing.
Overlay ==
  [loads |-> 3, extras |-> {},
   asked |-> {Task("A"), In("P", Task("A")), In("Q", In("P", Task("A"))), Task("D")},
   dirs |-> {
     [tasks |-> {(Task("A") :> [next |-> <<In("P", Task("C")), <<"#", "self">>>>])
                 @@ (Task("C") :> [algorithm |-> "OcrDetect", sub |-> <<<<"A", "#", "next">>>>]),
                 Task("B") :> [algorithm |-> "JustReturn"]},
      template |-> {File("base", Png("A"))}],
     [tasks |-> {Task("C") :> [baseTask |-> Task("A"), spec |-> "own"]},
      tasks_custom |-> Task("D") :> [template |-> Png("A"), next |-> <<Task("B")>>]]}]

\* Tasks that cannot be generated: a cycle, a list that names the list of a task
\* that only another directory has, as one has an entry whose base it has, a template
\* that is no string; and files that cannot be read or have a name twice.
Broken ==
  [loads |-> 3, extras |-> {},
   asked |-> {Task("A"), Task("C"), In("P", Task("C")), Task("F")},
   dirs |-> {
     [tasks |-> {(Task("A") :> [baseTask |-> Task("B")]) @@ (Task("B") :> [baseTask |-> Task("A")]),
                 Task("C") :> [algorithm |-> "JustReturn", next |-> <<<<"E", "#", "next">>>>]}],
     [tasks |-> {Task("E") :> [template |-> BadNames]}],
     [tasks |-> {Task("F") :> [algorithm |-> "JustReturn", sub |-> <<In("P", Task("E"))>>]}],
     [tasks |-> {Task("E") :> [algorithm |-> "JustReturn"],
                 Task("A") :> [baseTask |-> <<"#", "none">>, algorithm |-> "OcrDetect"]},
      template |-> {}],
     [tasks |-> {Unreadable}],
     [tasks |-> {Task("E") :> <<>>, Task("E") :> [attr |-> "own"]}]}]

\* Masked templates: a directory that has A elsewhere, one whose own task has no
\* file, one that has A twice.
Masks ==
  LET masked == [spec |-> "masked"]
  IN [loads |-> 2, extras |-> {},
      asked |-> {Task("A"), Task("B")},
      dirs |-> {
        [tasks |-> {(Task("A") :> masked) @@ (Task("B") :> masked)},
         template |-> {File("base", Png("A")), File("base", <<"sub", "/">> \o Png("B"))}],
        [tasks |-> {}, template |-> {File("over", Png("A"))}],
        [tasks |-> {Task("C") :> [spec |-> "none"]}, template |-> {File("part", Png("A"))}],
        [tasks |-> {}, template |-> {File("twice", Png("A")), File("twice", <<"sub", "/">> \o Png("A"))}]}]

\* One masked template, replaced by a load that fails and by ones that succeed.
Replacing ==
  [loads |-> 3, extras |-> {},
   asked |-> {Task("A")},
   dirs |-> {
     [tasks |-> {Task("A") :> [spec |-> "masked"]}, template |-> {File("base", Png("A"))}],
     [tasks |-> {}, template |-> {File("over", Png("A")), File("over", <<"sub", "/">> \o Png("A"))}]}]

\* Connections, with a base, without, with one that is missing; and extras for a
\* connection that there is and for one that no file has.
Connect ==
  LET entry(name, base, commands) == [name |-> name, base |-> base, commands |-> commands]
      file(connection) == [version |-> "v", options |-> "o", packages |-> "Official" :> "com",
                           connection |-> connection]
      general == file(<<entry("General", "", "general"), entry("Mumu", "General", "inherit")>>)
  IN [loads |-> 3, extras |-> {"Mumu", "Other"},
      asked |-> {},
      dirs |-> {
        [config |-> general],
        [config |-> general @@ [programs |-> <<"minitouch", BadValue>>]],
        [config |-> general, config_custom |-> file(<<entry("Mumu", "", "own"), entry("Ld", "None", "inherit")>>)],
        [config |-> file(<<entry("Ld", "Mumu", "inherit")>>), config_custom |-> <<>>],
        [config |-> [version |-> "v2"]], [config |-> [options |-> "o2"]],
        [config |-> [version |-> "v3", options |-> "o3"]],
        [config |-> [version |-> "v4", options |-> "o4", packages |-> <<>>]]}]

MCInstallations == {Overlay, Broken, Masks, Replacing, Connect}

MeanWhatTheySay(expressions) ==
  loads = 0 /\ build = "debug" =>
    \A e \in expressions, dup \in BOOLEAN : MeansWhatItSays(e, dup)

\* TaskDataSymbolStream reads every expression (of up to two operators) the way the
\* grammar above decode() binds its operators, and what it makes of one is what the
\* expression means, in lists that may repeat a task and in lists that may not; but
\* for the two kinds of expression that it reads in another way than the comments do.
ExpressionsMean ==
  MeanWhatTheySay({e \in Expressions : ~SelfPrefixed(e) /\ ~RowWithout(e)})

\* "$tasks = $mul_tasks ^ $tasks: remove from $mul_tasks every task that is in $tasks"
\* (TaskDataSymbolStream.cpp:113-115): what stands after a "^" is taken together first.
GrammarAsWritten == MeanWhatTheySay({e \in Expressions : ~SelfPrefixed(e)})

\* "A@#self is A and not A@self_name" (TaskDataSymbol.cpp:10).
SelfIsPrefix == MeanWhatTheySay({e \in Expressions : ~RowWithout(e)})
====
