---- MODULE LoadedTasks ----
(* The tasks of a process that loads its resources: Resources with the TaskData   *)
(* of its module, and what must be true of the tasks generated.                   *)
EXTENDS Resources, TaskData

\* A masked template goes on to the cache of the plans, any other match keeps nothing.
MaskedMatch(task) == task # NoTask /\ UsesTemplate(task.algorithm) /\ task.spec = "masked"

-----------------------------------------------------------------------------
(* Properties.                                                                   *)

\* After a load that looked for the templates and succeeded, every task generated
\* since, whether the load generated it or a thread asked for it later (implicit
\* tasks too), has an image for its template: get_templ() does not fail for it.
TemplatesLoaded ==
  last.result = "true" /\ {"tasks", "template"} \subseteq last.has =>
    \A n \in DOMAIN td.all :
      UsesTemplate(td.all[n].algorithm) => TemplOf(tr, td.all[n].templ) # NoImage

\* The syntax check of debug builds is a closed one: after a load that passed it,
\* every entry of a list of a task that is handed out is itself handed out when it
\* is asked for, although the check threw away all it generated.
CheckedClosed ==
  build = "debug" /\ last.result = "true" /\ "tasks" \in last.has =>
    \A n \in DOMAIN td.all : \A l \in ToSet(Lists) :
      \A e \in ToSet(td.all[n].lists[l]) : Get(td, e).task # NoTask

\* Tasks are generated lazily, in the order they happen to be asked for and over
\* several loads; what is handed out is what would be if the definitions had just
\* been loaded. Of a name with two prefixes or more only the lists may differ.
AnswersLikeFresh ==
  \A n \in DOMAIN td.all :
    LET fresh == FreshTask(td, n)
    IN /\ [td.all[n] EXCEPT !.lists = <<>>] = [fresh EXCEPT !.lists = <<>>]
       /\ Len(Ats(n)) < 2 => td.all[n].lists = fresh.lists

====
