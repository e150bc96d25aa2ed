---- MODULE Resources ----
(* What the instances of a process share: ResourceLoader and the resources it    *)
(* loads (GeneralConfig, TaskData, TemplResource), the threads of the instances, *)
(* which ask for tasks and match their templates, and the cache of the masked    *)
(* ones (MaskedCcoeffMatcher). Directories are loaded one over another, and one  *)
(* that fails leaves what it did behind.                                         *)
(* A directory is a record of what it has: config, config_custom, tasks (a set   *)
(* of files, each name -> task), tasks_custom, template (a set of files).        *)
(* Neither TaskData nor TemplResource has a lock: that two threads are inside    *)
(* one of them at the same moment, which is undefined, is not modelled.          *)
(* What TaskData makes of its files and hands out is a parameter here: TaskData  *)
(* (its module) in the runs, anything at all in the proofs.                       *)
EXTENDS TemplResource, GeneralConfig, MaskedCcoeffMatcher

CONSTANTS
  Installations,   \* the possible [dirs, asked, extras, loads]: directories, what is
                   \* asked for, connections given extras; and a bound on the loads
  Threads,
  MaxChecking,     \* 10000 in lazy_parse()
  NoData,                \* TaskData before a load
  LoadTasks(_, _, _, _), \* TaskData::load, of files, by a build: the possible [td, ok]
  GetTask(_, _),         \* TaskData::get, of a name: [td, task]
  Masked(_)              \* whether a task got is matched by a masked template

\* The images there may be, and what the plans made of them take.
Images == UNION {UNION {dir.template : dir \in {d \in i.dirs : "template" \in DOMAIN d}} :
                   i \in Installations}

ASSUME NoImageAssumption == NoImage \notin Images
ASSUME BytesAssumption == \A image \in Images : PlanBytes(image) \in Nat

VARIABLES
  build,      \* "debug" (ASST_DEBUG) or "release"
  inst,       \* the installation
  gc, td, tr, \* the singletons GeneralConfig, TaskData and TemplResource
  loaded,     \* m_loaded
  last,       \* the last load: the directory's parts and what it returned
  replaced,   \* <<revision, name>> whose image a failed load dropped under that revision
  loads,
  cache,      \* MaskedCcoeffMatcher
  thread      \* what each thread is doing

vars == <<build, inst, gc, td, tr, loaded, last, replaced, loads, cache, thread>>
shared == <<gc, td, tr, loaded, last, replaced, loads>>

Idle == [at |-> "idle"]

Init ==
  /\ build \in {"debug", "release"}
  /\ inst \in Installations
  /\ gc = EmptyConfig /\ td = NoData /\ tr = EmptyTempl
  /\ loaded = FALSE /\ last = [has |-> {}, result |-> "none"]
  /\ replaced = {} /\ loads = 0
  /\ cache = EmptyCache
  /\ thread = [t \in Threads |-> Idle]

-----------------------------------------------------------------------------
(* ResourceLoader::load. s is what the singletons are on the way, and the result *)
(* so far: "true", "false", or "throws", an exception that debug builds let out. *)

Going(s) == s.result = "true"
Fail == IF build = "debug" THEN "throws" ELSE "false"

\* AbstractConfig::load of GeneralConfig; <<>> is a file that cannot be read.
ConfigFile(s, file) ==
  LET p == ParseConfig(s.gc, file)
  IN IF ~Going(s) THEN s
     ELSE IF file = <<>> THEN [s EXCEPT !.result = "false"]
     ELSE [s EXCEPT !.gc = p.gc, !.result = IF p.ok THEN @ ELSE Fail]

ConfigStage(s, dir) ==
  IF "config" \notin DOMAIN dir THEN s
  ELSE LET first == ConfigFile(s, dir.config)
       IN IF "config_custom" \in DOMAIN dir THEN ConfigFile(first, dir.config_custom) ELSE first

\* The tasks directory and the optional file beside it, in the hash map's order.
TaskFiles(s, files) ==
  IF ~Going(s) THEN {s}
  ELSE {[s EXCEPT !.td = r.td, !.result = IF r.ok THEN @ ELSE "false"] :
          r \in LoadTasks(s.td, files, build, MaxChecking)}

TaskStage(s, dir) ==
  UNION {IF "tasks_custom" \in DOMAIN dir THEN TaskFiles(f, {dir.tasks_custom}) ELSE {f} :
           f \in TaskFiles(s, dir.tasks)}

\* The templates are looked for after the tasks have said which they need. A
\* mutant: what they need is taken from before.
TemplateStage_required(s, dir) ==
  IF ~Going(s) \/ "template" \notin DOMAIN dir THEN {s}
  ELSE {[s EXCEPT !.tr = r.tr, !.result = IF r.ok THEN @ ELSE "false"] :
          r \in TemplLoads(SetLoadRequired(s.tr, td.required), dir.template, build)}
TemplateStage(s, dir) ==
  IF ~Going(s) \/ "template" \notin DOMAIN dir THEN {s}
  ELSE {[s EXCEPT !.tr = r.tr, !.result = IF r.ok THEN @ ELSE "false"] :
          r \in TemplLoads(SetLoadRequired(s.tr, s.td.required), dir.template, build)}

AfterConfig(s, dir) ==
  IF ~Going(s) \/ "tasks" \notin DOMAIN dir THEN {s}
  ELSE UNION {TemplateStage(t, dir) : t \in TaskStage(s, dir)}
Outcomes(s, dir) == AfterConfig(ConfigStage(s, dir), dir)

Dropped(s) == {<<tr.revision, n>> : n \in DOMAIN tr.templs \ DOMAIN s.tr.templs}

Load ==
  /\ loads < inst.loads
  /\ loads' = loads + 1
  /\ \E dir \in inst.dirs :
       \E s \in Outcomes([gc |-> gc, td |-> td, tr |-> tr, result |-> "true"], dir) :
         /\ gc' = s.gc /\ td' = s.td /\ tr' = s.tr
         /\ loaded' = (loaded \/ Going(s))
         /\ last' = [has |-> DOMAIN dir, result |-> s.result]
         /\ replaced' = IF Going(s) THEN replaced ELSE replaced \cup Dropped(s)
  /\ UNCHANGED <<build, inst, cache, thread>>

\* AsstSetConnectionExtras, which does not wait for a load.
SetConnectionExtras ==
  /\ \E name \in inst.extras : gc' = SetExtras(gc, name, "extras")
  /\ UNCHANGED <<build, inst, td, tr, loaded, last, replaced, loads, cache, thread>>

-----------------------------------------------------------------------------
(* A thread of an instance; there are instances only once a load succeeded.      *)

Goes(t, next) == thread' = [thread EXCEPT ![t] = next]
At(t, place) == thread[t].at = place

\* It asks for a task. A masked template goes on to the cache, any other match
\* keeps nothing.
Ask(t) ==
  /\ loaded /\ At(t, "idle")
  /\ \E n \in inst.asked :
       LET g == GetTask(td, n)
       IN /\ td' = g.td
          /\ Goes(t, IF Masked(g.task) THEN [at |-> "fetch", templ |-> g.task.templ] ELSE Idle)
  /\ UNCHANGED <<build, inst, gc, tr, loaded, last, replaced, loads, cache>>

\* An image there is none of ends the match, by an exception in debug builds; so
\* does a mask that leaves the plan to OpenCV (Decline).
Fetch(t) ==
  /\ At(t, "fetch")
  /\ tr' = GetTempl(tr, thread[t].templ)
  /\ LET image == TemplOf(tr, thread[t].templ)
     IN Goes(t, IF image = NoImage THEN Idle
                ELSE [at |-> "revision", templ |-> thread[t].templ, image |-> image,
                      fetched |-> tr.revision])
  /\ UNCHANGED <<build, inst, gc, td, loaded, last, replaced, loads, cache>>

Decline(t) ==
  /\ At(t, "revision")
  /\ Goes(t, Idle)
  /\ UNCHANGED <<build, inst, cache, shared>>

ReadRevision(t) ==
  /\ At(t, "revision")
  /\ Goes(t, [at |-> "sync", key |-> <<tr.revision, thread[t].templ>>,
              image |-> thread[t].image, fetched |-> thread[t].fetched])
  /\ UNCHANGED <<build, inst, cache, shared>>

Sync(t) ==
  /\ At(t, "sync")
  /\ cache' = SyncCacheRevision(cache, thread[t].key[1])
  /\ Goes(t, [thread[t] EXCEPT !.at = "miss"])
  /\ UNCHANGED <<build, inst, shared>>

ReadRevisionAtMiss(t) ==
  /\ At(t, "miss")
  /\ Goes(t, [at |-> "find", key |-> thread[t].key, image |-> thread[t].image,
              fetched |-> thread[t].fetched, at_miss |-> cache.revision])
  /\ UNCHANGED <<build, inst, cache, shared>>

WithPlan(t, plan) ==
  [at |-> "match", key |-> thread[t].key, image |-> thread[t].image,
   fetched |-> thread[t].fetched, plan |-> plan]

Find(t) ==
  /\ At(t, "find")
  /\ LET key == thread[t].key
     IN IF Cached(cache, key)
        THEN /\ cache' = Touched(cache, key)
             /\ Goes(t, WithPlan(t, cache.plans[key]))
        ELSE /\ Goes(t, [thread[t] EXCEPT !.at = "keep"])
             /\ UNCHANGED cache
  /\ UNCHANGED <<build, inst, shared>>

\* The plan has been made without the lock. Of it and its image the revisions, and
\* the key it was made for, are there for PlanMatches only.
Keep(t) ==
  /\ At(t, "keep")
  /\ LET plan == [image |-> thread[t].image, fetched |-> thread[t].fetched, key |-> thread[t].key]
         k == Kept(cache, thread[t].key, plan, thread[t].at_miss)
     IN cache' = k.cache /\ Goes(t, WithPlan(t, k.plan))
  /\ UNCHANGED <<build, inst, shared>>

Match(t) ==
  /\ At(t, "match")
  /\ Goes(t, Idle)
  /\ UNCHANGED <<build, inst, cache, shared>>

Next ==
  \/ Load
  \/ SetConnectionExtras
  \/ \E t \in Threads :
       \/ Ask(t) \/ Fetch(t) \/ Decline(t) \/ ReadRevision(t) \/ Sync(t)
       \/ ReadRevisionAtMiss(t) \/ Find(t) \/ Keep(t) \/ Match(t)

Spec == Init /\ [][Next]_vars

-----------------------------------------------------------------------------
(* Properties; those of the tasks are in LoadedTasks.                            *)

\* A masked match uses a plan made of the image it holds. There are two ways out:
\* under the revision they go by, the name's image was dropped by a load that then
\* failed, without a new revision; and a load came between the fetching of one of
\* the two images and the reading of the revision it goes by.
Timely(held) == held.fetched = held.key[1]
PlanMatches ==
  \A t \in Threads :
    At(t, "match") /\ Timely(thread[t]) /\ Timely(thread[t].plan) /\ thread[t].key \notin replaced =>
      thread[t].plan.image = thread[t].image

\* "The templates of the resources are bound to the revision" (Matcher.cpp:251), and
\* a plan of old data "is not cached" (MaskedCcoeffMatcher.cpp:146): a match whose own
\* image is the revision's finds no plan of an older one. It may: another thread reads
\* the image before the revision, and a load comes in between.
OldDataNotCached ==
  \A t \in Threads :
    At(t, "match") /\ Timely(thread[t]) /\ thread[t].key \notin replaced =>
      thread[t].plan.image = thread[t].image

\* The first of them once nobody was overtaken by a load: the revision and the name
\* say which image a plan was made of. They do not, after a load that has dropped the
\* image, failed, and left the revision as it was.
RevisionNamesImage ==
  \A t \in Threads :
    At(t, "match") /\ Timely(thread[t]) /\ Timely(thread[t].plan) =>
      thread[t].plan.image = thread[t].image

\* A template that was once found is never lost, by loads that fail or lack it either.
\* And nobody who goes by the revision misses that an image is another now: it is
\* only replaced together with the revision, or dropped by a load that then failed.
StaysFound ==
  [][\A n \in DOMAIN tr.paths \cup DOMAIN tr.templs :
       /\ TemplOf(tr', n) # NoImage
       /\ n \in DOMAIN tr.templs /\ TemplOf(tr', n) # tr.templs[n] =>
            tr'.revision > tr.revision \/ <<tr.revision, n>> \in replaced']_vars

\* The bytes of the cache are those of its plans, its list names each once, and it
\* is within its bound unless one plan alone is larger.
CacheAccounted ==
  /\ ToSet(cache.lru) = DOMAIN cache.plans
  /\ Len(cache.lru) = Cardinality(DOMAIN cache.plans)
  /\ cache.total = BytesOf(cache)
  /\ cache.total <= MaxBytes \/ Len(cache.lru) = 1

====
