---- MODULE GeneralConfig ----
(* GeneralConfig: the options and the connection configurations of config.json.  *)
(* parse() sets them as it reads, and a value it misses ends it by an exception. *)
(*   gc.version, gc.options, gc.programs   the version, the options, and the     *)
(*                                         minitouchProgramsOrder among them     *)
(*   gc.packages                           client type -> package                *)
(*   gc.adb                                name -> [commands, extras], m_adb_cfg *)
(* A file is a record of some of the fields version, options, programs, packages *)
(* and connection, the last a sequence of [name, base, commands].                *)
EXTENDS Naturals, Sequences, SequencesExt, TLC

BadValue == "bad value"
NoConfig == [commands |-> "none", extras |-> "none"]
EmptyConfig == [version |-> "none", options |-> "none", programs |-> <<>>,
                packages |-> <<>>, adb |-> <<>>]

\* An entry has its own commands ("inherit": the file gives none) or those of its
\* base; the extras of an entry that was there stay.
Connection(adb, entry) ==
  LET own == IF entry.name \in DOMAIN adb THEN adb[entry.name] ELSE NoConfig
      base == IF entry.base = "" THEN NoConfig ELSE adb[entry.base]
      commands == IF entry.commands = "inherit" THEN base.commands ELSE entry.commands
  IN (entry.name :> [own EXCEPT !.commands = commands]) @@ adb

\* The entries one after the other, up to one whose base is not known.
Connections(adb, entries) ==
  FoldLeft(LAMBDA acc, e : IF ~acc.ok \/ (e.base # "" /\ e.base \notin DOMAIN acc.adb)
                           THEN [acc EXCEPT !.ok = FALSE]
                           ELSE [acc EXCEPT !.adb = Connection(@, e)],
           [adb |-> adb, ok |-> TRUE], entries)

\* The list of programs is emptied first; one that is not a string ends it.
Programs(order) ==
  LET bad == {i \in DOMAIN order : order[i] = BadValue}
  IN IF bad = {} THEN order ELSE SubSeq(order, 1, (CHOOSE i \in bad : \A j \in bad : i <= j) - 1)

\* parse: [gc, ok].
ParseConfig(gc, file) ==
  LET has(key) == key \in DOMAIN file
      v == [gc EXCEPT !.version = file.version]
      o == [v EXCEPT !.options = file.options]
      p == IF has("programs") THEN [o EXCEPT !.programs = Programs(file.programs)] ELSE o
      k == [p EXCEPT !.packages = file.packages @@ @]
      c == Connections(k.adb, file.connection)
  IN IF ~has("version") THEN [gc |-> gc, ok |-> FALSE]
     ELSE IF ~has("options") THEN [gc |-> v, ok |-> FALSE]
     ELSE IF has("programs") /\ Contains(file.programs, BadValue) THEN [gc |-> p, ok |-> FALSE]
     ELSE IF ~has("packages") THEN [gc |-> p, ok |-> FALSE]
     ELSE IF ~has("connection") THEN [gc |-> k, ok |-> FALSE]
     ELSE [gc |-> [k EXCEPT !.adb = c.adb], ok |-> c.ok]

\* A name that no file defines gets an entry of its own, without commands.
SetExtras(gc, name, extras) ==
  LET own == IF name \in DOMAIN gc.adb THEN gc.adb[name] ELSE NoConfig
  IN [gc EXCEPT !.adb = (name :> [own EXCEPT !.extras = extras]) @@ @]
====
