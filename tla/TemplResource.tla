---- MODULE TemplResource ----
(* TemplResource: which file holds the image of each template, and the images    *)
(* read so far. A file is [dir, rel]: rel is its path below the template folder  *)
(* dir, a sequence of words, "/" and "." as the names of templates are; the      *)
(* image read from a file stands for the file itself.                            *)
(*   tr.required   m_load_required      tr.paths      m_templ_paths              *)
(*   tr.templs     m_templs             tr.revision   m_revision                 *)
EXTENDS Naturals, Sequences, SequencesExt, FiniteSets, TLC

NoImage == [dir |-> "none", rel |-> <<>>]
EmptyTempl == [required |-> {}, paths |-> <<>>, templs |-> <<>>, revision |-> 0]

SetLoadRequired(tr, required) == [tr EXCEPT !.required = required]

SearchName(name) == IF Contains(name, ".") THEN name ELSE name \o <<".", "png">>

\* The files whose path ends with the name, at the beginning of a component.
Matching(files, name) ==
  LET search == SearchName(name)
  IN {f \in files : /\ IsSuffix(search, f.rel)
                    /\ \/ Len(search) = Len(f.rel)
                       \/ f.rel[Len(f.rel) - Len(search)] = "/"}

Ambiguous(files, name) == Cardinality(Matching(files, name)) > 1
Unmatched(tr, files, name) == Matching(files, name) = {} /\ name \notin DOMAIN tr.paths

\* After the names of seen were looked for and each found in the file of at: the
\* image of a name whose file is another now is dropped. A debug build looks at all
\* the files of an ambiguous name.
Located(tr, files, build, seen, at) ==
  LET found == {n \in seen : Matching(files, n) # {}}
      moved == {n \in found : \/ n \notin DOMAIN tr.paths \/ tr.paths[n] # at[n]
                              \/ build = "debug" /\ Ambiguous(files, n)}
  IN [tr EXCEPT !.paths = [n \in found \cup DOMAIN @ |-> IF n \in found THEN at[n] ELSE @[n]],
                !.templs = [n \in DOMAIN @ \ moved |-> @[n]]]

\* Any one of the files for each of the names.
FilesOf(files, names) ==
  {at \in [names -> files] : \A n \in names : at[n] \in Matching(files, n)}
Found(files, names) == {n \in names : Matching(files, n) # {}}

\* A mutant: the revision stays.
Reloaded_sameRevision(tr) == [tr EXCEPT !.templs = <<>>]
Reloaded(tr) == [tr EXCEPT !.templs = <<>>, !.revision = @ + 1]

\* Without required names every file is entered under its own path.
Indexed(tr, files) ==
  LET rels == {f.rel : f \in files}
  IN Reloaded([tr EXCEPT !.paths = [r \in rels \cup DOMAIN @ |->
                 IF r \in rels THEN CHOOSE f \in files : f.rel = r ELSE @[r]]])

\* What load() may come to. A name that has no file or several fails the load: the
\* release build stops there, with some of the other names looked for already.
TemplLoads(tr, files, build) ==
  LET bad == {n \in tr.required : Ambiguous(files, n) \/ Unmatched(tr, files, n)}
      seens == IF bad = {} \/ build = "debug" THEN {tr.required}
               ELSE UNION {{good \cup {b} : good \in SUBSET (tr.required \ bad)} : b \in bad}
  IN IF tr.required = {} THEN {[tr |-> Indexed(tr, files), ok |-> TRUE]}
     ELSE UNION {{LET located == Located(tr, files, build, seen, at)
                  IN [tr |-> IF bad = {} THEN Reloaded(located) ELSE located, ok |-> bad = {}] :
                    at \in FilesOf(files, Found(files, seen))} : seen \in seens}

\* get_templ: the image is read when it is first asked for.
TemplOf(tr, name) ==
  CASE name \in DOMAIN tr.templs -> tr.templs[name]
    [] name \notin DOMAIN tr.templs /\ name \in DOMAIN tr.paths -> tr.paths[name]
    [] name \notin DOMAIN tr.templs \cup DOMAIN tr.paths -> NoImage
GetTempl(tr, name) ==
  IF TemplOf(tr, name) = NoImage THEN tr ELSE [tr EXCEPT !.templs = [n \in {name} \cup DOMAIN @ |-> TemplOf(tr, n)]]
====
