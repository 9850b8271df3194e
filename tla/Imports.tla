------------------------------ MODULE Imports ------------------------------
(***************************************************************************)
(* parse_file of humbaba/parser.py: a file, and what it imports.  A file   *)
(* declares names (of types, prompts and functions) and imports files, in  *)
(* order; a path whose file does not exist makes open() raise.             *)
(***************************************************************************)
EXTENDS Sequences

\* What parse_file returns: the file each name comes from, and the paths met.
Result(decls, seen, error) == [decls |-> decls, seen |-> seen, error |-> error]

RECURSIVE parse_file(_, _, _), Import(_, _, _)

\* Mutant: a later declaration overwrites an earlier one.
ImportOver(files, paths, r) ==
  IF paths = << >> \/ r.error THEN r
  ELSE LET c == parse_file(files, Head(paths), r.seen)
           both == DOMAIN r.decls \cup DOMAIN c.decls
       IN  Import(files, Tail(paths),
                  Result([n \in both |-> IF n \in DOMAIN c.decls THEN c.decls[n] ELSE r.decls[n]],
                         c.seen, c.error))

\* The loop over the imports of a file, r what it has so far.
Import(files, paths, r) ==
  IF paths = << >> \/ r.error THEN r
  ELSE LET c == parse_file(files, Head(paths), r.seen)
           both == DOMAIN r.decls \cup DOMAIN c.decls
           twice == DOMAIN r.decls \cap DOMAIN c.decls # {}
       IN  Import(files, Tail(paths),
                  Result([n \in both |-> IF n \in DOMAIN c.decls THEN c.decls[n] ELSE r.decls[n]],
                         c.seen, c.error \/ twice))

parse_file(files, path, seen) ==
  IF path \in seen THEN Result(<< >>, seen, FALSE)
  ELSE IF path \notin DOMAIN files THEN Result(<< >>, seen, TRUE)
  ELSE Import(files, files[path].imports,
              Result([n \in files[path].declares |-> path], seen \cup {path}, FALSE))
=============================================================================
