----------------------------- MODULE PathInsert -----------------------------
(***************************************************************************)
(* How a log's date or counter gets into its name (logfile.c): one scan    *)
(* finds the last component and its extension, then the name is copied     *)
(* with the text before the extension.  Of a character only matters        *)
(* whether it is a slash, a dot or another; the text put in is one mark.   *)
(***************************************************************************)
EXTENDS Naturals, Sequences, SequencesExt

CONSTANT MaxPath    \* bound: characters in a path

ASSUME PathAssumption == MaxPath \in Nat

Char == {"/", ".", "x"}

VARIABLES
    path,    \* the name given by the option
    name     \* the name made from it, or empty

pathVars == <<path, name>>

PathInit == path \in BoundedSeq(Char, MaxPath) /\ name = <<>>

\* Mutant: a slash moves the base only.
AtSlashKeeps(p, n) == [p EXCEPT !.base = n + 1]

AtSlash(p, n) == [base |-> n + 1, ext |-> 0]

\* The first dot, but not one that a component begins with.
AtDot(p, n) ==
    IF p.ext = 0 /\ n > 1 /\ path[n - 1] # "/" THEN [p EXCEPT !.ext = n] ELSE p

\* Where the last component and its extension begin, 0 if it has none.
prep_path_insert ==
    LET scan[n \in 0 .. Len(path)] ==
            CASE n = 0           -> [base |-> 1, ext |-> 0]
              [] n > 0 /\ path[n] = "/" -> AtSlash(scan[n - 1], n)
              [] n > 0 /\ path[n] = "." -> AtDot(scan[n - 1], n)
              [] OTHER           -> scan[n - 1]
    IN  scan[Len(path)]

\* An extension to the left of the base is none.
copyout(p) ==
    LET stem == IF p.ext >= p.base THEN p.ext - 1 ELSE Len(path)
    IN  SubSeq(path, 1, stem) \o <<"#">> \o SubSeq(path, stem + 1, Len(path))

\* log_insert_time(), log_insert_str().
Insert ==
    /\ name = <<>>
    /\ name' = copyout(prep_path_insert)
    /\ UNCHANGED path

PathSpec == PathInit /\ [][Insert]_pathVars
----------------------------------------------------------------------------
(* Properties.                                                             *)

\* Whatever the path looks like, dots in directories, hidden files, none or
\* several extensions: the text lands in the last component, behind at least
\* one character of it, and before all of its extensions.
InsertKeepsParts ==
    name # <<>> =>
      \E k \in 0 .. Len(path) :
        LET stem == SubSeq(path, 1, k)
            rest == SubSeq(path, k + 1, Len(path))
            dots == {i \in 1 .. k : path[i] = "." /\ \A j \in i .. k : path[j] # "/"}
        IN  /\ name = stem \o <<"#">> \o rest
            /\ ~ Contains(rest, "/")
            /\ rest # <<>> => /\ rest[1] = "." /\ k > 0 /\ path[k] # "/"
            /\ \A i \in dots : i = 1 \/ path[i - 1] = "/"
=============================================================================
