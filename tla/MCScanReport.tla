---------------------------- MODULE MCScanReport ----------------------------
(* Model-checking instances of ScanReport.                                 *)
EXTENDS ScanReport

Root == <<"C:", "\\">>
File(path, size, is) ==
    [path |-> Root \o path, size |-> size, is |-> is, top |-> Len(path) = 1]

(* An infected file in a folder of its own; clean, locked and empty files. *)
Folder == <<File(<<"a">>, 1, "clean"), File(<<"b", "\\", "a", "b">>, 2, "infected"),
            File(<<"a", "b">>, 0, "clean")>>
Locked == <<File(<<"b">>, 1, "locked"), File(<<"a">>, 1, "clean")>>

NoFilter == {}
Masks == {Glob(<<Star, Lit("b")>>), Glob(<<Star, One, Class("", {"a"})>>)}
Others == {Glob(<<Lit("a"), Lit("b")>>), Glob(<<Star, Lit("\\"), Lit("a")>>),
           Regex(<<Lit("a")>>), Glob(<<Star, Class("^", {"a"})>>),
           Glob(<<Star, Lit("b"), Star>>)}
Filter == {{p} : p \in Masks \cup Others} \cup {NoFilter}

TwoDatabases == <<"daily", "main">>

Task(mode, by) ==
    [mode |-> mode, by |-> by, target |-> "folder", files |-> Folder,
     recursive |-> TRUE, infectedOnly |-> FALSE, remove |-> FALSE,
     include |-> NoFilter, exclude |-> NoFilter]

ScanTasks ==
    {[Task("scan", by) EXCEPT !.target = t, !.files = fs, !.recursive = r,
                              !.include = i, !.exclude = e] :
        by \in {"dialog", "background"}, t \in {"folder", "file"},
        fs \in {Folder, Locked}, r \in BOOLEAN, i \in Filter, e \in Filter}
    \cup {[Task("scan", by) EXCEPT !.infectedOnly = o, !.remove = d] :
        by \in {"dialog", "background"}, o \in BOOLEAN, d \in BOOLEAN}

AllTasks == ScanTasks \cup {Task(m, by) : m \in {"memory", "update"},
                                          by \in {"dialog", "background"}}
=============================================================================
