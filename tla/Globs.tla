------------------------------- MODULE Globs --------------------------------
(***************************************************************************)
(* The include and exclude filters of a scan.  A pattern is applied twice: *)
(* the progress dialog counts files with a matcher of its own              *)
(* (cw_scan_dialog.cpp), and clamscan gets the pattern as a regular        *)
(* expression (cw_scan_logic.cpp) and decides what is scanned.             *)
(*                                                                         *)
(* A pattern is a sequence of elements, a path a sequence of characters.   *)
(* Upper and lower case are not told apart, as on both sides.              *)
(***************************************************************************)
EXTENDS Sequences, Integers

Separators == {"/", "\\"}

(* "one" is ?, and a class is [..], [!..] or [^..] with its neg.           *)
Star == [kind |-> "star", neg |-> "", of |-> {}]
One == [kind |-> "one", neg |-> "", of |-> {}]
Lit(c) == [kind |-> "char", neg |-> "", of |-> {c}]
Class(neg, cs) == [kind |-> "class", neg |-> neg, of |-> cs]

Elements ==
    {e \in [kind : {"star", "one", "char", "class"},
            neg : {"", "!", "^"}, of : SUBSET STRING] :
        e.kind = "char" => e.of # {}}

ClassMatch(e, c) == (c \in e.of) = (e.neg = "")

-----------------------------------------------------------------------------
Places(t) == 1 .. Len(t) + 1
Stays(t, i, j) == \A n \in i .. j : t[n] \notin Separators

Stands(e, c) == IF e.kind = "one" THEN c \notin Separators ELSE ClassMatch(e, c)
Stand(e, t, next) == {j \in 1 .. Len(t) : Stands(e, t[j]) /\ j + 1 \in next}

(* Where the text may go on for the last n elements, n = 0, 1, ...; next   *)
(* is that for n - 1.  A star at the end takes whatever is left, path      *)
(* separators too; before another element it ends ahead of a character     *)
(* that is no separator, so that an element that stands for a separator    *)
(* never follows it.                                                       *)
GlobStep(p, t, n, next) ==
    LET e == p[Len(p) - n + 1]
    IN  IF e.kind # "star" THEN Stand(e, t, next)
        ELSE IF n = 1 THEN Places(t)
        ELSE IF p[Len(p) - n + 2].kind = "star" THEN next
        ELSE {j \in Places(t) :
                \E k \in j .. Len(t) : Stays(t, j, k) /\ k \in next}

globMatchNoCase(p, t) ==
    LET from[n \in 0 .. Len(p)] ==
            IF n = 0 THEN {Len(t) + 1} ELSE GlobStep(p, t, n, from[n - 1])
    IN  1 \in from[Len(p)]

(* fileNameFromPath.                                                       *)
FileName(path) ==
    LET from == CHOOSE n \in 1 .. Len(path) + 1 :
                  /\ \A i \in n .. Len(path) : path[i] \notin Separators
                  /\ n = 1 \/ path[n - 1] \in Separators
    IN  SubSeq(path, from, Len(path))

(* A pattern as the user gave it: a glob, or a regular expression in <..>. *)
Glob(elements) == [isRegex |-> FALSE, text |-> elements]
Regex(elements) == [isRegex |-> TRUE, text |-> elements]

matchesAnyWildcardPattern(patterns, path) ==
    \E p \in patterns :
        /\ ~p.isRegex
        /\ \/ globMatchNoCase(p.text, FileName(path))
           \/ globMatchNoCase(p.text, path)

shouldCountPath(path, include, exclude) ==
    /\ include = {} \/ matchesAnyWildcardPattern(include, path)
    /\ ~matchesAnyWildcardPattern(exclude, path)

-----------------------------------------------------------------------------
(* One element as part of a regular expression: an exclamation mark        *)
(* becomes ^; a ^ is escaped, which in a class means the two characters.   *)
Translated(e) ==
    IF e.kind = "class" THEN
        [e EXCEPT !.neg = IF @ = "^" THEN "" ELSE @,
                  !.of = IF e.neg = "^" THEN @ \cup {"\\", "^"} ELSE @]
    ELSE IF e.kind = "char" /\ e.of \subseteq Separators THEN
        [e EXCEPT !.of = Separators]
    ELSE e

(* Fault: every expression starts at the start of the path.                *)
AlwaysAnchored(p) ==
    [anchored |-> TRUE, items |-> [i \in DOMAIN p |-> Translated(p[i])]]

(* An expression starts at the start of the path only if the pattern has a *)
(* separator; it always ends at the end of the path.                       *)
globToClamscanRegex(p) ==
    [anchored |-> \E i \in DOMAIN p : p[i].of \cap Separators # {},
     items |-> [i \in DOMAIN p |-> Translated(p[i])]]

(* What clamscan's matcher does with such an expression.                   *)
RegexStep(p, t, n, next) ==
    LET e == p[Len(p) - n + 1]
    IN  IF e.kind # "star" THEN Stand(e, t, next)
        ELSE {j \in Places(t) : \E k \in j .. Len(t) + 1 :
                Stays(t, j, k - 1) /\ k \in next}

RegexMatch(r, t) ==
    LET from[n \in 0 .. Len(r.items)] ==
            IF n = 0 THEN {Len(t) + 1}
            ELSE RegexStep(r.items, t, n, from[n - 1])
    IN  \E j \in from[Len(r.items)] : r.anchored => j = 1

(* The expression that the command line carries for a pattern.             *)
Expression(p) ==
    IF p.isRegex THEN [anchored |-> FALSE, items |-> p.text]
    ELSE globToClamscanRegex(p.text)

(* clamscan scans a file that some --include and no --exclude matches.     *)
Visits(path, include, exclude) ==
    /\ include = {} \/ \E e \in include : RegexMatch(e, path)
    /\ ~\E e \in exclude : RegexMatch(e, path)

(* The patterns on which the two sides can agree: masks, as the dialogs    *)
(* offer them.  An expression for anything else is not tied to the start   *)
(* of a name, a ^ class means something else, and a regular expression is  *)
(* not counted at all.  A star at the end of more than stars is tried on   *)
(* the whole path too and then takes separators, which an expression's     *)
(* star does not.                                                          *)
IsMask(p) ==
    /\ ~p.isRegex
    /\ p.text # <<>>
    /\ p.text[1].kind = "star"
    /\ p.text[Len(p.text)].kind = "star" =>
          \A i \in DOMAIN p.text : p.text[i].kind = "star"
    /\ \A i \in DOMAIN p.text :
          /\ p.text[i].neg = ""
          /\ p.text[i].of \cap Separators = {}
=============================================================================
