---------------------------- MODULE ReportProofs ----------------------------
(***************************************************************************)
(* Proofs about ScanReport: what the user is told of a scan or an update   *)
(* is true, for any files, filters, databases, failures and pipes.         *)
(*                                                                         *)
(* First the means: induction over numbers, sums, the two matchers of      *)
(* Globs.  Then the inductive invariant, in parts: BaseInv (where the      *)
(* tools are, what is in the pipes), UpdateInv (bytes and outcome of an    *)
(* update) and ScanInv (threats, files, results, bytes and the report of a *)
(* scan).  A part that counts says that what was read and what waits in    *)
(* the pipe add up to what the tool has done.                              *)
(***************************************************************************)
EXTENDS ScanReport, WellFoundedInduction, FiniteSetTheorems, TLAPS

-----------------------------------------------------------------------------
(* Induction, as a fact about sets of numbers.                             *)

(* The order of the numbers, as a relation.                                *)
LEMMA LessIsWellFounded ==
    \E R : IsWellFoundedOn(R, Nat) /\ \A x, y \in Nat : <<y, x>> \in R <=> y < x
<1> DEFINE R == OpToRel(<, Nat)
<1>1. IsWellFoundedOn(R, Nat)
  BY NatLessThanWellFounded
<1>2. \A x, y \in Nat : <<y, x>> \in R <=> y < x
  BY DEF OpToRel
<1> HIDE DEF R
<1> QED
  BY <1>1, <1>2

(* A set of numbers has a least one.                                       *)
LEMMA Least ==
    ASSUME NEW S \in SUBSET Nat, S # {}
    PROVE  \E n \in S : \A m \in S : n <= m
<1>1. PICK R : /\ IsWellFoundedOn(R, Nat)
               /\ \A x, y \in Nat : <<y, x>> \in R <=> y < x
  BY LessIsWellFounded
<1> HIDE DEF IsWellFoundedOn
<1>2. \E x \in S : \A y \in S : ~ (<<y, x>> \in R)
  BY <1>1, WFMin
<1>3. PICK n \in S : \A m \in S : ~ (<<m, n>> \in R)
  BY <1>2
<1>4. ASSUME NEW m \in S PROVE n <= m
  <2>1. m \in Nat /\ n \in Nat
    OBVIOUS
  <2>2. ~ (<<m, n>> \in R)
    BY <1>3
  <2>3. \A x, y \in Nat : <<y, x>> \in R <=> y < x
    BY <1>1
  <2>4. ~ (m < n)
    BY <2>1, <2>2, <2>3, Zenon
  <2> QED
    BY <2>1, <2>4
<1> QED
  BY <1>4

(* What holds of 0 and of the successor of each number it holds of.        *)
LEMMA Inductive ==
    ASSUME NEW T, 0 \in T, \A n \in Nat : n \in T => n + 1 \in T
    PROVE  Nat \subseteq T
<1> SUFFICES ASSUME Nat \ T # {} PROVE FALSE
  OBVIOUS
<1>1. PICK n \in Nat \ T : \A m \in Nat \ T : n <= m
  BY Least, Nat \ T \in SUBSET Nat
<1>2. n - 1 \in Nat /\ n - 1 \in T
  BY <1>1
<1> QED
  BY <1>1, <1>2

Goes(f, N, S, a, g) ==
    f \in [0 .. N -> S] /\ f[0] = a /\ \A n \in 1 .. N : f[n] = g[n][f[n - 1]]

(* A function is there that starts and goes on as one says.                *)
LEMMA Recursion ==
    ASSUME NEW N \in Nat, NEW S, NEW a \in S, NEW g \in [1 .. N -> [S -> S]]
    PROVE  \E f : Goes(f, N, S, a, g)
<1> DEFINE Upto(k, f) ==
               /\ f \in [0 .. k -> S] /\ f[0] = a
               /\ \A n \in 1 .. k : f[n] = g[n][f[n - 1]]
           T == {k \in Nat : k <= N => \E f : Upto(k, f)}
<1>1. 0 \in T
  <2>1. Upto(0, [n \in 0 .. 0 |-> a])
    OBVIOUS
  <2> QED
    BY <2>1
<1>2. ASSUME NEW k \in Nat, k \in T PROVE k + 1 \in T
  <2> SUFFICES ASSUME k + 1 <= N PROVE \E f : Upto(k + 1, f)
    OBVIOUS
  <2>1. PICK f : Upto(k, f)
    BY <1>2
  <2> DEFINE h == [n \in 0 .. k + 1 |->
                     IF n <= k THEN f[n] ELSE g[k + 1][f[k]]]
  <2>2. g[k + 1] \in [S -> S] /\ f[k] \in S
    BY <2>1
  <2>3. h \in [0 .. k + 1 -> S]
    BY <2>1, <2>2
  <2>4. Upto(k + 1, h)
    BY <2>1, <2>2, <2>3
  <2> QED
    BY <2>4
<1> HIDE DEF T
<1>3. N \in T
  BY <1>1, <1>2, Inductive
<1> QED
  BY <1>3 DEF T, Goes

-----------------------------------------------------------------------------
(* Totals.                                                                 *)
Adds(f, w) ==
    /\ f \in [0 .. Len(w) -> Nat] /\ f[0] = 0
    /\ \A n \in 1 .. Len(w) : f[n] = f[n - 1] + w[n]
    /\ Total(w) = f[Len(w)]

(* Total is what its recursive definition says.                            *)
LEMMA TotalAdds ==
    ASSUME NEW w \in Seq(Nat)
    PROVE  \E f : Adds(f, w)
<1> DEFINE g == [i \in 1 .. Len(w) |-> [m \in Nat |-> m + w[i]]]
           P(s) == s = [i \in 0 .. Len(w) |->
                          IF i = 0 THEN 0 ELSE s[i - 1] + w[i]]
<1>1. /\ Len(w) \in Nat /\ 0 \in Nat
      /\ g \in [1 .. Len(w) -> [Nat -> Nat]]
  OBVIOUS
<1>2. \A i \in 1 .. Len(w), m \in Nat : g[i][m] = m + w[i]
  OBVIOUS
<1> HIDE DEF g
<1>3. \E f : Goes(f, Len(w), Nat, 0, g)
  BY <1>1, Recursion, Zenon
<1>4. PICK f : Goes(f, Len(w), Nat, 0, g)
  BY <1>3
<1>5. \A n \in 1 .. Len(w) : f[n] = f[n - 1] + w[n]
  <2>1. SUFFICES ASSUME NEW n \in 1 .. Len(w) PROVE f[n] = f[n - 1] + w[n]
    OBVIOUS
  <2>2. f[n - 1] \in Nat /\ f[n] = g[n][f[n - 1]]
    BY <1>1, <1>4 DEF Goes
  <2> QED
    BY <2>2, <1>2
<1>6. P(f)
  BY <1>1, <1>4, <1>5 DEF Goes
<1> DEFINE s == CHOOSE s : P(s)
<1>7. P(s)
  <2> HIDE DEF P
  <2> QED
    BY <1>6, Zenon
<1>8. Total(w) = s[Len(w)]
  BY DEF Total
<1> HIDE DEF s
<1> DEFINE T == {n \in Nat : n <= Len(w) => s[n] = f[n]}
<1>9. 0 \in T
  BY <1>1, <1>7, <1>6
<1>10. ASSUME NEW n \in Nat, n \in T PROVE n + 1 \in T
  BY <1>1, <1>6, <1>7, <1>10
<1> HIDE DEF T
<1>11. Len(w) \in T
  BY <1>1, <1>9, <1>10, Inductive
<1>12. Total(w) = f[Len(w)]
  BY <1>1, <1>8, <1>11 DEF T
<1> QED
  BY <1>4, <1>5, <1>12 DEF Adds, Goes

(* The sum of numbers is a number.                                         *)
LEMMA TotalNat ==
    ASSUME NEW w \in Seq(Nat)
    PROVE  Total(w) \in Nat
<1>1. PICK f : Adds(f, w)
  BY TotalAdds
<1> QED
  BY <1>1 DEF Adds

(* The sum of no numbers is zero.                                          *)
LEMMA TotalEmpty ==
    ASSUME NEW w \in Seq(Nat), Len(w) = 0
    PROVE  Total(w) = 0
<1>1. PICK f : Adds(f, w)
  BY TotalAdds
<1> QED
  BY <1>1 DEF Adds

(* One more at the end.                                                    *)
LEMMA TotalAppend ==
    ASSUME NEW w \in Seq(Nat), NEW x \in Nat
    PROVE  Total(Append(w, x)) = Total(w) + x
<1> DEFINE v == Append(w, x)
<1>0. v \in Seq(Nat) /\ Len(v) = Len(w) + 1 /\ v[Len(v)] = x
      /\ \A i \in 1 .. Len(w) : v[i] = w[i]
  OBVIOUS
<1> HIDE DEF v
<1>1. PICK f : Adds(f, w)
  BY TotalAdds
<1>2. PICK h : Adds(h, v)
  BY <1>0, TotalAdds
<1> DEFINE T == {n \in Nat : n <= Len(w) => h[n] = f[n]}
<1>3. 0 \in T
  BY <1>1, <1>2 DEF Adds
<1>4. ASSUME NEW n \in Nat, n \in T PROVE n + 1 \in T
  <2> SUFFICES ASSUME n + 1 <= Len(w) PROVE h[n + 1] = f[n + 1]
    OBVIOUS
  <2>1. h[n + 1] = h[n] + v[n + 1]
    BY <1>0, <1>2 DEF Adds
  <2>2. f[n + 1] = f[n] + w[n + 1]
    BY <1>1 DEF Adds
  <2>3. h[n] = f[n] /\ v[n + 1] = w[n + 1]
    BY <1>0, <1>4
  <2> QED
    BY <2>1, <2>2, <2>3
<1> HIDE DEF T
<1>5. Len(w) \in T
  BY <1>3, <1>4, Inductive
<1>6. h[Len(w)] = f[Len(w)]
  BY <1>5 DEF T
<1>7. h[Len(v)] = h[Len(w)] + x
  BY <1>0, <1>2 DEF Adds
<1> QED
  BY <1>1, <1>2, <1>6, <1>7 DEF Adds, v

(* One fewer at the start.                                                 *)
LEMMA TotalTail ==
    ASSUME NEW w \in Seq(Nat), w # <<>>
    PROVE  Total(w) = w[1] + Total(Tail(w))
<1> DEFINE v == Tail(w)
<1>0. v \in Seq(Nat) /\ Len(v) \in Nat /\ Len(w) = Len(v) + 1 /\ w[1] \in Nat
      /\ \A i \in 1 .. Len(v) : v[i] = w[i + 1]
  OBVIOUS
<1> HIDE DEF v
<1>1. PICK f : Adds(f, w)
  BY TotalAdds
<1>2. PICK h : Adds(h, v)
  BY <1>0, TotalAdds
<1> DEFINE T == {n \in Nat : n <= Len(v) => f[n + 1] = w[1] + h[n]}
<1>3. 0 \in T
  BY <1>0, <1>1, <1>2 DEF Adds
<1>4. ASSUME NEW n \in Nat, n \in T PROVE n + 1 \in T
  <2> SUFFICES ASSUME n + 1 <= Len(v) PROVE f[n + 2] = w[1] + h[n + 1]
    OBVIOUS
  <2>0. n + 1 \in 1 .. Len(v) /\ n \in 0 .. Len(v) /\ (n + 1) - 1 = n
    BY <1>0
  <2>1. h[n + 1] = h[n] + v[n + 1] /\ h[n] \in Nat
    BY <2>0, <1>2 DEF Adds
  <2>2. f[n + 2] = f[n + 1] + w[n + 2] /\ w[n + 2] \in Nat
    BY <1>0, <1>1 DEF Adds
  <2>3. f[n + 1] = w[1] + h[n] /\ v[n + 1] = w[n + 2]
    BY <1>0, <1>4
  <2> QED
    BY <1>0, <2>1, <2>2, <2>3
<1> HIDE DEF T
<1>5. Len(v) \in T
  BY <1>0, <1>3, <1>4, Inductive
<1>6. f[Len(v) + 1] = w[1] + h[Len(v)]
  BY <1>0, <1>5 DEF T
<1> QED
  BY <1>0, <1>1, <1>2, <1>6 DEF Adds, v

(* No less when nothing is less.                                           *)
LEMMA TotalMono ==
    ASSUME NEW v \in Seq(Nat), NEW w \in Seq(Nat), Len(v) = Len(w),
           \A i \in 1 .. Len(w) : v[i] <= w[i]
    PROVE  Total(v) <= Total(w)
<1>0. Len(w) \in Nat /\ Len(v) = Len(w)
  OBVIOUS
<1>1. PICK f : Adds(f, v)
  BY TotalAdds
<1>2. PICK h : Adds(h, w)
  BY TotalAdds
<1> DEFINE T == {n \in Nat : n <= Len(w) => f[n] <= h[n]}
<1>3. 0 \in T
  BY <1>1, <1>2 DEF Adds
<1>4. ASSUME NEW n \in Nat, n \in T PROVE n + 1 \in T
  <2> SUFFICES ASSUME n + 1 <= Len(w) PROVE f[n + 1] <= h[n + 1]
    OBVIOUS
  <2>0. n + 1 \in 1 .. Len(w) /\ n \in 0 .. Len(w) /\ (n + 1) - 1 = n
    BY <1>0
  <2>5. n + 1 \in 1 .. Len(v) /\ n \in 0 .. Len(v)
    BY <2>0, <1>0
  <2>6. v[n + 1] \in Nat /\ w[n + 1] \in Nat
    BY <2>0, <2>5
  <2>1. f[n + 1] = f[n] + v[n + 1] /\ f[n] \in Nat /\ v[n + 1] \in Nat
    BY <2>6, <2>5, <2>0, <1>1 DEF Adds
  <2>2. h[n + 1] = h[n] + w[n + 1] /\ h[n] \in Nat /\ w[n + 1] \in Nat
    BY <2>6, <2>0, <1>2 DEF Adds
  <2>3. f[n] <= h[n] /\ v[n + 1] <= w[n + 1]
    BY <1>4
  <2> QED
    BY <2>1, <2>2, <2>3
<1> HIDE DEF T
<1>5. Len(w) \in T
  BY <1>0, <1>3, <1>4, Inductive
<1> QED
  BY <1>1, <1>2, <1>5 DEF Adds, T

(* One of them changed.                                                    *)
LEMMA TotalPlus ==
    ASSUME NEW w \in Seq(Nat), NEW v \in Seq(Nat), Len(v) = Len(w),
           NEW k \in 1 .. Len(w), NEW d \in Nat, v[k] = w[k] + d,
           \A i \in 1 .. Len(w) : i # k => v[i] = w[i]
    PROVE  Total(v) = Total(w) + d
<1>0. Len(w) \in Nat /\ Len(v) = Len(w)
  OBVIOUS
<1>1. PICK f : Adds(f, w)
  BY TotalAdds
<1>2. PICK h : Adds(h, v)
  BY TotalAdds
<1> DEFINE T == {n \in Nat : n <= Len(w) =>
                   h[n] = IF n < k THEN f[n] ELSE f[n] + d}
<1>3. 0 \in T
  BY <1>1, <1>2 DEF Adds
<1>4. ASSUME NEW n \in Nat, n \in T PROVE n + 1 \in T
  <2> SUFFICES ASSUME n + 1 <= Len(w)
               PROVE  h[n + 1] = IF n + 1 < k THEN f[n + 1] ELSE f[n + 1] + d
    OBVIOUS
  <2>0. n + 1 \in 1 .. Len(w) /\ n \in 0 .. Len(w) /\ (n + 1) - 1 = n
    BY <1>0
  <2>5. n + 1 \in 1 .. Len(v) /\ n \in 0 .. Len(v)
    BY <2>0, <1>0
  <2>6. v[n + 1] \in Nat /\ w[n + 1] \in Nat
    BY <2>0, <2>5
  <2>1. f[n + 1] = f[n] + w[n + 1] /\ f[n] \in Nat /\ w[n + 1] \in Nat
    BY <2>6, <2>0, <1>1 DEF Adds
  <2>2. h[n + 1] = h[n] + v[n + 1]
    BY <1>0, <2>0, <1>2 DEF Adds
  <2>3. h[n] = IF n < k THEN f[n] ELSE f[n] + d
    BY <1>4
  <2>4. v[n + 1] = IF n + 1 = k THEN w[n + 1] + d ELSE w[n + 1]
    OBVIOUS
  <2> QED
    BY <2>1, <2>2, <2>3, <2>4
<1> HIDE DEF T
<1>5. Len(w) \in T
  BY <1>0, <1>3, <1>4, Inductive
<1> QED
  BY <1>1, <1>2, <1>5 DEF Adds, T

-----------------------------------------------------------------------------
(* The two matchers.                                                       *)
RegexRows(f, p, t) ==
    /\ f \in [0 .. Len(p) -> SUBSET Nat] /\ f[0] = {Len(t) + 1}
    /\ \A n \in 1 .. Len(p) : f[n] = RegexStep(p, t, n, f[n - 1])

GlobRows(f, p, t) ==
    /\ f \in [0 .. Len(p) -> SUBSET Nat] /\ f[0] = {Len(t) + 1}
    /\ \A n \in 1 .. Len(p) : f[n] = GlobStep(p, t, n, f[n - 1])

(* The places of a path are numbers.                                       *)
LEMMA PlacesNat ==
    ASSUME NEW t, Len(t) \in Nat
    PROVE  Places(t) \subseteq Nat
BY DEF Places

(* One element of a pattern leads from places to places, as                *)
(* globMatchNoCase reads it.                                               *)
LEMMA GlobStepNat ==
    ASSUME NEW p, NEW t, Len(t) \in Nat, NEW n, NEW next \in SUBSET Nat
    PROVE  GlobStep(p, t, n, next) \in SUBSET Nat
<1>1. Places(t) \subseteq Nat /\ 1 .. Len(t) \subseteq Nat
  BY PlacesNat
<1> QED
  BY <1>1 DEF GlobStep, Stand

(* One element of an expression leads from places to places, as clamscan   *)
(* reads it.                                                               *)
LEMMA RegexStepNat ==
    ASSUME NEW p, NEW t, Len(t) \in Nat, NEW n, NEW next \in SUBSET Nat
    PROVE  RegexStep(p, t, n, next) \in SUBSET Nat
<1>1. Places(t) \subseteq Nat /\ 1 .. Len(t) \subseteq Nat
  BY PlacesNat
<1> QED
  BY <1>1 DEF RegexStep, Stand

(* The recursion of each matcher.                                          *)
LEMMA GlobIs ==
    ASSUME NEW p, Len(p) \in Nat, NEW t, Len(t) \in Nat
    PROVE  \E f : GlobRows(f, p, t) /\ (globMatchNoCase(p, t) <=> 1 \in f[Len(p)])
<1> DEFINE g == [n \in 1 .. Len(p) |-> [X \in SUBSET Nat |-> GlobStep(p, t, n, X)]]
           a == {Len(t) + 1}
           P(s) == s = [n \in 0 .. Len(p) |->
                          IF n = 0 THEN {Len(t) + 1} ELSE GlobStep(p, t, n, s[n - 1])]
<1>1. a \in SUBSET Nat
  OBVIOUS
<1>2. \A n \in 1 .. Len(p), X \in SUBSET Nat :
        GlobStep(p, t, n, X) \in SUBSET Nat /\ g[n][X] = GlobStep(p, t, n, X)
  BY GlobStepNat
<1>3. g \in [1 .. Len(p) -> [SUBSET Nat -> SUBSET Nat]]
  BY <1>2
<1> HIDE DEF g, a
<1>4. \E f : Goes(f, Len(p), SUBSET Nat, a, g)
  BY <1>1, <1>3, Recursion, Zenon
<1>5. PICK f : Goes(f, Len(p), SUBSET Nat, a, g)
  BY <1>4
<1>6. ASSUME NEW n \in 1 .. Len(p) PROVE f[n] = GlobStep(p, t, n, f[n - 1])
  <2>1. f[n - 1] \in SUBSET Nat /\ f[n] = g[n][f[n - 1]]
    BY <1>5 DEF Goes
  <2> QED
    BY <2>1, <1>2
<1>7. P(f)
  BY <1>5, <1>6 DEF Goes, a
<1> DEFINE s == CHOOSE s : P(s)
<1>8. P(s)
  <2> HIDE DEF P
  <2> QED
    BY <1>7, Zenon
<1>9. globMatchNoCase(p, t) <=> 1 \in s[Len(p)]
  BY DEF globMatchNoCase
<1> HIDE DEF s
<1> DEFINE T == {n \in Nat : n <= Len(p) => s[n] = f[n]}
<1>10. 0 \in T
  BY <1>7, <1>8
<1>11. ASSUME NEW n \in Nat, n \in T PROVE n + 1 \in T
  <2> SUFFICES ASSUME n + 1 <= Len(p) PROVE s[n + 1] = f[n + 1]
    OBVIOUS
  <2>1. n + 1 \in 0 .. Len(p) /\ n + 1 # 0 /\ (n + 1) - 1 = n
    OBVIOUS
  <2>2. s[n + 1] = GlobStep(p, t, n + 1, s[n])
    BY <1>8, <2>1
  <2>3. f[n + 1] = GlobStep(p, t, n + 1, f[n])
    BY <1>7, <2>1
  <2>4. s[n] = f[n]
    BY <1>11
  <2> QED
    BY <2>2, <2>3, <2>4
<1> HIDE DEF T
<1>12. Len(p) \in T
  BY <1>10, <1>11, Inductive
<1>13. s[Len(p)] = f[Len(p)]
  BY <1>12 DEF T
<1>14. GlobRows(f, p, t)
  BY <1>5, <1>6 DEF Goes, GlobRows, a
<1> QED
  BY <1>9, <1>13, <1>14

(* What clamscan's matcher says, by its table of places.                   *)
LEMMA RegexIs ==
    ASSUME NEW r, Len(r.items) \in Nat, NEW t, Len(t) \in Nat
    PROVE  \E f : /\ RegexRows(f, r.items, t)
                  /\ RegexMatch(r, t) <=> \E j \in f[Len(r.items)] : r.anchored => j = 1
<1> DEFINE p == r.items
           g == [n \in 1 .. Len(p) |-> [X \in SUBSET Nat |-> RegexStep(p, t, n, X)]]
           a == {Len(t) + 1}
           P(s) == s = [n \in 0 .. Len(r.items) |->
                          IF n = 0 THEN {Len(t) + 1} ELSE RegexStep(r.items, t, n, s[n - 1])]
<1>1. a \in SUBSET Nat
  OBVIOUS
<1>2. \A n \in 1 .. Len(p), X \in SUBSET Nat :
        RegexStep(p, t, n, X) \in SUBSET Nat /\ g[n][X] = RegexStep(p, t, n, X)
  BY RegexStepNat
<1>3. g \in [1 .. Len(p) -> [SUBSET Nat -> SUBSET Nat]]
  BY <1>2
<1> HIDE DEF g, a
<1>4. \E f : Goes(f, Len(p), SUBSET Nat, a, g)
  BY <1>1, <1>3, Recursion, Zenon
<1>5. PICK f : Goes(f, Len(p), SUBSET Nat, a, g)
  BY <1>4
<1>6. ASSUME NEW n \in 1 .. Len(p) PROVE f[n] = RegexStep(p, t, n, f[n - 1])
  <2>1. f[n - 1] \in SUBSET Nat /\ f[n] = g[n][f[n - 1]]
    BY <1>5 DEF Goes
  <2> QED
    BY <2>1, <1>2
<1>7. P(f)
  BY <1>5, <1>6 DEF Goes, a
<1> DEFINE s == CHOOSE s : P(s)
<1>8. P(s)
  <2> HIDE DEF P
  <2> QED
    BY <1>7, Zenon
<1>9. RegexMatch(r, t) <=> \E j \in s[Len(p)] : r.anchored => j = 1
  BY DEF RegexMatch
<1> HIDE DEF s
<1> DEFINE T == {n \in Nat : n <= Len(p) => s[n] = f[n]}
<1>10. 0 \in T
  BY <1>7, <1>8
<1>11. ASSUME NEW n \in Nat, n \in T PROVE n + 1 \in T
  <2> SUFFICES ASSUME n + 1 <= Len(p) PROVE s[n + 1] = f[n + 1]
    OBVIOUS
  <2>1. n + 1 \in 0 .. Len(p) /\ n + 1 # 0 /\ (n + 1) - 1 = n
    OBVIOUS
  <2>2. s[n + 1] = RegexStep(p, t, n + 1, s[n])
    BY <1>8, <2>1
  <2>3. f[n + 1] = RegexStep(p, t, n + 1, f[n])
    BY <1>7, <2>1
  <2>4. s[n] = f[n]
    BY <1>11
  <2> QED
    BY <2>2, <2>3, <2>4
<1> HIDE DEF T
<1>12. Len(p) \in T
  BY <1>10, <1>11, Inductive
<1>13. s[Len(p)] = f[Len(p)]
  BY <1>12 DEF T
<1>14. RegexRows(f, p, t)
  BY <1>5, <1>6 DEF Goes, RegexRows, a
<1> QED
  BY <1>9, <1>13, <1>14

(* Masks: nothing in them stands for a separator.                          *)
Plain(p) ==
    \A i \in 1 .. Len(p) : p[i].neg = "" /\ p[i].of \cap Separators = {}

(* An element without a negation and without separators never stands for   *)
(* a separator.                                                            *)
LEMMA PlainStands ==
    ASSUME NEW e, e.neg = "", e.of \cap Separators = {}, NEW c, Stands(e, c)
    PROVE  c \notin Separators
BY DEF Stands, ClassMatch

(* What a mask's last elements match has no separator.                     *)
LEMMA Consumes ==
    ASSUME NEW p \in Seq(Elements), Plain(p), p # <<>>, p[Len(p)].kind # "star",
           NEW t, Len(t) \in Nat, NEW f, RegexRows(f, p, t)
    PROVE  \A n \in 1 .. Len(p) : \A j \in f[n] :
              j \in 1 .. Len(t) /\ Stays(t, j, Len(t))
<1> DEFINE T == {n \in Nat : n \in 1 .. Len(p) => \A j \in f[n] :
                   j \in 1 .. Len(t) /\ Stays(t, j, Len(t))}
<1>1. 0 \in T
  OBVIOUS
<1>2. ASSUME NEW n \in Nat, n \in T PROVE n + 1 \in T
  <2> SUFFICES ASSUME n + 1 <= Len(p), NEW j \in f[n + 1]
               PROVE  j \in 1 .. Len(t) /\ Stays(t, j, Len(t))
    OBVIOUS
  <2> DEFINE m == Len(p) - (n + 1) + 1
             e == p[m]
  <2>1. m \in 1 .. Len(p) /\ n + 1 \in 1 .. Len(p) /\ (n + 1) - 1 = n
    OBVIOUS
  <2>2. f[n + 1] = RegexStep(p, t, n + 1, f[n])
    BY <2>1 DEF RegexRows
  <2>3. e.neg = "" /\ e.of \cap Separators = {}
    BY <2>1 DEF Plain
  <2>4. CASE e.kind # "star"
    <3>1. j \in Stand(e, t, f[n])
      BY <2>2, <2>4 DEF RegexStep
    <3>2. j \in 1 .. Len(t) /\ Stands(e, t[j]) /\ j + 1 \in f[n]
      BY <3>1 DEF Stand
    <3> HIDE DEF e, m
    <3>3. t[j] \notin Separators
      BY <3>2, <2>3, PlainStands
    <3>4. CASE n = 0
      <4>1. f[n] = {Len(t) + 1}
        BY <3>4 DEF RegexRows
      <4> QED
        BY <4>1, <3>2, <3>3 DEF Stays
    <3>5. CASE n # 0
      <4>1. n \in 1 .. Len(p)
        BY <3>5
      <4>2. Stays(t, j + 1, Len(t))
        BY <4>1, <1>2, <3>2
      <4> QED
        BY <4>2, <3>2, <3>3 DEF Stays
    <3> QED
      BY <3>4, <3>5
  <2>5. CASE e.kind = "star"
    <3>1. n \in 1 .. Len(p)
      BY <2>1, <2>5
    <3>2. j \in Places(t) /\ \E k \in j .. Len(t) + 1 :
             Stays(t, j, k - 1) /\ k \in f[n]
      BY <2>2, <2>5 DEF RegexStep
    <3> HIDE DEF e, m
    <3>3. PICK k \in j .. Len(t) + 1 : Stays(t, j, k - 1) /\ k \in f[n]
      BY <3>2
    <3>4. k \in 1 .. Len(t) /\ Stays(t, k, Len(t))
      BY <3>1, <3>3, <1>2
    <3>5. j \in 1 .. Len(t) + 1
      BY <3>2 DEF Places
    <3> QED
      BY <3>3, <3>4, <3>5 DEF Stays
  <2> QED
    BY <2>4, <2>5
<1> HIDE DEF T
<1>3. Nat \subseteq T
  BY <1>1, <1>2, Inductive
<1> QED
  BY <1>3 DEF T

(* On a mask the two matchers find the same.                               *)
LEMMA SameRows ==
    ASSUME NEW p \in Seq(Elements), Plain(p), p # <<>>, p[Len(p)].kind # "star",
           NEW t, Len(t) \in Nat, NEW f, RegexRows(f, p, t), NEW h, GlobRows(h, p, t)
    PROVE  \A n \in 0 .. Len(p) : h[n] = f[n]
<1> DEFINE T == {n \in Nat : n \in 0 .. Len(p) => h[n] = f[n]}
<1>1. 0 \in T
  BY DEF RegexRows, GlobRows
<1>2. ASSUME NEW n \in Nat, n \in T PROVE n + 1 \in T
  <2> SUFFICES ASSUME n + 1 <= Len(p)
               PROVE  h[n + 1] = f[n + 1]
    OBVIOUS
  <2> DEFINE m == Len(p) - (n + 1) + 1
             e == p[m]
  <2>1. m \in 1 .. Len(p) /\ n + 1 \in 1 .. Len(p) /\ (n + 1) - 1 = n /\ n \in 0 .. Len(p)
    OBVIOUS
  <2>2. f[n + 1] = RegexStep(p, t, n + 1, f[n])
    BY <2>1 DEF RegexRows
  <2>3. h[n + 1] = GlobStep(p, t, n + 1, f[n])
    BY <2>1, <1>2 DEF GlobRows
  <2>4. CASE e.kind # "star"
    BY <2>2, <2>3, <2>4 DEF RegexStep, GlobStep
  <2>5. CASE e.kind = "star"
    <3>1. n \in 1 .. Len(p) /\ n + 1 # 1
      BY <2>1, <2>5
    <3>2. f[n + 1] = {j \in Places(t) : \E k \in j .. Len(t) + 1 :
                        Stays(t, j, k - 1) /\ k \in f[n]}
      BY <2>2, <2>5 DEF RegexStep
    <3>3. \A k \in f[n] : k \in 1 .. Len(t) /\ Stays(t, k, Len(t))
      BY <3>1, Consumes
    <3> DEFINE m2 == Len(p) - (n + 1) + 2
    <3>4. CASE p[m2].kind = "star"
      <4>1. h[n + 1] = f[n]
        BY <2>3, <2>5, <3>1, <3>4 DEF GlobStep
      <4>2. m2 = Len(p) - n + 1
        OBVIOUS
      <4> DEFINE b == f[n - 1]
      <4>3. f[n] = RegexStep(p, t, n, b)
        BY <3>1 DEF RegexRows
      <4>4. f[n] = {j \in Places(t) : \E k \in j .. Len(t) + 1 :
                      Stays(t, j, k - 1) /\ k \in b}
        BY <4>2, <4>3, <3>4 DEF RegexStep
      <4> HIDE DEF b, m2, m, e
      <4>5. ASSUME NEW j \in f[n] PROVE j \in f[n + 1]
        <5>1. j \in Places(t) /\ j \in 1 .. Len(t)
          BY <4>4, <4>5, <3>3
        <5>2. j \in j .. Len(t) + 1 /\ Stays(t, j, j - 1)
          BY <5>1 DEF Stays
        <5> QED
          BY <5>1, <5>2, <4>5, <3>2
      <4>6. ASSUME NEW j \in f[n + 1] PROVE j \in f[n]
        <5>1. PICK k \in j .. Len(t) + 1 : Stays(t, j, k - 1) /\ k \in f[n]
          BY <3>2
        <5>2. PICK i \in k .. Len(t) + 1 : Stays(t, k, i - 1) /\ i \in b
          BY <5>1, <4>4
        <5>3. j \in Places(t) /\ j \in Nat /\ k \in Nat
          BY <3>2, <5>1, <3>3 DEF Places
        <5>4. i \in j .. Len(t) + 1 /\ Stays(t, j, i - 1)
          BY <5>1, <5>2, <5>3 DEF Stays
        <5> QED
          BY <5>2, <5>3, <5>4, <4>4
      <4> QED
        BY <4>1, <4>5, <4>6
    <3>5. CASE p[m2].kind # "star"
      <4>1. h[n + 1] = {j \in Places(t) : \E k \in j .. Len(t) :
                          Stays(t, j, k) /\ k \in f[n]}
        BY <2>3, <2>5, <3>1, <3>5 DEF GlobStep
      <4> HIDE DEF m2, m, e
      <4>2. ASSUME NEW j \in Places(t)
            PROVE  (\E k \in j .. Len(t) : Stays(t, j, k) /\ k \in f[n])
                     <=> (\E k \in j .. Len(t) + 1 : Stays(t, j, k - 1) /\ k \in f[n])
        <5>1. j \in Nat
          BY DEF Places
        <5>2. ASSUME NEW k \in j .. Len(t), Stays(t, j, k), k \in f[n]
              PROVE  k \in j .. Len(t) + 1 /\ Stays(t, j, k - 1)
          BY <5>1, <5>2 DEF Stays
        <5>3. ASSUME NEW k \in j .. Len(t) + 1, Stays(t, j, k - 1), k \in f[n]
              PROVE  k \in j .. Len(t) /\ Stays(t, j, k)
          BY <5>1, <5>3, <3>3 DEF Stays
        <5> QED
          BY <5>2, <5>3
      <4> QED
        BY <4>1, <4>2, <3>2
    <3> QED
      BY <3>4, <3>5
  <2> QED
    BY <2>4, <2>5
<1> HIDE DEF T
<1>3. Nat \subseteq T
  BY <1>1, <1>2, Inductive
<1> QED
  BY <1>3 DEF T

(* Matching the end of a text is matching that text from there.            *)
LEMMA Shift ==
    ASSUME NEW p \in Seq(Elements), NEW t \in Seq(STRING), NEW d \in 0 .. Len(t),
           NEW s \in Seq(STRING), Len(s) = Len(t) - d,
           \A i \in 1 .. Len(s) : s[i] = t[i + d],
           NEW f, RegexRows(f, p, t), NEW g, RegexRows(g, p, s)
    PROVE  \A n \in 0 .. Len(p) : \A j \in 1 .. Len(s) + 1 :
              j \in g[n] <=> j + d \in f[n]
<1> DEFINE T == {n \in Nat : n \in 0 .. Len(p) => \A j \in 1 .. Len(s) + 1 :
                    j \in g[n] <=> j + d \in f[n]}
<1>0. Len(t) \in Nat /\ Len(s) \in Nat /\ d \in Nat
  OBVIOUS
<1>1. 0 \in T
  BY <1>0 DEF RegexRows
<1>2. ASSUME NEW n \in Nat, n \in T PROVE n + 1 \in T
  <2> SUFFICES ASSUME n + 1 <= Len(p), NEW j \in 1 .. Len(s) + 1
               PROVE  j \in g[n + 1] <=> j + d \in f[n + 1]
    OBVIOUS
  <2> DEFINE m == Len(p) - (n + 1) + 1
             e == p[m]
  <2>1. m \in 1 .. Len(p) /\ n + 1 \in 1 .. Len(p) /\ (n + 1) - 1 = n /\ n \in 0 .. Len(p)
    OBVIOUS
  <2>2. f[n + 1] = RegexStep(p, t, n + 1, f[n]) /\ g[n + 1] = RegexStep(p, s, n + 1, g[n])
    BY <2>1 DEF RegexRows
  <2>3. \A k \in 1 .. Len(s) + 1 : k \in g[n] <=> k + d \in f[n]
    BY <2>1, <1>2
  <2>4. CASE e.kind # "star"
    <3>1. f[n + 1] = Stand(e, t, f[n]) /\ g[n + 1] = Stand(e, s, g[n])
      BY <2>2, <2>4 DEF RegexStep
    <3> HIDE DEF e, m
    <3>2. j \in g[n + 1] <=> j \in 1 .. Len(s) /\ Stands(e, s[j]) /\ j + 1 \in g[n]
      BY <3>1 DEF Stand
    <3>3. j + d \in f[n + 1]
             <=> j + d \in 1 .. Len(t) /\ Stands(e, t[j + d]) /\ (j + d) + 1 \in f[n]
      BY <3>1 DEF Stand
    <3>4. j \in 1 .. Len(s) <=> j + d \in 1 .. Len(t)
      BY <1>0
    <3>5. j \in 1 .. Len(s) => s[j] = t[j + d]
      OBVIOUS
    <3>6. j \in 1 .. Len(s) => (j + 1 \in g[n] <=> (j + d) + 1 \in f[n])
      <4> SUFFICES ASSUME j \in 1 .. Len(s) PROVE j + 1 \in g[n] <=> (j + d) + 1 \in f[n]
        OBVIOUS
      <4>1. j + 1 \in 1 .. Len(s) + 1 /\ (j + 1) + d = (j + d) + 1
        BY <1>0
      <4>2. j + 1 \in g[n] <=> (j + 1) + d \in f[n]
        BY <4>1, <2>3
      <4> QED
        BY <4>1, <4>2
    <3> QED
      BY <3>2, <3>3, <3>4, <3>5, <3>6
  <2>5. CASE e.kind = "star"
    <3>1. /\ f[n + 1] = {i \in Places(t) : \E k \in i .. Len(t) + 1 :
                           Stays(t, i, k - 1) /\ k \in f[n]}
          /\ g[n + 1] = {i \in Places(s) : \E k \in i .. Len(s) + 1 :
                           Stays(s, i, k - 1) /\ k \in g[n]}
      BY <2>2, <2>5 DEF RegexStep
    <3> HIDE DEF e, m
    <3>2. j \in Places(s) /\ j + d \in Places(t)
      BY <1>0 DEF Places
    <3>3. ASSUME NEW k \in j .. Len(s) + 1
          PROVE  /\ k + d \in j + d .. Len(t) + 1 /\ (k \in g[n] <=> k + d \in f[n])
                 /\ Stays(s, j, k - 1) <=> Stays(t, j + d, (k + d) - 1)
      <4>1. k \in 1 .. Len(s) + 1 /\ k + d \in j + d .. Len(t) + 1
        BY <1>0
      <4>2. k \in g[n] <=> k + d \in f[n]
        BY <4>1, <2>3
      <4>3. ASSUME Stays(s, j, k - 1), NEW i \in j + d .. (k + d) - 1
            PROVE  t[i] \notin Separators
        <5>1. i - d \in j .. k - 1 /\ i - d \in 1 .. Len(s) /\ (i - d) + d = i
          BY <1>0, <4>1
        <5>2. s[i - d] = t[(i - d) + d]
          BY <5>1
        <5> QED
          BY <4>3, <5>1, <5>2 DEF Stays
      <4>4. ASSUME Stays(t, j + d, (k + d) - 1), NEW i \in j .. k - 1
            PROVE  s[i] \notin Separators
        <5>1. i + d \in j + d .. (k + d) - 1 /\ i \in 1 .. Len(s)
          BY <1>0, <4>1
        <5>2. s[i] = t[i + d]
          BY <5>1
        <5> QED
          BY <4>4, <5>1, <5>2 DEF Stays
      <4> QED
        BY <4>1, <4>2, <4>3, <4>4 DEF Stays
    <3>4. ASSUME j \in g[n + 1] PROVE j + d \in f[n + 1]
      <4>1. PICK k \in j .. Len(s) + 1 : Stays(s, j, k - 1) /\ k \in g[n]
        BY <3>1, <3>4
      <4>2. /\ k + d \in j + d .. Len(t) + 1 /\ k + d \in f[n]
            /\ Stays(t, j + d, (k + d) - 1)
        BY <4>1, <3>3
      <4> QED
        BY <4>2, <3>1, <3>2
    <3>5. ASSUME j + d \in f[n + 1] PROVE j \in g[n + 1]
      <4>1. PICK i \in j + d .. Len(t) + 1 : Stays(t, j + d, i - 1) /\ i \in f[n]
        BY <3>1, <3>5
      <4>2. i - d \in j .. Len(s) + 1 /\ (i - d) + d = i
        BY <1>0
      <4>3. Stays(s, j, (i - d) - 1) /\ i - d \in g[n]
        <5>1. i - d \in g[n] <=> (i - d) + d \in f[n]
          BY <4>2, <3>3
        <5>2. Stays(s, j, (i - d) - 1) <=> Stays(t, j + d, ((i - d) + d) - 1)
          BY <4>2, <3>3
        <5> QED
          BY <4>1, <4>2, <5>1, <5>2
      <4> QED
        BY <4>2, <4>3, <3>1, <3>2
    <3> QED
      BY <3>4, <3>5
  <2> QED
    BY <2>4, <2>5
<1> HIDE DEF T
<1>3. Nat \subseteq T
  BY <1>1, <1>2, Inductive
<1> QED
  BY <1>3 DEF T

(* Nothing but stars matches everything.                                   *)
LEMMA StarsMatch ==
    ASSUME NEW r, NEW p \in Seq(Elements), p # <<>>, r = [anchored |-> FALSE, items |-> p],
           \A i \in 1 .. Len(p) : p[i].kind = "star", NEW t \in Seq(STRING)
    PROVE  globMatchNoCase(p, t) /\ RegexMatch(r, t)
<1>0. Len(p) \in Nat /\ Len(t) \in Nat /\ Len(p) >= 1 /\ r.items = p /\ r.anchored = FALSE
  OBVIOUS
<1>1. PICK h : GlobRows(h, p, t) /\ (globMatchNoCase(p, t) <=> 1 \in h[Len(p)])
  BY <1>0, GlobIs
<1>2. PICK f : /\ RegexRows(f, p, t)
               /\ RegexMatch(r, t) <=> \E j \in f[Len(p)] : r.anchored => j = 1
  BY <1>0, RegexIs
<1> DEFINE T == {n \in Nat : n <= Len(p) =>
                   /\ n > 0 => h[n] = Places(t)
                   /\ Len(t) + 1 \in f[n]}
<1>3. 0 \in T
  BY <1>2 DEF RegexRows
<1>4. ASSUME NEW n \in Nat, n \in T PROVE n + 1 \in T
  <2> SUFFICES ASSUME n + 1 <= Len(p) PROVE h[n + 1] = Places(t) /\ Len(t) + 1 \in f[n + 1]
    OBVIOUS
  <2>1. n + 1 \in 1 .. Len(p) /\ (n + 1) - 1 = n /\ Len(p) - (n + 1) + 1 \in 1 .. Len(p)
        /\ (n > 0 => Len(p) - (n + 1) + 2 \in 1 .. Len(p))
    BY <1>0
  <2>2. f[n + 1] = RegexStep(p, t, n + 1, f[n]) /\ h[n + 1] = GlobStep(p, t, n + 1, h[n])
    BY <2>1, <1>1, <1>2 DEF RegexRows, GlobRows
  <2>3. p[Len(p) - (n + 1) + 1].kind = "star" /\ (n > 0 => p[Len(p) - (n + 1) + 2].kind = "star")
    BY <2>1
  <2>4. h[n + 1] = Places(t)
    BY <2>2, <2>3, <1>4 DEF GlobStep
  <2>5. Len(t) + 1 \in Places(t) /\ Len(t) + 1 \in Len(t) + 1 .. Len(t) + 1
        /\ Stays(t, Len(t) + 1, (Len(t) + 1) - 1) /\ Len(t) + 1 \in f[n]
    BY <1>0, <1>4 DEF Places, Stays
  <2>6. f[n + 1] = {i \in Places(t) : \E k \in i .. Len(t) + 1 :
                           Stays(t, i, k - 1) /\ k \in f[n]}
    BY <2>2, <2>3 DEF RegexStep
  <2> QED
    BY <2>4, <2>5, <2>6
<1> HIDE DEF T
<1>5. Len(p) \in T
  BY <1>0, <1>3, <1>4, Inductive
<1>6. h[Len(p)] = Places(t) /\ Len(t) + 1 \in f[Len(p)]
  BY <1>0, <1>5 DEF T
<1>7. 1 \in Places(t)
  BY <1>0 DEF Places
<1> QED
  BY <1>0, <1>1, <1>2, <1>6, <1>7

(* The name of a file is what follows the last separator of its path.      *)
LEMMA FileNameIs ==
    ASSUME NEW t \in Seq(STRING)
    PROVE  \E d \in 0 .. Len(t) :
             /\ FileName(t) \in Seq(STRING) /\ Len(FileName(t)) = Len(t) - d
             /\ \A i \in 1 .. Len(t) - d : FileName(t)[i] = t[i + d]
             /\ Stays(t, d + 1, Len(t))
             /\ d = 0 \/ t[d] \in Separators
<1> DEFINE Q(n) == /\ \A i \in n .. Len(t) : t[i] \notin Separators
                   /\ n = 1 \/ t[n - 1] \in Separators
           S == {n \in 1 .. Len(t) + 1 : \A i \in n .. Len(t) : t[i] \notin Separators}
           from == CHOOSE n \in 1 .. Len(t) + 1 : Q(n)
<1>0. Len(t) \in Nat
  OBVIOUS
<1>1. S \in SUBSET Nat /\ Len(t) + 1 \in S
  BY <1>0
<1>2. PICK n \in S : \A m \in S : n <= m
  BY <1>1, Least
<1>3. Q(n)
  <2>1. CASE n = 1
    BY <2>1
  <2>2. CASE n # 1
    <3>1. n - 1 \in 1 .. Len(t) + 1 /\ n - 1 \notin S
      BY <1>0, <1>2, <2>2
    <3>2. PICK i \in n - 1 .. Len(t) : t[i] \in Separators
      BY <3>1
    <3>3. i = n - 1
      BY <3>2, <1>0
    <3> QED
      BY <3>2, <3>3
  <2> QED
    BY <2>1, <2>2
<1>4. from \in 1 .. Len(t) + 1 /\ Q(from)
  <2> HIDE DEF Q
  <2>1. \E k \in 1 .. Len(t) + 1 : Q(k)
    BY <1>3
  <2> QED
    BY <2>1
<1>5. FileName(t) = SubSeq(t, from, Len(t))
  BY DEF FileName
<1> HIDE DEF from
<1> DEFINE d == from - 1
<1>6. d \in 0 .. Len(t) /\ d + 1 = from
  BY <1>0, <1>4
<1>7. FileName(t) \in Seq(STRING) /\ Len(FileName(t)) = Len(t) - d
  BY <1>0, <1>4, <1>5
<1>8. \A i \in 1 .. Len(t) - d : FileName(t)[i] = t[i + d]
  BY <1>0, <1>4, <1>5
<1>9. Stays(t, d + 1, Len(t)) /\ (d = 0 \/ t[d] \in Separators)
  BY <1>4, <1>6 DEF Stays
<1> QED
  BY <1>6, <1>7, <1>8, <1>9

(* For masks the expression that clamscan gets has the mask's elements.    *)
LEMMA MaskExpression ==
    ASSUME NEW q \in Patterns, IsMask(q)
    PROVE  Expression(q) = [anchored |-> FALSE, items |-> q.text] /\ Plain(q.text)
<1> DEFINE p == q.text
<1>0. p \in Seq(Elements)
  BY DEF Patterns
<1>1. p \in Seq(Elements) /\ ~q.isRegex /\ DOMAIN p = 1 .. Len(p)
  <2>1. ~q.isRegex
    BY DEF IsMask
  <2> QED
    BY <1>0, <2>1
<1>2. \A i \in DOMAIN p : p[i].neg = "" /\ p[i].of \cap Separators = {} /\ p[i] \in Elements
  <2>1. \A i \in DOMAIN p : p[i].neg = "" /\ p[i].of \cap Separators = {}
    BY DEF IsMask
  <2>2. \A i \in DOMAIN p : p[i] \in Elements
    BY <1>0
  <2> QED
    BY <2>1, <2>2
<1>3. ASSUME NEW e \in Elements, e.neg = "", e.of \cap Separators = {} PROVE Translated(e) = e
  <2>0. e \in [kind : {"star", "one", "char", "class"}, neg : {"", "!", "^"}, of : SUBSET STRING]
        /\ (e.kind = "char" => e.of # {})
    BY DEF Elements
  <2>1. CASE e.kind = "class"
    <3>1. Translated(e) = [e EXCEPT !.neg = IF @ = "^" THEN "" ELSE @,
                                !.of = IF e.neg = "^" THEN @ \cup {"\\", "^"} ELSE @]
      BY <2>1 DEF Translated
    <3>2. Translated(e) = [e EXCEPT !.neg = e.neg, !.of = e.of]
      BY <3>1, <1>3
    <3> QED
      BY <3>2, <2>0
  <2>2. CASE e.kind # "class"
    <3>1. ~(e.kind = "char" /\ e.of \subseteq Separators)
      BY <2>0, <1>3
    <3> QED
      BY <2>2, <3>1 DEF Translated
  <2> QED
    BY <2>1, <2>2
<1>4. [i \in DOMAIN p |-> Translated(p[i])] = p
  <2>1. \A i \in DOMAIN p : Translated(p[i]) = p[i]
    BY <1>2, <1>3
  <2> QED
    BY <2>1, <1>1
<1>5. ~ \E i \in DOMAIN p : p[i].of \cap Separators # {}
  BY <1>2
<1>6. globToClamscanRegex(p) = [anchored |-> FALSE, items |-> p]
  BY <1>4, <1>5 DEF globToClamscanRegex
<1> QED
  BY <1>1, <1>2, <1>6 DEF Expression, Plain

(* A mask matches the name of a file or its path, as the dialog tries it,  *)
(* just if its expression is found in the path, as clamscan does.          *)
THEOREM MasksAgree ==
    ASSUME NEW q \in Patterns, IsMask(q), NEW t \in Seq(STRING)
    PROVE  globMatchNoCase(q.text, FileName(t)) \/ globMatchNoCase(q.text, t)
             <=> RegexMatch(Expression(q), t)
<1> DEFINE p == q.text
           r == Expression(q)
           s == FileName(t)
<1>1. /\ p \in Seq(Elements) /\ p # <<>> /\ p[1].kind = "star"
      /\ p[Len(p)].kind = "star" => \A i \in DOMAIN p : p[i].kind = "star"
  BY DEF Patterns, IsMask
<1>2. r = [anchored |-> FALSE, items |-> p] /\ Plain(p)
  BY MaskExpression
<1>3. PICK d \in 0 .. Len(t) :
        /\ s \in Seq(STRING) /\ Len(s) = Len(t) - d
        /\ \A i \in 1 .. Len(t) - d : s[i] = t[i + d]
        /\ Stays(t, d + 1, Len(t))
        /\ d = 0 \/ t[d] \in Separators
  BY FileNameIs
<1> HIDE DEF p, r, s
<1>4. CASE p[Len(p)].kind = "star"
  <2>1. globMatchNoCase(p, t) /\ RegexMatch(r, t)
    BY <1>1, <1>2, <1>4, StarsMatch
  <2> QED
    BY <2>1 DEF p, r, s
<1>5. CASE p[Len(p)].kind # "star"
  <2>0. Len(p) \in Nat /\ Len(t) \in Nat /\ Len(s) \in Nat /\ r.items = p /\ r.anchored = FALSE
    BY <1>1, <1>2, <1>3
  <2>1. PICK f : /\ RegexRows(f, p, t)
                 /\ RegexMatch(r, t) <=> \E j \in f[Len(p)] : r.anchored => j = 1
    BY <2>0, RegexIs
  <2>2. PICK g : RegexRows(g, p, s)
    BY <2>0, RegexIs
  <2>3. PICK h : GlobRows(h, p, t) /\ (globMatchNoCase(p, t) <=> 1 \in h[Len(p)])
    BY <2>0, GlobIs
  <2>4. PICK k : GlobRows(k, p, s) /\ (globMatchNoCase(p, s) <=> 1 \in k[Len(p)])
    BY <2>0, GlobIs
  <2>5. h[Len(p)] = f[Len(p)]
    BY <2>0, <2>1, <2>3, <1>1, <1>2, <1>5, SameRows
  <2>6. k[Len(p)] = g[Len(p)]
    BY <2>0, <2>2, <2>4, <1>1, <1>2, <1>5, SameRows
  <2>7. 1 \in g[Len(p)] <=> 1 + d \in f[Len(p)]
    <3>1. \A i \in 1 .. Len(s) : s[i] = t[i + d]
      BY <1>3
    <3>2. \A n \in 0 .. Len(p) : \A j \in 1 .. Len(s) + 1 :
              j \in g[n] <=> j + d \in f[n]
      BY <1>1, <1>3, <3>1, <2>1, <2>2, Shift
    <3>3. Len(p) \in 0 .. Len(p) /\ 1 \in 1 .. Len(s) + 1
      BY <2>0
    <3> QED
      BY <3>2, <3>3
  <2>8. ASSUME NEW j \in f[Len(p)] PROVE 1 + d \in f[Len(p)]
    <3>1. Len(p) >= 2 /\ Len(p) - Len(p) + 1 = 1 /\ Len(p) \in 1 .. Len(p)
      BY <1>1, <1>5, <2>0
    <3>2. f[Len(p)] = RegexStep(p, t, Len(p), f[Len(p) - 1])
      BY <3>1, <2>1 DEF RegexRows
    <3> DEFINE b == f[Len(p) - 1]
    <3>3. f[Len(p)] = {i \in Places(t) : \E m \in i .. Len(t) + 1 :
                         Stays(t, i, m - 1) /\ m \in b}
      BY <3>1, <3>2, <1>1 DEF RegexStep
    <3>4. \A m \in b : m \in 1 .. Len(t) /\ Stays(t, m, Len(t))
      <4>1. Len(p) - 1 \in 1 .. Len(p)
        BY <3>1, <2>0
      <4>2. \A n \in 1 .. Len(p) : \A i \in f[n] :
              i \in 1 .. Len(t) /\ Stays(t, i, Len(t))
        BY <2>0, <2>1, <1>1, <1>2, <1>5, Consumes
      <4> QED
        BY <4>1, <4>2
    <3> HIDE DEF b
    <3>5. PICK m \in b : TRUE
      BY <3>3, <2>8
    <3>6. m >= 1 + d /\ m <= Len(t)
      <4>1. m \in 1 .. Len(t) /\ Stays(t, m, Len(t))
        BY <3>4, <3>5
      <4>2. ~(d \in m .. Len(t) /\ d # 0)
        BY <4>1, <1>3 DEF Stays
      <4> QED
        BY <4>1, <4>2, <2>0
    <3>7. m \in 1 + d .. Len(t) + 1 /\ Stays(t, 1 + d, m - 1) /\ 1 + d \in Places(t)
      BY <3>4, <3>5, <3>6, <2>0, <1>3 DEF Stays, Places
    <3> QED
      BY <3>3, <3>5, <3>7
  <2>9. RegexMatch(r, t) <=> 1 + d \in f[Len(p)]
    BY <2>0, <2>1, <2>8
  <2>10. 1 \in f[Len(p)] => 1 + d \in f[Len(p)]
    BY <2>8
  <2> QED
    BY <2>3, <2>4, <2>5, <2>6, <2>7, <2>9, <2>10 DEF p, r, s
<1> QED
  BY <1>4, <1>5

-----------------------------------------------------------------------------
(* The inductive invariant: its part about what runs and what is queued.   *)
Summed == {"infected", "errors", "note", "exit", "ended"}
ScanPlaces == {"load", "files", "file", "remove", "killed"} \cup Summed
UpdatePlaces == {"db", "fetch", "test", "install", "exit", "missing", "ended",
                 "killed"}
ScanLines == ScanTransient \cup FileResults
               \cup {"scannedfiles", "infectedfiles", "errorcount", "note"}
Refusals == {"ratelimit", "unsupported"}
Complaints == Refusals \cup {"error", "servererror"}
UpdateLines == Complaints \cup {"uptodate", "available", "downloading", "row",
                                "testing", "updated"}
Footers == {"Cancelled", "Failed", "Blocked", "Completed", "errornote",
            "nothing", "downloaded", "detail"} \cup Outcomes
Kinds == ScanLines \cup Complaints \cup UpdateLines \cup Footers
Statuses == {"", "enumerated", "downloading", "verifying", "installed",
             "scanned", "engine"} \cup DbProgress \cup Outcomes
Names == {NoName} \cup Kinds \cup STRING \cup FileSet
Messages == [kind : Kinds, name : Names, n : Nat, of : Nat]
StateFields ==
    {"isUpdate", "files", "threats", "errors", "expectedFiles", "expectedBytes",
     "completed", "bytes", "ui", "dbPhase", "filePhase", "known", "downloaded",
     "total", "transferred", "updateUi", "changes", "upToDate", "current",
     "blocked", "unsupported", "serverError"}
StateOK(s) ==
    /\ DOMAIN s = StateFields
    /\ s.files \in Nat /\ s.threats \in Nat /\ s.errors \in Nat
    /\ s.expectedFiles \in Nat /\ s.expectedBytes \in Nat
    /\ s.completed \in Nat /\ s.bytes \in Nat
    /\ s.downloaded \in Nat /\ s.transferred \in Nat /\ s.upToDate \in Nat
    /\ s.ui \in 0 .. 100 /\ s.updateUi \in 0 .. 100
Children == [at : ScanPlaces \cup UpdatePlaces, i : Nat \ {0}, n : Int, tries : Nat]
Views ==
    [box : Seq(Messages), status : Statuses, bar : 0 .. 100,
     lastError : {NoName} \cup Kinds]

TypeInv ==
    /\ TypeOK
    /\ child \in Children
    /\ outp \in Seq(Messages) /\ errp \in Seq(Messages)
    /\ StateOK(state) /\ view \in Views
    /\ fetched \in Nat

(* Where the tool can be, by what it does.                                 *)
ChildOK(c) ==
    /\ c.at \in (IF IsUpdate THEN UpdatePlaces ELSE ScanPlaces)
    /\ c.at \in {"file", "remove"} => c.i <= Len(Files)
    /\ ~IsUpdate /\ c.at \in Summed => c.i > Len(Files)
    /\ c.at \in {"fetch", "test", "install"} => c.i <= Len(Databases)
    /\ c.at = "fetch" => c.n \in 0 .. DbSize
    /\ c.at \in Ended => c.n \in Failures \cup {-1, 0, 1, 2}
    /\ c.at = "killed" => cancelled
    /\ c.at = "missing" => c.n = -1
    /\ cancelled => c.at \in Ended /\ IsDialog
ChildInv == ChildOK(child)

(* What the tools can print.                                               *)
LinesInv ==
    /\ \A i \in DOMAIN outp :
          /\ outp[i].kind \in (IF IsUpdate THEN UpdateLines ELSE ScanLines)
          /\ outp[i].kind \in FileResults => outp[i].name \in FileSet
          /\ outp[i].kind \in ByteProgress => outp[i].of = DbSize
    /\ \A i \in DOMAIN errp :
          errp[i].kind \in (IF IsUpdate THEN Complaints ELSE {"error"})

(* Once the end has been told nothing changes.                             *)
EndInv ==
    /\ state.isUpdate = IsUpdate
    /\ verdict # "" =>
          /\ IsDialog /\ verdict = Verdict(child.n)
          /\ code = IF verdict = "uptodate" THEN 2 ELSE child.n
    /\ balloon # "" /\ IsDialog => verdict # ""
    /\ verdict # "" \/ balloon # "" =>
          child.at \in Ended /\ outp = <<>> /\ errp = <<>>

BaseInv == TypeInv /\ ChildInv /\ LinesInv /\ EndInv

-----------------------------------------------------------------------------
(* What is assumed of a task, and the files it has.                        *)
LEMMA TaskFacts ==
    ASSUME ReportAssumption, task \in Tasks
    PROVE  /\ task.mode \in {"scan", "memory", "update"}
           /\ task.by \in {"dialog", "background"}
           /\ task.recursive \in BOOLEAN /\ task.infectedOnly \in BOOLEAN
           /\ task.remove \in BOOLEAN
           /\ task.include \in SUBSET Patterns /\ task.exclude \in SUBSET Patterns
           /\ Files \in Seq(FileSet) /\ Range(Files) \subseteq Range(task.files)
           /\ task.target = "file" => Len(Files) = 1
<1>1. task \in
         [mode : {"scan", "memory", "update"}, by : {"dialog", "background"},
          target : {"folder", "file"}, files : Seq(FileSet),
          recursive : BOOLEAN, infectedOnly : BOOLEAN, remove : BOOLEAN,
          include : SUBSET Patterns, exclude : SUBSET Patterns]
  BY DEF ReportAssumption
<1>2. task.files \in Seq(FileSet)
  BY <1>1
<1>3. task.target = "file" => task.files # <<>>
  BY DEF ReportAssumption
<1>4. CASE task.target = "file"
  <2>1. Files = SubSeq(task.files, 1, 1)
    BY <1>4 DEF Files, Targets
  <2> DEFINE fs == task.files
  <2> HIDE DEF fs
  <2>2. fs \in Seq(FileSet) /\ Len(fs) >= 1
    BY <1>2, <1>3, <1>4 DEF fs
  <2>3. /\ SubSeq(fs, 1, 1) \in Seq(FileSet) /\ Len(SubSeq(fs, 1, 1)) = 1
        /\ SubSeq(fs, 1, 1)[1] = fs[1]
    BY <2>2
  <2>4. Range(SubSeq(fs, 1, 1)) \subseteq Range(fs)
    BY <2>2, <2>3 DEF Range
  <2> QED
    BY <1>1, <2>1, <2>3, <2>4 DEF fs
<1>5. CASE task.target # "file"
  <2>1. Files = task.files
    BY <1>5 DEF Files, Targets
  <2> QED
    BY <1>1, <1>2, <1>5, <2>1
<1> QED
  BY <1>4, <1>5

(* Messages.                                                               *)
LEMMA MessagesAre ==
    ASSUME NEW k \in Kinds
    PROVE  /\ Line(k) \in Messages /\ Line(k).kind = k
           /\ \A f \in Names : /\ Named(k, f) \in Messages
                               /\ Named(k, f).kind = k /\ Named(k, f).name = f
           /\ \A n \in Nat : /\ Number(k, n) \in Messages
                             /\ Number(k, n).kind = k /\ Number(k, n).n = n
           /\ \A n, m \in Nat : /\ Ratio(k, n, m) \in Messages
                                /\ Ratio(k, n, m).kind = k
                                /\ Ratio(k, n, m).n = n /\ Ratio(k, n, m).of = m
<1>1. NoName \in Names
  BY DEF Names
<1>2. Line(k) \in Messages /\ Line(k).kind = k
  BY <1>1 DEF Line, Messages
<1>3. ASSUME NEW f \in Names
      PROVE  Named(k, f) \in Messages /\ Named(k, f).kind = k /\ Named(k, f).name = f
  BY <1>1 DEF Named, Line, Messages
<1>4. ASSUME NEW n \in Nat
      PROVE  Number(k, n) \in Messages /\ Number(k, n).kind = k /\ Number(k, n).n = n
  BY <1>1 DEF Number, Line, Messages
<1>5. ASSUME NEW n \in Nat, NEW m \in Nat
      PROVE  /\ Ratio(k, n, m) \in Messages /\ Ratio(k, n, m).kind = k
             /\ Ratio(k, n, m).n = n /\ Ratio(k, n, m).of = m
  BY <1>1 DEF Ratio, Line, Messages
<1> QED
  BY <1>2, <1>3, <1>4, <1>5

(* Numbers in range.                                                       *)
LEMMA AtMostAll ==
    ASSUME NEW a \in Nat, NEW b \in Nat, a <= b, b > 0
    PROVE  (a * 100) \div b \in 0 .. 100
<1> DEFINE q == (a * 100) \div b
<1>1. q \in Int /\ b * q <= a * 100 /\ a * 100 < b * (q + 1)
  OBVIOUS
<1> QED
  BY <1>1

(* The smaller of 100 and a number.                                        *)
LEMMA MinIs ==
    ASSUME NEW x \in Int
    PROVE  Min({100, x}) = IF x < 100 THEN x ELSE 100
BY DEF Min

(* The greater of two numbers.                                             *)
LEMMA MaxIs ==
    ASSUME NEW x \in Int, NEW y \in Int
    PROVE  Max({x, y}) = IF x < y THEN y ELSE x
BY DEF Max

(* The greatest of one and two counts, which the bar's percentage          *)
(* divides by.                                                             *)
LEMMA MaxOfThree ==
    ASSUME NEW x \in Nat, NEW y \in Nat
    PROVE  Max({1, x, y}) \in Nat /\ Max({1, x, y}) >= 1 /\ Max({1, x, y}) >= y
<1> DEFINE m == IF x >= y THEN (IF x >= 1 THEN x ELSE 1) ELSE (IF y >= 1 THEN y ELSE 1)
<1>1. m \in {1, x, y} /\ \A z \in {1, x, y} : m >= z
  OBVIOUS
<1>2. \E k \in {1, x, y} : \A z \in {1, x, y} : k >= z
  BY <1>1
<1>3. Max({1, x, y}) \in {1, x, y} /\ \A z \in {1, x, y} : Max({1, x, y}) >= z
  BY <1>2 DEF Max
<1> QED
  BY <1>3

(* The percentage of the bar is one, whatever was expected and read.       *)
LEMMA PercentInRange ==
    ASSUME NEW s, StateOK(s)
    PROVE  Percent(s) \in 0 .. 100
<1>1. s.bytes \in Nat /\ s.expectedBytes \in Nat /\ s.completed \in Nat /\ s.expectedFiles \in Nat
  BY DEF StateOK
<1>2. CASE s.expectedBytes > 0
  <2> DEFINE q == (s.bytes * 100) \div s.expectedBytes
  <2>1. q \in Nat
    BY <1>1, <1>2
  <2> HIDE DEF q
  <2>2. Min({100, q}) \in 0 .. 100
    BY <2>1, MinIs
  <2> QED
    BY <1>2, <2>2 DEF Percent, q
<1>3. CASE ~(s.expectedBytes > 0)
  <2> DEFINE m == Max({1, s.expectedFiles, s.completed})
  <2>1. m \in Nat /\ m >= 1 /\ m >= s.completed
    BY <1>1, MaxOfThree
  <2> HIDE DEF m
  <2> DEFINE c == s.completed
  <2>2. (c * 100) \div m \in 0 .. 100
    <3>1. c \in Nat /\ m \in Nat /\ c <= m /\ m > 0
      BY <1>1, <2>1
    <3> HIDE DEF c
    <3> QED
      BY <3>1, AtMostAll
  <2> QED
    BY <1>3, <2>2 DEF Percent, m, c
<1> QED
  BY <1>2, <1>3

(* What a line of clamscan does to the state, field by field.              *)
ReadsScan(s, l, size, next, e) ==
    /\ StateOK(next)
    /\ next.isUpdate = s.isUpdate
    /\ next.expectedFiles = s.expectedFiles /\ next.expectedBytes = s.expectedBytes
    /\ next.threats = IF l.kind = "found" THEN s.threats + 1
                      ELSE IF l.kind = "infectedfiles" THEN l.n ELSE s.threats
    /\ next.files = IF l.kind \in Counted THEN s.completed + 1
                    ELSE IF l.kind = "scannedfiles" THEN l.n ELSE s.files
    /\ next.completed = IF l.kind \in Counted THEN s.completed + 1 ELSE s.completed
    /\ next.bytes = IF l.kind \in Counted THEN s.bytes + size ELSE s.bytes
    /\ next.ui >= s.ui
    /\ next.ui = 100 /\ s.expectedBytes > 0 =>
          s.ui = 100 \/ next.bytes >= s.expectedBytes
    /\ e.append = (l.kind \notin ScanTransient)
    /\ e.status \in Statuses /\ e.bar = next.ui

ReadsOneMore(s, l, size, next) ==
    /\ StateOK(next)
    /\ next.isUpdate = s.isUpdate
    /\ next.expectedFiles = s.expectedFiles /\ next.expectedBytes = s.expectedBytes
    /\ next.threats = IF l.kind = "found" THEN s.threats + 1 ELSE s.threats
    /\ next.files = s.completed + 1 /\ next.completed = s.completed + 1
    /\ next.bytes = s.bytes + size
    /\ next.ui >= s.ui
    /\ next.ui = 100 /\ s.expectedBytes > 0 =>
          s.ui = 100 \/ next.bytes >= s.expectedBytes

(* A file's result: one more file, its bytes, a threat if it is one, and   *)
(* a bar that never goes back.                                             *)
LEMMA OneMoreReads ==
    ASSUME NEW s, StateOK(s), NEW l \in Messages, l.kind \in Counted, NEW size \in Nat
    PROVE  ReadsOneMore(s, l, size, OneMore(s, l, size))
<1> DEFINE t == [s EXCEPT !.completed = @ + 1,
                          !.files = s.completed + 1,
                          !.bytes = @ + size,
                          !.threats = IF l.kind = "found" THEN @ + 1 ELSE @]
           u == Max({t.ui, Percent(t)})
           next == [t EXCEPT !.ui = u]
<1>1. /\ StateOK(t) /\ t.ui = s.ui
      /\ t.isUpdate = s.isUpdate
      /\ t.expectedFiles = s.expectedFiles /\ t.expectedBytes = s.expectedBytes
      /\ t.threats = IF l.kind = "found" THEN s.threats + 1 ELSE s.threats
      /\ t.files = s.completed + 1 /\ t.completed = s.completed + 1
      /\ t.bytes = s.bytes + size
  BY DEF StateOK, StateFields
<1> HIDE DEF t
<1>2. Percent(t) \in 0 .. 100 /\ t.ui \in 0 .. 100 /\ t.bytes \in Nat /\ t.expectedBytes \in Nat
  BY <1>1, PercentInRange DEF StateOK, StateFields
<1>3. u = (IF t.ui < Percent(t) THEN Percent(t) ELSE t.ui)
  <2> DEFINE x == t.ui
             y == Percent(t)
  <2>1. x \in Int /\ y \in Int
    BY <1>2
  <2> HIDE DEF x, y
  <2>2. Max({x, y}) = IF x < y THEN y ELSE x
    BY <2>1, MaxIs
  <2> QED
    BY <2>2 DEF x, y
<1>4. Percent(t) = 100 /\ t.expectedBytes > 0 => t.bytes >= t.expectedBytes
  <2> SUFFICES ASSUME Percent(t) = 100, t.expectedBytes > 0 PROVE t.bytes >= t.expectedBytes
    OBVIOUS
  <2> DEFINE b == t.bytes
             x == t.expectedBytes
             q == (b * 100) \div x
  <2>1. Percent(t) = Min({100, q})
    BY DEF Percent
  <2>2. b \in Nat /\ x \in Nat /\ x > 0
    BY <1>2
  <2> HIDE DEF b, x
  <2>3. q \in Int /\ x * q <= b * 100
    BY <2>2
  <2>4. q >= 100
    <3> HIDE DEF q
    <3> QED
      BY <2>1, <2>3, MinIs
  <2>5. b >= x
    <3> HIDE DEF q
    <3>1. x * 100 <= x * q
      BY <2>2, <2>3, <2>4
    <3> QED
      BY <2>2, <2>3, <3>1
  <2> QED
    BY <2>5 DEF b, x
<1>5. u \in 0 .. 100 /\ u >= t.ui /\ (u = 100 => t.ui = 100 \/ Percent(t) = 100)
  <2> HIDE DEF u
  <2> QED
    BY <1>2, <1>3
<1>6. OneMore(s, l, size) = next
  BY DEF OneMore, t
<1> HIDE DEF u
<1>7. /\ StateOK(next) /\ next.ui = u
      /\ next.isUpdate = t.isUpdate
      /\ next.expectedFiles = t.expectedFiles /\ next.expectedBytes = t.expectedBytes
      /\ next.threats = t.threats
      /\ next.files = t.files /\ next.completed = t.completed
      /\ next.bytes = t.bytes
  BY <1>1, <1>5 DEF StateOK, StateFields
<1> HIDE DEF next
<1>8. ReadsOneMore(s, l, size, next)
  BY <1>1, <1>4, <1>5, <1>7 DEF ReadsOneMore
<1> QED
  BY <1>6, <1>8

(* What processOutputLine does with a line of clamscan's output.           *)
LEMMA ScanLineReads ==
    ASSUME NEW s, StateOK(s), ~s.isUpdate, NEW l \in Messages, NEW size \in Nat
    PROVE  ReadsScan(s, l, size, processOutputLine(s, l, FALSE, size)[1],
                     processOutputLine(s, l, FALSE, size)[2])
<1> DEFINE a == Summary(s, l)
           b == [a EXCEPT !.dbPhase = @ \/ l.kind \in DbProgress,
                          !.filePhase = @ \/ l.kind \in FileProgress \cup FileResults]
           next == FileDone(b, l, size)
           e == Effects(l.kind \notin ScanTransient, ScanStatus(next, l), next.ui)
<1>1. processOutputLine(s, l, FALSE, size) = <<next, e>>
  BY DEF processOutputLine, ScanLine
<1>2. l.n \in Nat /\ l.kind \in Kinds
  BY DEF Messages
<1>3. /\ StateOK(a) /\ a.isUpdate = s.isUpdate
      /\ a.expectedFiles = s.expectedFiles /\ a.expectedBytes = s.expectedBytes
      /\ a.threats = IF l.kind = "infectedfiles" THEN l.n ELSE s.threats
      /\ a.files = IF l.kind = "scannedfiles" THEN l.n ELSE s.files
      /\ a.completed = s.completed /\ a.bytes = s.bytes /\ a.ui = s.ui
  BY <1>2 DEF Summary, StateOK, StateFields
<1> HIDE DEF a
<1>4. /\ StateOK(b) /\ b.isUpdate = a.isUpdate
      /\ b.expectedFiles = a.expectedFiles /\ b.expectedBytes = a.expectedBytes
      /\ b.threats = a.threats /\ b.files = a.files
      /\ b.completed = a.completed /\ b.bytes = a.bytes /\ b.ui = a.ui
  <2>1. (a.dbPhase \/ l.kind \in DbProgress) \in BOOLEAN
        /\ (a.filePhase \/ l.kind \in FileProgress \cup FileResults) \in BOOLEAN
    OBVIOUS
  <2> QED
    BY <1>3, <2>1 DEF StateOK, StateFields
<1> HIDE DEF b
<1>5. s.ui \in 0 .. 100 /\ s.bytes \in Nat /\ s.completed \in Nat /\ s.threats \in Nat
  BY DEF StateOK, StateFields
<1>6. /\ StateOK(next)
      /\ next.isUpdate = s.isUpdate
      /\ next.expectedFiles = s.expectedFiles /\ next.expectedBytes = s.expectedBytes
      /\ next.threats = IF l.kind = "found" THEN s.threats + 1
                        ELSE IF l.kind = "infectedfiles" THEN l.n ELSE s.threats
      /\ next.files = IF l.kind \in Counted THEN s.completed + 1
                      ELSE IF l.kind = "scannedfiles" THEN l.n ELSE s.files
      /\ next.completed = IF l.kind \in Counted THEN s.completed + 1 ELSE s.completed
      /\ next.bytes = IF l.kind \in Counted THEN s.bytes + size ELSE s.bytes
      /\ next.ui >= s.ui
      /\ next.ui = 100 /\ s.expectedBytes > 0 =>
            s.ui = 100 \/ next.bytes >= s.expectedBytes
  <2>1. CASE l.kind \in Counted
    <3>1. next = OneMore(b, l, size)
      BY <2>1 DEF FileDone
    <3> HIDE DEF next
    <3>2. l.kind # "scannedfiles" /\ l.kind # "infectedfiles"
      BY <2>1 DEF Counted
    <3> QED
      <4>1. ReadsOneMore(b, l, size, next)
        BY <1>4, <2>1, <3>1, OneMoreReads
      <4> QED
        BY <1>3, <1>4, <2>1, <3>2, <4>1 DEF ReadsOneMore
  <2>2. CASE l.kind \notin Counted
    <3>1. next = b /\ l.kind # "found"
      BY <2>2 DEF FileDone, Counted
    <3> HIDE DEF next
    <3> QED
      BY <1>3, <1>4, <1>5, <2>2, <3>1
  <2> QED
    BY <2>1, <2>2
<1> HIDE DEF next
<1>7. ScanStatus(next, l) \in Statuses
  BY DEF ScanStatus, Statuses, DbProgress, FileProgress, FileResults
<1>8. /\ e.append = (l.kind \notin ScanTransient)
      /\ e.status = ScanStatus(next, l) /\ e.bar = next.ui
  BY DEF Effects
<1> HIDE DEF e
<1>9. ReadsScan(s, l, size, next, e)
  BY <1>6, <1>7, <1>8 DEF ReadsScan
<1> DEFINE r == processOutputLine(s, l, FALSE, size)
<1>10. r[1] = next /\ r[2] = e
  <2>1. r = <<next, e>>
    BY <1>1
  <2> HIDE DEF r
  <2> QED
    BY <2>1
<1> QED
  BY <1>9, <1>10, Zenon

(* A line of clamscan's error stream goes to the report and changes no     *)
(* number.                                                                 *)
LEMMA ScanErrorReads ==
    ASSUME NEW s, StateOK(s), ~s.isUpdate, NEW l, NEW size
    PROVE  processOutputLine(s, l, TRUE, size) = <<s, Effects(TRUE, "", NoBar)>>
BY DEF processOutputLine

(* What a line of freshclam does to the state.                             *)
ReadsMark(s, l, next) ==
    /\ StateOK(next)
    /\ next.isUpdate = s.isUpdate
    /\ next.blocked = (s.blocked \/ l.kind \in Refusals)
    /\ next.serverError = (s.serverError \/ l.kind = "servererror")
    /\ next.changes = (s.changes \/ l.kind \in {"available", "updated"})
    /\ next.upToDate = IF l.kind = "uptodate" THEN s.upToDate + 1 ELSE s.upToDate

(* What an update notes of a line on either stream.                        *)
LEMMA MarkedReads ==
    ASSUME NEW s, StateOK(s), NEW l \in Messages
    PROVE  /\ ReadsMark(s, l, Marked(s, l))
           /\ Marked(s, l).transferred = s.transferred
           /\ Marked(s, l).downloaded = s.downloaded
           /\ MarkStatus(Marked(s, l), l) \in Statuses
<1> DEFINE b == s.blocked \/ l.kind \in {"ratelimit", "unsupported"}
           u == s.unsupported \/ l.kind = "unsupported"
           e == s.serverError \/ l.kind = "servererror"
           c == s.changes \/ l.kind \in {"available", "updated"}
           n == IF l.kind = "uptodate" THEN s.upToDate + 1 ELSE s.upToDate
           m == IF l.kind = "updated" THEN l.name ELSE s.current
           next == [s EXCEPT !.blocked = b, !.unsupported = u, !.serverError = e,
                             !.changes = c, !.upToDate = n, !.current = m]
<1>1. b \in BOOLEAN /\ u \in BOOLEAN /\ e \in BOOLEAN /\ c \in BOOLEAN
  OBVIOUS
<1>2. n \in Nat
  BY DEF StateOK, StateFields, Messages
<1>3. Marked(s, l) = next
  BY DEF Marked
<1> HIDE DEF b, u, e, c, n, m
<1>4. /\ StateOK(next) /\ next.isUpdate = s.isUpdate
      /\ next.blocked = b /\ next.serverError = e /\ next.changes = c
      /\ next.upToDate = n /\ next.transferred = s.transferred
      /\ next.downloaded = s.downloaded
  BY <1>1, <1>2 DEF StateOK, StateFields
<1> HIDE DEF next
<1>5. MarkStatus(next, l) \in Statuses
  BY DEF MarkStatus, Statuses, Outcomes
<1>6. ReadsMark(s, l, next)
  BY <1>4 DEF ReadsMark, b, e, c, n, Refusals
<1> QED
  BY <1>3, <1>4, <1>5, <1>6

ReadsUpdate(s, l, next, e) ==
    /\ ReadsMark(s, l, next)
    /\ next.downloaded = IF l.kind \in ByteProgress THEN l.n
                         ELSE IF l.kind = "available" THEN 0 ELSE s.downloaded
    /\ next.transferred + next.downloaded =
          IF l.kind \in ByteProgress /\ l.n >= s.downloaded
          THEN s.transferred + l.n
          ELSE IF l.kind \in ByteProgress THEN s.transferred + s.downloaded + l.n
          ELSE s.transferred + s.downloaded
    /\ e.append \in BOOLEAN /\ e.status \in Statuses
    /\ e.bar \in 0 .. 100 \cup {NoBar}

(* The percentage of a download is one: the total is never zero.           *)
LEMMA PerCentOf ==
    ASSUME NEW n \in Nat, NEW of \in Nat, of > 0
    PROVE  Min({100, (n * 200 + of) \div (2 * of)}) \in 0 .. 100
<1> DEFINE d == 2 * of
           q == (n * 200 + of) \div d
<1>1. d \in Nat /\ d > 0
  OBVIOUS
<1> HIDE DEF d
<1>2. q \in Int /\ n * 200 + of < d * (q + 1)
  BY <1>1
<1>3. q >= 0
  <2> HIDE DEF q
  <2> SUFFICES ASSUME q + 1 <= 0 PROVE FALSE
    BY <1>2
  <2> DEFINE z == d * (q + 1)
  <2>1. z \in Int /\ z <= 0
    BY <1>1, <1>2
  <2>2. n * 200 + of < z
    BY <1>2
  <2> HIDE DEF z
  <2> QED
    BY <2>1, <2>2
<1>4. Min({100, q}) \in 0 .. 100
  <2> HIDE DEF q
  <2> QED
    BY <1>2, <1>3, MinIs
<1> QED
  BY <1>4 DEF d

(* What processOutputLine does with a line of freshclam's output.          *)
LEMMA UpdateLineReads ==
    ASSUME NEW s, StateOK(s), s.isUpdate, NEW l \in Messages,
           l.kind \in ByteProgress => l.of # 0, NEW size
    PROVE  ReadsUpdate(s, l, processOutputLine(s, l, FALSE, size)[1],
                       processOutputLine(s, l, FALSE, size)[2])
<1> DEFINE m == Marked(s, l)
           a == Summary(m, l)
           b == Switch(a, l)
           d == Done(b, l)
           next == Progress(b, l)
           e == UpdateLine(a, l)[2]
<1>1. processOutputLine(s, l, FALSE, size) = <<next, e>>
  BY DEF processOutputLine, UpdateLine
<1> DEFINE r == processOutputLine(s, l, FALSE, size)
<1>9. r[1] = next /\ r[2] = e
  <2>1. r = <<next, e>>
    BY <1>1
  <2> HIDE DEF r, next, e
  <2> QED
    BY <2>1
<1>2. l.n \in Nat /\ l.of \in Nat /\ l.kind \in Kinds /\ l.name \in Names
  BY DEF Messages
<1>3. ReadsMark(s, l, m) /\ m.transferred = s.transferred /\ m.downloaded = s.downloaded
  BY MarkedReads
<1>4. s.transferred \in Nat /\ s.downloaded \in Nat
  BY DEF StateOK, StateFields
<1> HIDE DEF m
<1>5. /\ ReadsMark(s, l, a) /\ a.transferred = m.transferred /\ a.downloaded = m.downloaded
  BY <1>2, <1>3 DEF Summary, StateOK, StateFields, ReadsMark
<1> HIDE DEF a
<1>6. CASE l.kind = "available"
  <2>1. l.kind \notin ByteProgress
    BY <1>6 DEF ByteProgress
  <2>2. /\ ReadsMark(s, l, b) /\ b.downloaded = 0
        /\ b.transferred = s.transferred + s.downloaded
    <3>1. a.transferred + a.downloaded \in Nat
      BY <1>3, <1>4, <1>5
    <3> DEFINE no == FALSE
               tr == a.transferred + a.downloaded
               nm == l.name
    <3>2. b = [a EXCEPT !.transferred = tr, !.current = nm,
                  !.known = no, !.downloaded = 0, !.total = 0, !.updateUi = 0]
      BY <1>6 DEF Switch
    <3>3. tr \in Nat /\ StateOK(a)
      BY <3>1, <1>5 DEF ReadsMark
    <3> HIDE DEF b, no, nm, tr
    <3> QED
      <4>1. /\ StateOK(b) /\ b.downloaded = 0
            /\ b.transferred = tr
            /\ b.isUpdate = a.isUpdate /\ b.blocked = a.blocked
            /\ b.serverError = a.serverError /\ b.changes = a.changes
            /\ b.upToDate = a.upToDate
        BY <3>2, <3>3 DEF StateOK, StateFields
      <4> QED
        BY <1>3, <1>5, <4>1 DEF ReadsMark, tr
  <2>3. next = b
    BY <2>1 DEF Progress
  <2>4. e.append \in BOOLEAN /\ e.status \in Statuses /\ e.bar \in 0 .. 100 \cup {NoBar}
    <3>1. e = Effects(TRUE, "downloading", 0)
      BY <1>6 DEF UpdateLine
    <3> HIDE DEF e
    <3> QED
      BY <3>1 DEF Effects, Statuses
  <2> HIDE DEF b, next, e
  <2>5. ReadsUpdate(s, l, next, e)
    BY <1>4, <1>6, <2>1, <2>2, <2>3, <2>4 DEF ReadsUpdate
  <2> QED
    BY <1>9, <2>5, Zenon
<1>7. CASE l.kind \in ByteProgress
  <2>1. l.kind # "available" /\ b = a
    BY <1>7 DEF ByteProgress, Switch
  <2>2. Min({100, (l.n * 200 + l.of) \div (2 * l.of)}) \in 0 .. 100
    <3> DEFINE n == l.n
               of == l.of
    <3>1. n \in Nat /\ of \in Nat /\ of > 0
      BY <1>2, <1>7
    <3> HIDE DEF n, of
    <3>2. Min({100, (n * 200 + of) \div (2 * of)}) \in 0 .. 100
      BY <3>1, PerCentOf
    <3> QED
      BY <3>2 DEF n, of
  <2> DEFINE p == Min({100, (l.n * 200 + l.of) \div (2 * l.of)})
  <2>3. d = [a EXCEPT !.known = TRUE, !.downloaded = l.n, !.total = l.of, !.updateUi = p]
    BY <2>1 DEF Done
  <2> HIDE DEF p, b
  <2>4. /\ ReadsMark(s, l, d) /\ d.downloaded = l.n /\ d.transferred = s.transferred
        /\ d.updateUi = p
    <3> HIDE DEF d
    <3> QED
      BY <1>2, <1>3, <1>5, <2>2, <2>3 DEF StateOK, StateFields, ReadsMark, p
  <2>5. next = IF l.n < b.downloaded
               THEN [d EXCEPT !.transferred = d.transferred + b.downloaded] ELSE d
    BY <1>7 DEF Progress
  <2> HIDE DEF d, next
  <2>6. /\ ReadsMark(s, l, next) /\ next.downloaded = l.n /\ next.updateUi = p
        /\ next.transferred = s.transferred + IF l.n < s.downloaded THEN s.downloaded ELSE 0
    <3>1. b.downloaded = s.downloaded
      BY <1>3, <1>5, <2>1
    <3>2. CASE l.n < s.downloaded
      <4>1. next = [d EXCEPT !.transferred = d.transferred + s.downloaded]
        BY <2>5, <3>1, <3>2
      <4>2. d.transferred + s.downloaded \in Nat
        BY <1>4, <2>4
      <4> QED
        BY <2>4, <3>2, <4>1, <4>2 DEF ReadsMark, StateOK, StateFields
    <3>3. CASE ~(l.n < s.downloaded)
      BY <1>4, <2>4, <2>5, <3>1, <3>3
    <3> QED
      BY <3>2, <3>3
  <2>7. e.append \in BOOLEAN /\ e.status \in Statuses /\ e.bar \in 0 .. 100 \cup {NoBar}
    <3> DEFINE f == ~a.known \/ next.updateUi # a.updateUi \/ next.updateUi >= 100
    <3>1. e = IF f THEN Effects(l.kind \notin UpdateTransient, "downloading", next.updateUi)
              ELSE Effects(l.kind \notin UpdateTransient, MarkStatus(a, l), NoBar)
      BY <1>7, <2>1 DEF UpdateLine, next, b
    <3> HIDE DEF e, f
    <3>2. MarkStatus(a, l) \in Statuses
      BY DEF MarkStatus, Statuses, Outcomes
    <3>3. next.updateUi \in 0 .. 100
      BY <2>2, <2>6 DEF p
    <3> QED
      BY <3>1, <3>2, <3>3 DEF Effects, Statuses
  <2> HIDE DEF e
  <2>8. ReadsUpdate(s, l, next, e)
    BY <1>2, <1>4, <1>7, <2>1, <2>6, <2>7 DEF ReadsUpdate
  <2> QED
    BY <1>9, <2>8, Zenon
<1>8. CASE l.kind # "available" /\ l.kind \notin ByteProgress
  <2>1. b = a /\ next = a
    BY <1>8 DEF Switch, Progress
  <2>2. MarkStatus(a, l) \in Statuses
    BY DEF MarkStatus, Statuses, Outcomes
  <2>3. e = Effects(l.kind \notin UpdateTransient, MarkStatus(a, l), NoBar)
    BY <1>8 DEF UpdateLine
  <2>4. e.append \in BOOLEAN /\ e.status \in Statuses /\ e.bar \in 0 .. 100 \cup {NoBar}
    BY <2>2, <2>3 DEF Effects
  <2> HIDE DEF b, next, e
  <2>5. ReadsUpdate(s, l, next, e)
    BY <1>3, <1>4, <1>5, <1>8, <2>1, <2>4 DEF ReadsUpdate
  <2> QED
    BY <1>9, <2>5, Zenon
<1> QED
  BY <1>6, <1>7, <1>8

ReadsError(s, l, next, e) ==
    /\ ReadsMark(s, l, next)
    /\ next.transferred = s.transferred /\ next.downloaded = s.downloaded
    /\ e.append \in BOOLEAN /\ e.status \in Statuses /\ e.bar = NoBar

(* What processOutputLine does with a line of freshclam's error stream.    *)
LEMMA UpdateErrorReads ==
    ASSUME NEW s, StateOK(s), s.isUpdate, NEW l \in Messages, NEW size
    PROVE  ReadsError(s, l, processOutputLine(s, l, TRUE, size)[1],
                      processOutputLine(s, l, TRUE, size)[2])
<1> DEFINE next == Marked(s, l)
           e == Effects(TRUE, MarkStatus(Marked(s, l), l), NoBar)
<1>1. processOutputLine(s, l, TRUE, size) = <<next, e>>
  BY DEF processOutputLine
<1>2. /\ ReadsMark(s, l, next) /\ next.transferred = s.transferred
      /\ next.downloaded = s.downloaded /\ MarkStatus(Marked(s, l), l) \in Statuses
  BY MarkedReads
<1>3. e.append \in BOOLEAN
  BY DEF Effects
<1>4. e.status \in Statuses /\ e.bar = NoBar
  BY <1>2 DEF Effects
<1> HIDE DEF next, e
<1>5. ReadsError(s, l, next, e)
  BY <1>2, <1>3, <1>4 DEF ReadsError
<1> DEFINE r == processOutputLine(s, l, TRUE, size)
<1>6. r[1] = next /\ r[2] = e
  <2>1. r = <<next, e>>
    BY <1>1
  <2> HIDE DEF r
  <2> QED
    BY <2>1
<1> QED
  BY <1>5, <1>6, Zenon

(* How the tool moves.                                                     *)
LEMMA AtMoves ==
    ASSUME child \in Children, NEW w \in ScanPlaces \cup UpdatePlaces, At(w)
    PROVE  /\ child' \in Children /\ child'.at = w /\ child'.i = child.i
           /\ child'.n = child.n /\ child'.tries = child.tries
BY DEF At, Children

(* clamscan goes on to the next file.                                      *)
LEMMA NextFileMoves ==
    ASSUME child \in Children, NextFile
    PROVE  /\ child' \in Children /\ child'.at = "files" /\ child'.i = child.i + 1
           /\ child'.n = child.n /\ child'.tries = child.tries
<1>1. "files" \in ScanPlaces \cup UpdatePlaces
  BY DEF ScanPlaces
<1> DEFINE k == child.i + 1
<1>2. k \in Nat \ {0}
  BY DEF Children
<1>3. child' = [child EXCEPT !.at = "files", !.i = k]
  BY DEF NextFile
<1> HIDE DEF k
<1>4. /\ child' \in Children /\ child'.at = "files" /\ child'.i = k
      /\ child'.n = child.n /\ child'.tries = child.tries
  BY <1>1, <1>2, <1>3 DEF Children
<1> QED
  BY <1>4 DEF k

(* freshclam goes on to the next database.                                 *)
LEMMA NextDbMoves ==
    ASSUME child \in Children, NextDb
    PROVE  /\ child' \in Children /\ child'.at = "db" /\ child'.i = child.i + 1
           /\ child'.n = child.n /\ child'.tries = 0
<1>1. "db" \in ScanPlaces \cup UpdatePlaces
  BY DEF UpdatePlaces
<1> DEFINE k == child.i + 1
<1>2. k \in Nat \ {0}
  BY DEF Children
<1>3. child' = [child EXCEPT !.at = "db", !.i = k, !.tries = 0]
  BY DEF NextDb
<1> HIDE DEF k
<1>4. /\ child' \in Children /\ child'.at = "db" /\ child'.i = k
      /\ child'.n = child.n /\ child'.tries = 0
  BY <1>1, <1>2, <1>3 DEF Children
<1> QED
  BY <1>4 DEF k

(* What one of the tool's lines has to be.                                 *)
Fits(l) ==
    /\ l \in Messages
    /\ l.kind \in (IF IsUpdate THEN UpdateLines ELSE ScanLines)
    /\ l.kind \in FileResults => l.name \in FileSet
    /\ l.kind \in ByteProgress => l.of = DbSize
FitsError(l) ==
    l \in Messages /\ l.kind \in (IF IsUpdate THEN Complaints ELSE {"error"})

(* Writing a line that fits keeps the output pipe well formed and within   *)
(* its bound.                                                              *)
LEMMA PrintsLines ==
    ASSUME outp \in Seq(Messages), errp \in Seq(Messages), LinesInv, task' = task,
           Len(errp) <= PipeBound, PipeBound \in Nat,
           NEW l, Fits(l), Prints(l)
    PROVE  /\ outp' \in Seq(Messages) /\ errp' \in Seq(Messages) /\ LinesInv'
           /\ Len(outp') <= PipeBound /\ Len(errp') <= PipeBound
<1>1. /\ outp' \in Seq(Messages) /\ errp' = errp /\ Len(outp') = Len(outp) + 1
      /\ outp'[Len(outp')] = l /\ \A i \in 1 .. Len(outp) : outp'[i] = outp[i]
  BY DEF Prints, Fits
<1>2. Len(outp') <= PipeBound
  BY <1>1 DEF Prints
<1>3. LinesInv'
  <2>1. \A i \in DOMAIN outp' :
          /\ outp'[i].kind \in (IF IsUpdate THEN UpdateLines ELSE ScanLines)
          /\ outp'[i].kind \in FileResults => outp'[i].name \in FileSet
          /\ outp'[i].kind \in ByteProgress => outp'[i].of = DbSize
    <3> SUFFICES ASSUME NEW i \in DOMAIN outp'
                 PROVE  /\ outp'[i].kind \in (IF IsUpdate THEN UpdateLines ELSE ScanLines)
                        /\ outp'[i].kind \in FileResults => outp'[i].name \in FileSet
                        /\ outp'[i].kind \in ByteProgress => outp'[i].of = DbSize
      OBVIOUS
    <3>1. CASE i = Len(outp')
      BY <1>1, <3>1 DEF Fits
    <3>2. CASE i # Len(outp')
      <4>1. i \in DOMAIN outp /\ outp'[i] = outp[i]
        BY <1>1, <3>2
      <4> QED
        BY <4>1 DEF LinesInv
    <3> QED
      BY <3>1, <3>2
  <2> QED
    BY <1>1, <2>1 DEF LinesInv, IsUpdate
<1> QED
  BY <1>1, <1>2, <1>3

(* Writing an error line that fits keeps the error pipe well formed and    *)
(* within its bound.                                                       *)
LEMMA PrintErrorLines ==
    ASSUME outp \in Seq(Messages), errp \in Seq(Messages), LinesInv, task' = task,
           Len(outp) <= PipeBound, PipeBound \in Nat,
           NEW l, FitsError(l), PrintError(l)
    PROVE  /\ outp' \in Seq(Messages) /\ errp' \in Seq(Messages) /\ LinesInv'
           /\ Len(outp') <= PipeBound /\ Len(errp') <= PipeBound
<1>1. /\ errp' \in Seq(Messages) /\ outp' = outp /\ Len(errp') = Len(errp) + 1
      /\ errp'[Len(errp')] = l /\ \A i \in 1 .. Len(errp) : errp'[i] = errp[i]
  BY DEF PrintError, FitsError
<1>2. Len(errp') <= PipeBound
  BY <1>1 DEF PrintError
<1>3. LinesInv'
  <2>1. \A i \in DOMAIN errp' :
          errp'[i].kind \in (IF IsUpdate THEN Complaints ELSE {"error"})
    <3> SUFFICES ASSUME NEW i \in DOMAIN errp'
                 PROVE  errp'[i].kind \in (IF IsUpdate THEN Complaints ELSE {"error"})
      OBVIOUS
    <3>1. CASE i = Len(errp')
      BY <1>1, <3>1 DEF FitsError
    <3>2. CASE i # Len(errp')
      <4>1. i \in DOMAIN errp /\ errp'[i] = errp[i]
        BY <1>1, <3>2
      <4> QED
        BY <4>1 DEF LinesInv
    <3> QED
      BY <3>1, <3>2
  <2> QED
    BY <1>1, <2>1 DEF LinesInv, IsUpdate
<1> QED
  BY <1>1, <1>2, <1>3

(* Writing nothing keeps both pipes well formed.                           *)
LEMMA SilentLines ==
    ASSUME outp \in Seq(Messages), errp \in Seq(Messages), LinesInv, task' = task,
           Len(errp) <= PipeBound, Len(outp) <= PipeBound, Silent
    PROVE  /\ outp' \in Seq(Messages) /\ errp' \in Seq(Messages) /\ LinesInv'
           /\ Len(outp') <= PipeBound /\ Len(errp') <= PipeBound
<1>1. outp' = outp /\ errp' = errp
  BY DEF Silent
<1> QED
  BY <1>1 DEF LinesInv, IsUpdate

(* A line read leaves the rest.                                            *)
TakesLine == outp # <<>> /\ outp' = Tail(outp) /\ errp' = errp
TakesError == errp # <<>> /\ errp' = Tail(errp) /\ outp' = outp

(* Reading takes the first line of the output.                             *)
LEMMA TailLine ==
    ASSUME outp \in Seq(Messages), TakesLine
    PROVE  /\ outp' \in Seq(Messages) /\ Len(outp') = Len(outp) - 1 /\ errp' = errp
           /\ \A i \in DOMAIN outp' : i + 1 \in DOMAIN outp /\ outp'[i] = outp[i + 1]
           /\ 1 \in DOMAIN outp /\ Head(outp) = outp[1] /\ outp[1] \in Messages
           /\ Len(outp) \in Nat
BY DEF TakesLine

(* Reading takes the first line of the error stream.                       *)
LEMMA TailError ==
    ASSUME errp \in Seq(Messages), TakesError
    PROVE  /\ errp' \in Seq(Messages) /\ Len(errp') = Len(errp) - 1 /\ outp' = outp
           /\ \A i \in DOMAIN errp' : i + 1 \in DOMAIN errp /\ errp'[i] = errp[i + 1]
           /\ 1 \in DOMAIN errp /\ Head(errp) = errp[1] /\ errp[1] \in Messages
           /\ Len(errp) \in Nat
BY DEF TakesError

(* Reading keeps both pipes well formed and within their bounds.           *)
LEMMA TailLines ==
    ASSUME outp \in Seq(Messages), errp \in Seq(Messages), LinesInv, task' = task,
           Len(errp) <= PipeBound, Len(outp) <= PipeBound, PipeBound \in Nat,
           TakesLine \/ TakesError
    PROVE  /\ outp' \in Seq(Messages) /\ errp' \in Seq(Messages) /\ LinesInv'
           /\ Len(outp') <= PipeBound /\ Len(errp') <= PipeBound
<1>1. CASE TakesLine
  <2>1. /\ outp' \in Seq(Messages) /\ Len(outp') = Len(outp) - 1 /\ errp' = errp
        /\ \A i \in DOMAIN outp' : i + 1 \in DOMAIN outp /\ outp'[i] = outp[i + 1]
        /\ Len(outp) \in Nat
    BY <1>1, TailLine
  <2> QED
    BY <2>1 DEF LinesInv, IsUpdate
<1>2. CASE TakesError
  <2>1. /\ errp' \in Seq(Messages) /\ Len(errp') = Len(errp) - 1 /\ outp' = outp
        /\ \A i \in DOMAIN errp' : i + 1 \in DOMAIN errp /\ errp'[i] = errp[i + 1]
        /\ Len(errp) \in Nat
    BY <1>2, TailError
  <2> QED
    BY <2>1 DEF LinesInv, IsUpdate
<1> QED
  BY <1>1, <1>2

(* A step of a tool that is running.                                       *)
LEMMA ToolKeeps ==
    ASSUME BaseInv, UNCHANGED reader, child.at \notin Ended,
           child' \in Children, ChildInv',
           outp' \in Seq(Messages), errp' \in Seq(Messages), LinesInv',
           Len(outp') <= PipeBound, Len(errp') <= PipeBound,
           gone' \subseteq Range(task.files), fetched' \in Nat
    PROVE  BaseInv'
<1>1. /\ task' = task /\ state' = state /\ view' = view /\ cancelled' = cancelled
      /\ verdict' = verdict /\ code' = code /\ balloon' = balloon
  BY DEF reader
<1>2. verdict = "" /\ balloon = ""
  BY DEF BaseInv, EndInv
<1>3. EndInv'
  <2>1. state.isUpdate = IsUpdate
    BY DEF BaseInv, EndInv
  <2> QED
    BY <1>1, <1>2, <2>1 DEF EndInv, IsUpdate
<1>4. TypeOK'
  <2>1. child'.at \in ScanPlaces \cup UpdatePlaces
    BY DEF Children
  <2>2. child'.at \in Ended \cup {"load", "files", "file", "remove", "infected",
                                "errors", "note", "exit",
                                "db", "fetch", "test", "install"}
    BY <2>1 DEF ScanPlaces, UpdatePlaces, Summed, Ended
  <2> QED
    BY <1>1, <2>2 DEF BaseInv, TypeInv, TypeOK
<1>5. TypeInv'
  BY <1>1, <1>4 DEF BaseInv, TypeInv
<1> QED
  BY <1>3, <1>5 DEF BaseInv

(* While the tool runs nothing is at its end.                              *)
LEMMA Alive ==
    ASSUME BaseInv, child.at \notin Ended
    PROVE  /\ ~cancelled /\ verdict = "" /\ balloon = ""
           /\ child.at \in {"load", "files", "file", "remove", "infected", "errors",
                            "note"} => ~IsUpdate
           /\ child.at \in {"db", "fetch", "test", "install"} => IsUpdate
<1>1. ~cancelled /\ verdict = "" /\ balloon = ""
  BY DEF BaseInv, EndInv, ChildInv, ChildOK
<1>2. child.at \in (IF IsUpdate THEN UpdatePlaces ELSE ScanPlaces)
  BY DEF BaseInv, ChildInv, ChildOK
<1> QED
  BY <1>1, <1>2 DEF UpdatePlaces, ScanPlaces, Summed

(* Any step of a tool that runs keeps the base of the invariant if it      *)
(* goes to a place of its own and writes a line of its own.                *)
LEMMA ToolMoves ==
    ASSUME ReportAssumption, BaseInv, child.at \notin Ended, UNCHANGED reader,
           child' \in Children, ChildOK(child'),
           gone' \subseteq Range(task.files), fetched' \in Nat,
           \/ \E l : Fits(l) /\ Prints(l)
           \/ \E l : FitsError(l) /\ PrintError(l)
           \/ Silent
    PROVE  BaseInv'
<1>1. task' = task /\ cancelled' = cancelled
  BY DEF reader
<1>2. ChildInv'
  BY <1>1 DEF ChildInv, ChildOK, IsUpdate, IsDialog, Files
<1>3. /\ outp \in Seq(Messages) /\ errp \in Seq(Messages) /\ LinesInv
      /\ Len(errp) <= PipeBound /\ Len(outp) <= PipeBound /\ PipeBound \in Nat
  BY DEF BaseInv, TypeInv, TypeOK, ReportAssumption
<1>4. /\ outp' \in Seq(Messages) /\ errp' \in Seq(Messages) /\ LinesInv'
      /\ Len(outp') <= PipeBound /\ Len(errp') <= PipeBound
  <2>1. CASE \E l : Fits(l) /\ Prints(l)
    BY <1>1, <1>3, <2>1, PrintsLines
  <2>2. CASE \E l : FitsError(l) /\ PrintError(l)
    BY <1>1, <1>3, <2>2, PrintErrorLines
  <2>3. CASE Silent
    BY <1>1, <1>3, <2>3, SilentLines
  <2> QED
    BY <2>1, <2>2, <2>3
<1> QED
  BY <1>2, <1>4, ToolKeeps

(* Kinds and places in the sets that the model's definitions are made of.  *)
LEMMA LineKinds ==
    /\ ScanLines \subseteq Kinds /\ UpdateLines \subseteq Kinds
    /\ {"sigs", "percent", "found", "ok", "excluded", "scannedfiles",
        "infectedfiles", "errorcount", "note"} \subseteq ScanLines
    /\ {"uptodate", "available", "downloading", "row", "testing", "updated",
        "ratelimit", "unsupported", "error", "servererror"} \subseteq UpdateLines
    /\ {"ratelimit", "unsupported", "error", "servererror"} \subseteq Complaints
    /\ Complaints \subseteq Kinds /\ Footers \subseteq Kinds
    /\ FileResults = {"ok", "found", "excluded"}
    /\ ByteProgress = {"downloading", "row", "sizes"}
BY DEF Kinds, ScanLines, UpdateLines, Complaints, Refusals, FileResults,
   Counted,
       ScanTransient, DbProgress, FileProgress, ByteProgress

(* The file clamscan is at is one of the task's files.                     *)
LEMMA FileNames ==
    ASSUME ReportAssumption, BaseInv, child.i <= Len(Files)
    PROVE  Current \in FileSet /\ Current \in Names /\ Current \in Range(task.files)
           /\ child.i \in DOMAIN Files
<1>1. Files \in Seq(FileSet) /\ Range(Files) \subseteq Range(task.files)
  BY TaskFacts DEF BaseInv, TypeInv, TypeOK
<1>2. child.i \in 1 .. Len(Files)
  BY <1>1 DEF BaseInv, TypeInv, Children
<1>3. Current = Files[child.i]
  BY DEF Current
<1>4. Files[child.i] \in FileSet /\ child.i \in DOMAIN Files
  BY <1>1, <1>2
<1>5. Files[child.i] \in Range(Files)
  BY <1>4 DEF Range
<1> QED
  BY <1>1, <1>3, <1>4, <1>5 DEF Names

(* The database freshclam is at is one of the databases.                   *)
LEMMA DatabaseNames ==
    ASSUME ReportAssumption, BaseInv, child.i <= Len(Databases)
    PROVE  Databases[child.i] \in Names
<1>1. Databases \in Seq(STRING)
  BY DEF ReportAssumption
<1>2. child.i \in 1 .. Len(Databases)
  BY <1>1 DEF BaseInv, TypeInv, Children
<1>3. Databases[child.i] \in STRING
  BY <1>1, <1>2
<1> QED
  BY <1>3 DEF Names

(* The steps of clamscan keep the base of the invariant.                   *)
LEMMA ScanToolBase ==
    ASSUME ReportAssumption, BaseInv,
           LoadDatabase \/ ShowPercent \/ ScanFile \/ RemoveFile \/ Summarise
    PROVE  BaseInv'
<1>0. /\ child \in Children /\ child.i \in Nat \ {0} /\ gone \subseteq Range(task.files)
      /\ fetched \in Nat /\ Len(Files) \in Nat
  <2>1. Files \in Seq(FileSet)
    BY TaskFacts DEF BaseInv, TypeInv, TypeOK
  <2>2. Len(Files) \in Nat
    BY <2>1
  <2>3. child \in Children /\ fetched \in Nat /\ TypeOK
    BY DEF BaseInv, TypeInv
  <2>4. child.i \in Nat \ {0}
    BY <2>3 DEF Children
  <2>5. gone \subseteq Range(task.files)
    BY <2>3 DEF TypeOK
  <2> QED
    BY <2>2, <2>3, <2>4, <2>5
<1>1. CASE LoadDatabase
  <2>1. child.at = "load" /\ At("files") /\ Prints(Ratio("sigs", 1, 2))
        /\ UNCHANGED <<reader, gone, fetched>>
    BY <1>1 DEF LoadDatabase
  <2>2. child.at \notin Ended /\ ~IsUpdate /\ ~cancelled
    BY <2>1, Alive DEF Ended
  <2>3. Fits(Ratio("sigs", 1, 2))
    BY <2>2, LineKinds, MessagesAre DEF Fits
  <2>4. child' \in Children /\ child'.at = "files"
    BY <1>0, <2>1, AtMoves DEF ScanPlaces
  <2>5. ChildOK(child')
    BY <2>2, <2>4 DEF ChildOK, ScanPlaces, Summed, Ended
  <2> QED
    BY <1>0, <2>1, <2>2, <2>3, <2>4, <2>5, ToolMoves
<1>2. CASE ShowPercent
  <2>1. child.at = "files" /\ child.i <= Len(Files) /\ At("file")
        /\ Prints(Named("percent", Current)) /\ UNCHANGED <<reader, gone, fetched>>
    BY <1>2 DEF ShowPercent
  <2>2. child.at \notin Ended /\ ~IsUpdate /\ ~cancelled
    BY <2>1, Alive DEF Ended
  <2>3. Fits(Named("percent", Current))
    BY <2>1, <2>2, LineKinds, MessagesAre, FileNames DEF Fits
  <2>4. child' \in Children /\ child'.at = "file" /\ child'.i = child.i
    BY <1>0, <2>1, AtMoves DEF ScanPlaces
  <2>5. ChildOK(child')
    BY <2>1, <2>2, <2>4 DEF ChildOK, ScanPlaces, Summed, Ended
  <2> QED
    BY <1>0, <2>1, <2>2, <2>3, <2>4, <2>5, ToolMoves
<1>3. CASE ScanFile
  <2>1. child.at \in {"files", "file"} /\ child.i <= Len(Files)
        /\ UNCHANGED <<reader, gone, fetched>>
    BY <1>3 DEF ScanFile
  <2>2. child.at \notin Ended /\ ~IsUpdate /\ ~cancelled
    BY <2>1, Alive DEF Ended
  <2>3. /\ Fits(Named("found", Current)) /\ Fits(Named("ok", Current))
        /\ Fits(Named("excluded", Current)) /\ FitsError(Named("error", Current))
    BY <2>1, <2>2, LineKinds, MessagesAre, FileNames DEF Fits, FitsError
  <2>4. /\ \/ \E l : Fits(l) /\ Prints(l)
           \/ \E l : FitsError(l) /\ PrintError(l)
           \/ Silent
        /\ At("remove") \/ NextFile
    BY <1>3, <2>3 DEF ScanFile
  <2>5. child' \in Children /\ ChildOK(child')
    <3>1. CASE At("remove")
      <4>1. child' \in Children /\ child'.at = "remove" /\ child'.i = child.i
        BY <1>0, <3>1, AtMoves DEF ScanPlaces
      <4> QED
        BY <2>1, <2>2, <4>1 DEF ChildOK, ScanPlaces, Summed, Ended
    <3>2. CASE NextFile
      <4>1. child' \in Children /\ child'.at = "files"
        BY <1>0, <3>2, NextFileMoves
      <4> QED
        BY <2>1, <2>2, <4>1 DEF ChildOK, ScanPlaces, Summed, Ended
    <3> QED
      BY <2>4, <3>1, <3>2
  <2> QED
    BY <1>0, <2>1, <2>2, <2>4, <2>5, ToolMoves
<1>4. CASE RemoveFile
  <2>1. child.at = "remove" /\ gone' = gone \cup {Current} /\ NextFile
        /\ UNCHANGED <<reader, outp, errp, fetched>>
    BY <1>4 DEF RemoveFile
  <2>2. child.at \notin Ended /\ ~IsUpdate /\ ~cancelled
    BY <2>1, Alive DEF Ended
  <2>3. child.i <= Len(Files)
    BY <2>1 DEF BaseInv, ChildInv, ChildOK
  <2>4. Current \in Range(task.files)
    BY <2>3, FileNames
  <2>5. child' \in Children /\ child'.at = "files"
    BY <1>0, <2>1, NextFileMoves
  <2>6. ChildOK(child')
    BY <2>2, <2>5 DEF ChildOK, ScanPlaces, Summed, Ended
  <2>7. Silent
    BY <2>1 DEF Silent
  <2> QED
    BY <1>0, <2>1, <2>2, <2>4, <2>5, <2>6, <2>7, ToolMoves
<1>5. CASE Summarise
  <2>1. child.at \in {"files", "infected", "errors", "note"}
        /\ UNCHANGED <<reader, gone, fetched>>
    BY <1>5 DEF Summarise
  <2>2. child.at \notin Ended /\ ~IsUpdate /\ ~cancelled
    BY <2>1, Alive DEF Ended
  <2>3. NumScanned \in Nat /\ NumInfected \in Nat /\ NumLocked \in Nat
    <3>1. \A k : IsFiniteSet(Are(k))
      <4>1. Files \in Seq(FileSet)
        BY TaskFacts DEF BaseInv, TypeInv, TypeOK
      <4>2. IsFiniteSet(1 .. Len(Files))
        BY <4>1, FS_Interval
      <4>3. \A k : Are(k) \subseteq 1 .. Len(Files)
        BY <4>1 DEF Are
      <4> QED
        BY <4>2, <4>3, FS_Subset
    <3>2. IsFiniteSet(Are("clean") \cup Are("infected"))
      BY <3>1, FS_Union
    <3> QED
      BY <3>1, <3>2, FS_CardinalityType DEF NumScanned, NumInfected, NumLocked
  <2>4. /\ Fits(Number("scannedfiles", NumScanned))
        /\ Fits(Number("infectedfiles", NumInfected))
        /\ Fits(Number("errorcount", NumLocked)) /\ Fits(Line("note"))
    BY <2>2, <2>3, LineKinds, MessagesAre DEF Fits
  <2>5. /\ \E l : Fits(l) /\ Prints(l)
        /\ \E w \in {"infected", "errors", "note", "exit"} : At(w)
        /\ child.i > Len(Files)
    <3>1. child.at \in {"infected", "errors", "note"} => child.i > Len(Files)
      BY <2>2 DEF BaseInv, ChildInv, ChildOK, Summed
    <3> QED
      BY <1>5, <2>4, <3>1 DEF Summarise
  <2>6. PICK w \in {"infected", "errors", "note", "exit"} : At(w)
    BY <2>5
  <2>7. child' \in Children /\ child'.at = w /\ child'.i = child.i
    BY <1>0, <2>6, AtMoves DEF ScanPlaces, Summed
  <2>8. ChildOK(child')
    BY <2>2, <2>5, <2>6, <2>7 DEF ChildOK, ScanPlaces, Summed, Ended
  <2> QED
    BY <1>0, <2>1, <2>2, <2>5, <2>7, <2>8, ToolMoves
<1> QED
  BY <1>1, <1>2, <1>3, <1>4, <1>5

(* The steps of freshclam keep the base of the invariant.                  *)
LEMMA UpdateToolBase ==
    ASSUME ReportAssumption, BaseInv,
           \/ CheckDatabase \/ Download \/ ServerFails \/ Install \/ Refuse
           \/ Exit \/ ToolMissing
    PROVE  BaseInv'
<1>0. /\ child \in Children /\ child.i \in Nat \ {0} /\ child.n \in Int /\ child.tries \in Nat
      /\ gone \subseteq Range(task.files)
      /\ fetched \in Nat /\ Len(Databases) \in Nat /\ DbSize \in Nat \ {0} /\ MaxTries \in Nat
      /\ Failures \subseteq Int
  <2>1. child \in Children /\ fetched \in Nat /\ TypeOK
    BY DEF BaseInv, TypeInv
  <2>2. child.i \in Nat \ {0} /\ child.n \in Int /\ child.tries \in Nat
    BY <2>1 DEF Children
  <2>3. gone \subseteq Range(task.files)
    BY <2>1 DEF TypeOK
  <2>4. Databases \in Seq(STRING) /\ DbSize \in Nat \ {0} /\ MaxTries \in Nat
        /\ Failures \subseteq Int
    BY DEF ReportAssumption
  <2>5. Len(Databases) \in Nat
    BY <2>4
  <2> QED
    BY <2>1, <2>2, <2>3, <2>4, <2>5
<1>1. CASE CheckDatabase
  <2>1. child.at = "db" /\ child.i <= Len(Databases) /\ UNCHANGED <<reader, gone, fetched>>
    BY <1>1 DEF CheckDatabase
  <2>2. child.at \notin Ended /\ IsUpdate /\ ~cancelled
    BY <2>1, Alive DEF Ended
  <2>3. Fits(Named("uptodate", Databases[child.i])) /\ Fits(Named("available", Databases[child.i]))
    BY <2>1, <2>2, LineKinds, MessagesAre, DatabaseNames DEF Fits
  <2>4. \E l : Fits(l) /\ Prints(l)
    BY <1>1, <2>3 DEF CheckDatabase
  <2>5. child' \in Children /\ ChildOK(child')
    <3>1. CASE NextDb
      <4>1. child' \in Children /\ child'.at = "db"
        BY <1>0, <3>1, NextDbMoves
      <4> QED
        BY <2>2, <4>1 DEF ChildOK, UpdatePlaces, Summed, Ended
    <3>2. CASE child' = [child EXCEPT !.at = "fetch", !.n = 0, !.tries = 1]
      <4>1. "fetch" \in ScanPlaces \cup UpdatePlaces
        BY DEF UpdatePlaces
      <4>2. child' \in Children /\ child'.at = "fetch" /\ child'.i = child.i /\ child'.n = 0
        <5> DEFINE zero == 0
                   one == 1
        <5>1. child' = [child EXCEPT !.at = "fetch", !.n = zero, !.tries = one]
          BY <3>2
        <5>2. zero \in Int /\ one \in Nat
          OBVIOUS
        <5> HIDE DEF zero, one
        <5>3. child' \in Children /\ child'.at = "fetch" /\ child'.i = child.i /\ child'.n = zero
          BY <1>0, <4>1, <5>1, <5>2 DEF Children
        <5> QED
          BY <5>3 DEF zero
      <4> QED
        BY <1>0, <2>1, <2>2, <4>2 DEF ChildOK, UpdatePlaces, Summed, Ended
    <3> QED
      BY <1>1, <3>1, <3>2 DEF CheckDatabase
  <2> QED
    BY <1>0, <2>1, <2>2, <2>4, <2>5, ToolMoves
<1>2. CASE Download
  <2>1. child.at = "fetch" /\ fetched' = (IF child.n > 0 THEN fetched + 1 ELSE fetched)
        /\ UNCHANGED <<reader, gone>>
    BY <1>2 DEF Download
  <2>2. child.at \notin Ended /\ IsUpdate /\ ~cancelled
    BY <2>1, Alive DEF Ended
  <2>3. child.n \in 0 .. DbSize /\ child.i <= Len(Databases)
    BY <2>1 DEF BaseInv, ChildInv, ChildOK
  <2>4. \E l : Fits(l) /\ Prints(l)
    <3>1. Fits(Ratio("downloading", child.n, DbSize)) /\ Fits(Ratio("row", child.n, DbSize))
      <4>1. child.n \in Nat /\ DbSize \in Nat
        BY <1>0, <2>3
      <4> QED
        BY <4>1, <2>2, LineKinds, MessagesAre DEF Fits
    <3> QED
      BY <1>2, <3>1 DEF Download
  <2>5. child' \in Children /\ ChildOK(child')
    <3>1. CASE child.n = DbSize
      <4>0. child' = [child EXCEPT !.at = "test"]
        BY <1>2, <3>1 DEF Download
      <4>1. "test" \in ScanPlaces \cup UpdatePlaces
        BY DEF UpdatePlaces
      <4>2. child' \in Children /\ child'.at = "test" /\ child'.i = child.i
        BY <1>0, <4>0, <4>1 DEF Children
      <4> QED
        BY <1>0, <2>2, <2>3, <4>2 DEF ChildOK, UpdatePlaces, Summed, Ended
    <3>2. CASE child.n # DbSize
      <4>0. child' = [child EXCEPT !.n = child.n + 1]
        BY <1>2, <3>2 DEF Download
      <4>1. child.n + 1 \in 0 .. DbSize
        BY <1>0, <2>3, <3>2
      <4>2. child' \in Children /\ child'.at = "fetch" /\ child'.i = child.i
            /\ child'.n = child.n + 1
        BY <1>0, <2>1, <4>0, <4>1 DEF Children
      <4> QED
        BY <1>0, <2>2, <2>3, <4>1, <4>2 DEF ChildOK, UpdatePlaces, Summed, Ended
    <3> QED
      BY <3>1, <3>2
  <2>6. fetched' \in Nat
    BY <1>0, <2>1
  <2> QED
    BY <1>0, <2>1, <2>2, <2>4, <2>5, <2>6, ToolMoves
<1>3. CASE ServerFails
  <2>1. child.at = "fetch" /\ UNCHANGED <<reader, gone, fetched>>
    BY <1>3 DEF ServerFails
  <2>2. child.at \notin Ended /\ IsUpdate /\ ~cancelled
    BY <2>1, Alive DEF Ended
  <2>3. child.i <= Len(Databases)
    BY <2>1 DEF BaseInv, ChildInv, ChildOK
  <2>4. \A l \in {Line("servererror"), Line("error")} : Fits(l) /\ FitsError(l)
    BY <2>2, LineKinds, MessagesAre DEF Fits, FitsError
  <2>5. (\E l : Fits(l) /\ Prints(l)) \/ (\E l : FitsError(l) /\ PrintError(l))
    BY <1>3, <2>4 DEF ServerFails
  <2>6. child' \in Children /\ ChildOK(child')
    <3>1. CASE At("exit")
      <4>1. child' \in Children /\ child'.at = "exit"
        BY <1>0, <3>1, AtMoves DEF UpdatePlaces
      <4> QED
        BY <2>2, <4>1 DEF ChildOK, UpdatePlaces, Summed, Ended
    <3>2. CASE child' = [child EXCEPT !.n = 0, !.tries = child.tries + 1]
      <4>1. child' \in Children /\ child'.at = "fetch" /\ child'.i = child.i /\ child'.n = 0
        <5> DEFINE zero == 0
                   more == child.tries + 1
        <5>1. child' = [child EXCEPT !.n = zero, !.tries = more]
          BY <3>2
        <5>2. zero \in Int /\ more \in Nat
          BY <1>0
        <5> HIDE DEF zero, more
        <5>3. child' \in Children /\ child'.at = "fetch" /\ child'.i = child.i /\ child'.n = zero
          BY <1>0, <2>1, <5>1, <5>2 DEF Children
        <5> QED
          BY <5>3 DEF zero
      <4> QED
        BY <1>0, <2>2, <2>3, <4>1 DEF ChildOK, UpdatePlaces, Summed, Ended
    <3> QED
      BY <1>3, <3>1, <3>2 DEF ServerFails
  <2> QED
    BY <1>0, <2>1, <2>2, <2>5, <2>6, ToolMoves
<1>4. CASE Install
  <2>1. child.at \in {"test", "install"} /\ UNCHANGED <<reader, gone, fetched>>
    BY <1>4 DEF Install
  <2>2. child.at \notin Ended /\ IsUpdate /\ ~cancelled
    BY <2>1, Alive DEF Ended
  <2>3. child.i <= Len(Databases)
    BY <2>1 DEF BaseInv, ChildInv, ChildOK
  <2>4. Fits(Line("testing")) /\ Fits(Named("updated", Databases[child.i]))
    BY <2>2, <2>3, LineKinds, MessagesAre, DatabaseNames DEF Fits
  <2>5. (\E l : Fits(l) /\ Prints(l)) /\ (At("install") \/ NextDb)
    BY <1>4, <2>4 DEF Install
  <2>6. child' \in Children /\ ChildOK(child')
    <3>1. CASE At("install")
      <4>1. child' \in Children /\ child'.at = "install" /\ child'.i = child.i
        BY <1>0, <3>1, AtMoves DEF UpdatePlaces
      <4> QED
        BY <2>2, <2>3, <4>1 DEF ChildOK, UpdatePlaces, Summed, Ended
    <3>2. CASE NextDb
      <4>1. child' \in Children /\ child'.at = "db"
        BY <1>0, <3>2, NextDbMoves
      <4> QED
        BY <2>2, <4>1 DEF ChildOK, UpdatePlaces, Summed, Ended
    <3> QED
      BY <2>5, <3>1, <3>2
  <2> QED
    BY <1>0, <2>1, <2>2, <2>5, <2>6, ToolMoves
<1>5. CASE Refuse
  <2>1. child.at = "db" /\ At("exit") /\ UNCHANGED <<reader, gone, fetched>>
    BY <1>5 DEF Refuse
  <2>2. child.at \notin Ended /\ IsUpdate /\ ~cancelled
    BY <2>1, Alive DEF Ended
  <2>3. \A l \in {Line("ratelimit"), Line("unsupported")} : Fits(l) /\ FitsError(l)
    BY <2>2, LineKinds, MessagesAre DEF Fits, FitsError
  <2>4. (\E l : Fits(l) /\ Prints(l)) \/ (\E l : FitsError(l) /\ PrintError(l))
    BY <1>5, <2>3 DEF Refuse
  <2>5. child' \in Children /\ child'.at = "exit"
    BY <1>0, <2>1, AtMoves DEF UpdatePlaces
  <2>6. ChildOK(child')
    BY <2>2, <2>5 DEF ChildOK, UpdatePlaces, Summed, Ended
  <2> QED
    BY <1>0, <2>1, <2>2, <2>4, <2>5, <2>6, ToolMoves
<1>6. CASE Exit
  <2>1. child.at \in {"exit", "db"} /\ UNCHANGED <<reader, outp, errp, gone, fetched>>
    BY <1>6 DEF Exit
  <2>2. child.at \notin Ended /\ ~cancelled
    BY <2>1, Alive DEF Ended
  <2>3. PICK c \in Failures \cup {0, 1, 2} : child' = [child EXCEPT !.at = "ended", !.n = c]
    BY <1>6 DEF Exit
  <2>4. c \in Int /\ "ended" \in ScanPlaces \cup UpdatePlaces
    BY <1>0, <2>3 DEF UpdatePlaces
  <2>5. child' \in Children /\ child'.at = "ended" /\ child'.i = child.i /\ child'.n = c
    BY <1>0, <2>3, <2>4 DEF Children
  <2>6. ~IsUpdate => child.i > Len(Files)
    BY <2>1, <2>2, Alive DEF BaseInv, ChildInv, ChildOK, Summed
  <2>7. ChildOK(child')
    BY <2>2, <2>3, <2>5, <2>6 DEF ChildOK, UpdatePlaces, ScanPlaces, Summed,
       Ended
  <2>8. Silent
    BY <2>1 DEF Silent
  <2> QED
    BY <1>0, <2>1, <2>2, <2>5, <2>7, <2>8, ToolMoves
<1>7. CASE ToolMissing
  <2>1. /\ child.at = "db" /\ PrintError(Line("error"))
        /\ child' = [child EXCEPT !.at = "missing", !.n = -1]
        /\ UNCHANGED <<reader, gone, fetched>>
    BY <1>7 DEF ToolMissing
  <2>2. child.at \notin Ended /\ IsUpdate /\ ~cancelled
    BY <2>1, Alive DEF Ended
  <2>3. FitsError(Line("error"))
    BY <2>2, LineKinds, MessagesAre DEF FitsError
  <2>4. "missing" \in ScanPlaces \cup UpdatePlaces
    BY DEF UpdatePlaces
  <2>5. child' \in Children /\ child'.at = "missing" /\ child'.n = -1
    <3> DEFINE none == -1
    <3>1. child' = [child EXCEPT !.at = "missing", !.n = none]
      BY <2>1
    <3>2. none \in Int
      OBVIOUS
    <3> HIDE DEF none
    <3>3. child' \in Children /\ child'.at = "missing" /\ child'.n = none
      BY <1>0, <2>4, <3>1, <3>2 DEF Children
    <3> QED
      BY <3>3 DEF none
  <2>6. ChildOK(child')
    BY <2>2, <2>5 DEF ChildOK, UpdatePlaces, Summed, Ended
  <2> QED
    BY <1>0, <2>1, <2>2, <2>3, <2>5, <2>6, ToolMoves
<1> QED
  BY <1>1, <1>2, <1>3, <1>4, <1>5, <1>6, <1>7

(* What the reader starts a line from.                                     *)
SameButErrors(s, t) ==
    /\ StateOK(t)
    /\ t.isUpdate = s.isUpdate /\ t.files = s.files /\ t.threats = s.threats
    /\ t.expectedFiles = s.expectedFiles /\ t.expectedBytes = s.expectedBytes
    /\ t.completed = s.completed /\ t.bytes = s.bytes /\ t.ui = s.ui
    /\ t.downloaded = s.downloaded /\ t.transferred = s.transferred
    /\ t.changes = s.changes /\ t.upToDate = s.upToDate
    /\ t.blocked = s.blocked /\ t.serverError = s.serverError

(* The dialog only resets the number of errors before a line.              *)
LEMMA BeforeIs ==
    ASSUME StateOK(state)
    PROVE  SameButErrors(state, Before)
<1> DEFINE zero == 0
           t == [state EXCEPT !.errors = zero]
<1>1. zero \in Nat
  OBVIOUS
<1>2. Before = IF IsDialog THEN t ELSE state
  BY DEF Before
<1>3. SameButErrors(state, state)
  BY DEF SameButErrors
<1> HIDE DEF zero
<1>4. SameButErrors(state, t)
  BY <1>1 DEF SameButErrors, StateOK, StateFields
<1> HIDE DEF t
<1> QED
  BY <1>2, <1>3, <1>4

(* What else is so when a line is read.                                    *)
RestSame ==
    UNCHANGED <<task, child, cancelled, verdict, code, balloon, gone, fetched>>

LineRead(l, e) ==
    /\ TakesLine /\ RestSame
    /\ view' = Shown(l, FALSE, e)
    /\ ~IsUpdate => ReadsScan(Before, l, SizeNow(l), state', e)
    /\ IsUpdate => ReadsUpdate(Before, l, state', e)

ErrorRead(l, e) ==
    /\ TakesError /\ RestSame
    /\ view' = Shown(l, TRUE, e)
    /\ ~IsUpdate => state' = Before /\ e = Effects(TRUE, "", NoBar)
    /\ IsUpdate => ReadsError(Before, l, state', e)

(* The size of a file that may be gone is a number.                        *)
LEMMA SizeIsNat ==
    ASSUME NEW l, l.kind \in FileResults => l.name \in FileSet
    PROVE  SizeNow(l) \in Nat
<1>1. l.kind \in Counted => l.name.size \in Nat
  BY DEF FileResults, FileSet
<1> QED
  BY <1>1 DEF SizeNow

(* The line that onOutput takes is one the tool could print.               *)
LEMMA HeadLine ==
    ASSUME BaseInv, outp # <<>>
    PROVE  /\ Head(outp) = outp[1] /\ outp[1] \in Messages
           /\ 1 \in DOMAIN outp
           /\ outp[1].kind \in (IF IsUpdate THEN UpdateLines ELSE ScanLines)
           /\ outp[1].kind \in FileResults => outp[1].name \in FileSet
           /\ outp[1].kind \in ByteProgress => outp[1].of = DbSize
           /\ SizeNow(outp[1]) \in Nat
<1>1. outp \in Seq(Messages) /\ LinesInv
  BY DEF BaseInv, TypeInv
<1>2. Head(outp) = outp[1] /\ outp[1] \in Messages /\ 1 \in DOMAIN outp
  BY <1>1
<1>3. /\ outp[1].kind \in (IF IsUpdate THEN UpdateLines ELSE ScanLines)
      /\ outp[1].kind \in FileResults => outp[1].name \in FileSet
      /\ outp[1].kind \in ByteProgress => outp[1].of = DbSize
  BY <1>1, <1>2 DEF LinesInv
<1> QED
  BY <1>2, <1>3, SizeIsNat

(* The line that onError takes is one the tool could print.                *)
LEMMA HeadError ==
    ASSUME BaseInv, errp # <<>>
    PROVE  /\ Head(errp) = errp[1] /\ errp[1] \in Messages
           /\ 1 \in DOMAIN errp
           /\ errp[1].kind \in (IF IsUpdate THEN Complaints ELSE {"error"})
<1>1. errp \in Seq(Messages) /\ LinesInv
  BY DEF BaseInv, TypeInv
<1>2. Head(errp) = errp[1] /\ errp[1] \in Messages /\ 1 \in DOMAIN errp
  BY <1>1
<1> QED
  BY <1>1, <1>2 DEF LinesInv

(* onOutput does what processOutputLine says.                              *)
LEMMA LineIsRead ==
    ASSUME ReportAssumption, BaseInv, onOutput
    PROVE  \E e : LineRead(outp[1], e)
<1> DEFINE l == outp[1]
           r == processOutputLine(Before, l, FALSE, SizeNow(l))
<1>1. outp # <<>> /\ TakesLine /\ Handle(Head(outp), FALSE)
  BY DEF onOutput, TakesLine
<1>2. /\ Head(outp) = l /\ l \in Messages
      /\ l.kind \in ByteProgress => l.of = DbSize
      /\ SizeNow(l) \in Nat
  BY <1>1, HeadLine
<1>3. StateOK(Before) /\ Before.isUpdate = IsUpdate
  <2>1. StateOK(state) /\ state.isUpdate = IsUpdate
    BY DEF BaseInv, TypeInv, EndInv
  <2> QED
    BY <2>1, BeforeIs DEF SameButErrors
<1>4. DbSize # 0
  BY DEF ReportAssumption
<1> HIDE DEF l
<1>5. state' = r[1] /\ view' = Shown(l, FALSE, r[2]) /\ RestSame
  <2>1. Handle(l, FALSE)
    BY <1>1, <1>2
  <2> QED
    BY <2>1, Zenon DEF Handle, RestSame
<1>6. ~IsUpdate => ReadsScan(Before, l, SizeNow(l), r[1], r[2])
  BY <1>2, <1>3, ScanLineReads, Zenon
<1>7. IsUpdate => ReadsUpdate(Before, l, r[1], r[2])
  BY <1>2, <1>3, <1>4, UpdateLineReads, Zenon
<1> HIDE DEF r
<1>8. LineRead(l, r[2])
  BY <1>1, <1>5, <1>6, <1>7 DEF LineRead
<1> QED
  BY <1>8 DEF l

(* onError does what processOutputLine says.                               *)
LEMMA ErrorIsRead ==
    ASSUME ReportAssumption, BaseInv, onError
    PROVE  \E e : ErrorRead(errp[1], e)
<1> DEFINE l == errp[1]
           r == processOutputLine(Before, l, TRUE, SizeNow(l))
<1>1. errp # <<>> /\ TakesError /\ Handle(Head(errp), TRUE)
  BY DEF onError, TakesError
<1>2. Head(errp) = l /\ l \in Messages
  BY <1>1, HeadError
<1>3. StateOK(Before) /\ Before.isUpdate = IsUpdate
  <2>1. StateOK(state) /\ state.isUpdate = IsUpdate
    BY DEF BaseInv, TypeInv, EndInv
  <2> QED
    BY <2>1, BeforeIs DEF SameButErrors
<1> HIDE DEF l
<1>5. state' = r[1] /\ view' = Shown(l, TRUE, r[2]) /\ RestSame
  <2>1. Handle(l, TRUE)
    BY <1>1, <1>2
  <2> QED
    BY <2>1, Zenon DEF Handle, RestSame
<1>6. ~IsUpdate => r[1] = Before /\ r[2] = Effects(TRUE, "", NoBar)
  <2>1. SUFFICES ASSUME ~IsUpdate PROVE r[1] = Before /\ r[2] = Effects(TRUE, "", NoBar)
    OBVIOUS
  <2>2. r = <<Before, Effects(TRUE, "", NoBar)>>
    BY <1>3, <2>1, ScanErrorReads, Zenon
  <2> HIDE DEF r
  <2> QED
    BY <2>2
<1>7. IsUpdate => ReadsError(Before, l, r[1], r[2])
  BY <1>2, <1>3, UpdateErrorReads, Zenon
<1> HIDE DEF r
<1>8. ErrorRead(l, r[2])
  BY <1>1, <1>5, <1>6, <1>7 DEF ErrorRead
<1> QED
  BY <1>8 DEF l

(* The dialog after a line.                                                *)
ShowsFine(l, e) ==
    Shown(l, TRUE, e) \in Views /\ Shown(l, FALSE, e) \in Views

(* The dialog's view stays well typed when a line is shown.                *)
LEMMA ShownIsView ==
    ASSUME view \in Views, NEW l \in Messages, NEW e,
           e.append \in BOOLEAN, e.status \in Statuses,
           e.bar \in 0 .. 100 \cup {NoBar}
    PROVE  ShowsFine(l, e)
<1> DEFINE box == IF e.append THEN Append(view.box, l) ELSE view.box
           status == IF e.status = "" THEN view.status ELSE e.status
           bar == IF e.bar = NoBar \/ (task.mode = "memory" /\ verdict = "")
                  THEN view.bar ELSE e.bar
           next(err) == [box |-> box, status |-> status, bar |-> bar,
                         lastError |-> err]
           errors == {NoName} \cup Kinds
<1>1. box \in Seq(Messages) /\ status \in Statuses
  <2>1. view.box \in Seq(Messages) /\ view.status \in Statuses
    BY DEF Views
  <2>2. Append(view.box, l) \in Seq(Messages)
    BY <2>1
  <2> QED
    BY <2>1, <2>2
<1>2. bar \in 0 .. 100
  <2>1. view.bar \in 0 .. 100
    BY DEF Views
  <2> QED
    BY <2>1
<1>3. l.kind \in errors /\ view.lastError \in errors
  BY DEF Views, Messages
<1>4. /\ \E err \in errors : Shown(l, TRUE, e) = IF ~IsDialog THEN view ELSE next(err)
      /\ \E err \in errors : Shown(l, FALSE, e) = IF ~IsDialog THEN view ELSE next(err)
  <2> HIDE DEF errors
  <2> QED
    BY <1>3 DEF Shown
<1> HIDE DEF box, status, bar
<1>5. \A err \in errors : next(err) \in Views
  BY <1>1, <1>2 DEF Views
<1> HIDE DEF next, errors
<1> QED
  BY <1>4, <1>5 DEF ShowsFine

(* A line read from either pipe.                                           *)
LEMMA ReadBase ==
    ASSUME ReportAssumption, BaseInv, onOutput \/ onError
    PROVE  BaseInv'
<1>1. /\ RestSame /\ StateOK(state') /\ state'.isUpdate = IsUpdate
      /\ view' \in Views /\ (TakesLine \/ TakesError)
  <2>0. /\ StateOK(Before) /\ Before.isUpdate = IsUpdate /\ Before.ui \in 0 .. 100
        /\ view \in Views
    <3>1. StateOK(state) /\ state.isUpdate = IsUpdate /\ view \in Views
      BY DEF BaseInv, TypeInv, EndInv
    <3>2. SameButErrors(state, Before)
      BY <3>1, BeforeIs
    <3>3. StateOK(Before) /\ Before.isUpdate = IsUpdate
      BY <3>1, <3>2 DEF SameButErrors
    <3> QED
      BY <3>1, <3>3 DEF StateOK
  <2>1. CASE onOutput
    <3>1. PICK e : LineRead(outp[1], e)
      BY <2>1, LineIsRead
    <3>2. outp[1] \in Messages
      BY <2>1, HeadLine DEF onOutput
    <3>3. CASE IsUpdate
      <4>1. ReadsUpdate(Before, outp[1], state', e)
        BY <3>1, <3>3 DEF LineRead
      <4>2. /\ e.append \in BOOLEAN /\ e.status \in Statuses
            /\ e.bar \in 0 .. 100 \cup {NoBar}
            /\ StateOK(state') /\ state'.isUpdate = Before.isUpdate
        BY <4>1 DEF ReadsUpdate, ReadsMark
      <4>3. Shown(outp[1], FALSE, e) \in Views
        <5>1. ShowsFine(outp[1], e)
          BY <2>0, <3>2, <4>2, ShownIsView
        <5> QED
          BY <5>1 DEF ShowsFine
      <4> QED
        BY <2>0, <3>1, <4>2, <4>3 DEF LineRead
    <3>4. CASE ~IsUpdate
      <4>1. ReadsScan(Before, outp[1], SizeNow(outp[1]), state', e)
        BY <3>1, <3>4 DEF LineRead
      <4>2. /\ e.append \in BOOLEAN /\ e.status \in Statuses
            /\ e.bar = state'.ui
            /\ StateOK(state') /\ state'.isUpdate = Before.isUpdate
        BY <4>1 DEF ReadsScan
      <4>4. e.bar \in 0 .. 100 \cup {NoBar}
        BY <4>2 DEF StateOK
      <4>3. Shown(outp[1], FALSE, e) \in Views
        <5>1. ShowsFine(outp[1], e)
          BY <2>0, <3>2, <4>2, <4>4, ShownIsView
        <5> QED
          BY <5>1 DEF ShowsFine
      <4> QED
        BY <2>0, <3>1, <4>2, <4>3 DEF LineRead
    <3> QED
      BY <3>3, <3>4
  <2>2. CASE onError
    <3>1. PICK e : ErrorRead(errp[1], e)
      BY <2>2, ErrorIsRead
    <3>2. errp[1] \in Messages
      BY <2>2, HeadError DEF onError
    <3>3. /\ e.append \in BOOLEAN /\ e.status \in Statuses /\ e.bar = NoBar
          /\ StateOK(state') /\ state'.isUpdate = IsUpdate
      <4>1. CASE IsUpdate
        BY <2>0, <3>1, <4>1 DEF ErrorRead, ReadsError, ReadsMark
      <4>2. CASE ~IsUpdate
        <5>1. e = Effects(TRUE, "", NoBar) /\ state' = Before
          BY <3>1, <4>2 DEF ErrorRead
        <5> QED
          BY <2>0, <5>1 DEF Effects, Statuses
      <4> QED
        BY <4>1, <4>2
    <3>4. Shown(errp[1], TRUE, e) \in Views
      <4>1. ShowsFine(errp[1], e)
        BY <2>0, <3>2, <3>3, ShownIsView
      <4> QED
        BY <4>1 DEF ShowsFine
    <3> QED
      BY <2>0, <3>1, <3>3, <3>4 DEF ErrorRead
  <2> QED
    BY <2>1, <2>2
<1>2. verdict = "" /\ balloon = ""
  BY <1>1 DEF BaseInv, EndInv, TakesLine, TakesError
<1>3. /\ outp \in Seq(Messages) /\ errp \in Seq(Messages) /\ LinesInv
      /\ Len(errp) <= PipeBound /\ Len(outp) <= PipeBound /\ PipeBound \in Nat
  BY DEF BaseInv, TypeInv, TypeOK, ReportAssumption
<1>4. /\ outp' \in Seq(Messages) /\ errp' \in Seq(Messages) /\ LinesInv'
      /\ Len(outp') <= PipeBound /\ Len(errp') <= PipeBound
  BY <1>1, <1>3, TailLines DEF RestSame
<1>5. /\ task' = task /\ child' = child /\ cancelled' = cancelled
      /\ verdict' = verdict /\ code' = code /\ balloon' = balloon
      /\ gone' = gone /\ fetched' = fetched
  BY <1>1 DEF RestSame
<1>6. TypeInv'
  <2>1. TypeOK'
    <3>1. /\ state'.files \in Nat /\ state'.threats \in Nat
          /\ state'.ui \in 0 .. 100 /\ state'.updateUi \in 0 .. 100
          /\ view'.bar \in 0 .. 100
      <4>1. view' \in Views /\ StateOK(state')
        BY <1>1
      <4>2. view'.bar \in 0 .. 100
        BY <4>1 DEF Views
      <4> QED
        BY <4>1, <4>2 DEF StateOK
    <3> QED
      BY <1>4, <1>5, <3>1 DEF BaseInv, TypeInv, TypeOK
  <2> QED
    <3>1. child \in Children /\ fetched \in Nat
      BY DEF BaseInv, TypeInv
    <3> QED
      BY <1>1, <1>4, <1>5, <2>1, <3>1 DEF TypeInv
<1>7. ChildInv'
  BY <1>5 DEF BaseInv, ChildInv, ChildOK, IsUpdate, IsDialog, Files
<1>8. EndInv'
  BY <1>1, <1>2, <1>5 DEF EndInv, IsUpdate
<1> QED
  BY <1>4, <1>6, <1>7, <1>8 DEF BaseInv

(* What reformatLog leaves.                                                *)
LEMMA ReformatKeeps ==
    ASSUME NEW box \in Seq(Messages)
    PROVE  /\ reformatLog(box) \in Seq(Messages)
           /\ Range(reformatLog(box)) = {m \in Range(box) : m.kind # "ok"}
<1> DEFINE S == Seq(Messages)
           one(n, s) == IF box[n].kind = "ok" THEN s ELSE Append(s, box[n])
           g == [n \in 1 .. Len(box) |-> [s \in S |-> one(n, s)]]
           to(kept, n) == IF n = 0 THEN <<>>
                          ELSE IF box[n].kind = "ok" THEN kept[n - 1]
                          ELSE Append(kept[n - 1], box[n])
           P(kept) == kept = [n \in 0 .. Len(box) |-> to(kept, n)]
<1>1. Len(box) \in Nat /\ <<>> \in S
  OBVIOUS
<1>2. \A n \in 1 .. Len(box) : box[n] \in Messages
  OBVIOUS
<1>3. \A n \in 1 .. Len(box), s \in S : one(n, s) \in S
  BY <1>2
<1>4. g \in [1 .. Len(box) -> [S -> S]]
  <2> HIDE DEF S, one
  <2> QED
    BY <1>3
<1>5. \A n \in 1 .. Len(box), s \in S : g[n][s] = one(n, s)
  <2> HIDE DEF S, one
  <2> QED
    OBVIOUS
<1> HIDE DEF g, S
<1>6. \E f : Goes(f, Len(box), S, <<>>, g)
  BY <1>1, <1>4, Recursion, Zenon
<1>7. PICK f : Goes(f, Len(box), S, <<>>, g)
  BY <1>6
<1>8. /\ f \in [0 .. Len(box) -> S] /\ f[0] = <<>>
      /\ \A n \in 1 .. Len(box) : f[n] = one(n, f[n - 1])
  <2>1. /\ f \in [0 .. Len(box) -> S] /\ f[0] = <<>>
        /\ \A n \in 1 .. Len(box) : f[n] = g[n][f[n - 1]]
    BY <1>7 DEF Goes
  <2>2. \A n \in 1 .. Len(box) : f[n - 1] \in S
    BY <1>1, <2>1
  <2> HIDE DEF one
  <2> QED
    BY <1>5, <2>1, <2>2
<1>9. P(f)
  <2>1. \A n \in 0 .. Len(box) : f[n] = to(f, n)
    <3> SUFFICES ASSUME NEW n \in 0 .. Len(box) PROVE f[n] = to(f, n)
      OBVIOUS
    <3>1. n # 0 => n \in 1 .. Len(box)
      BY <1>1
    <3> QED
      BY <1>8, <3>1
  <2> HIDE DEF to
  <2> QED
    BY <1>8, <2>1
<1> DEFINE kept == CHOOSE kept : P(kept)
<1>10. P(kept)
  <2> HIDE DEF P
  <2> QED
    BY <1>9, Zenon
<1>11. reformatLog(box) = kept[Len(box)]
  BY DEF reformatLog
<1> HIDE DEF kept
<1> DEFINE T == {n \in Nat : n <= Len(box) => kept[n] = f[n]}
<1>12. 0 \in T
  BY <1>1, <1>9, <1>10
<1>13. ASSUME NEW n \in Nat, n \in T PROVE n + 1 \in T
  <2> SUFFICES ASSUME n + 1 <= Len(box) PROVE kept[n + 1] = f[n + 1]
    OBVIOUS
  <2>1. kept[n + 1] = one(n + 1, kept[n])
    <3>1. n + 1 \in 0 .. Len(box) /\ n + 1 # 0 /\ (n + 1) - 1 = n
      BY <1>1
    <3>2. kept[n + 1] = to(kept, n + 1)
      <4> HIDE DEF to
      <4> QED
        BY <1>10, <3>1
    <3>3. to(kept, n + 1) = one(n + 1, kept[n])
      BY <3>1
    <3> QED
      BY <3>2, <3>3
  <2>2. f[n + 1] = one(n + 1, f[n]) /\ kept[n] = f[n]
    BY <1>1, <1>8, <1>13
  <2> QED
    BY <2>1, <2>2
<1> HIDE DEF T
<1>14. Len(box) \in T
  BY <1>1, <1>12, <1>13, Inductive
<1>15. reformatLog(box) = f[Len(box)] /\ f[Len(box)] \in S
  BY <1>1, <1>8, <1>11, <1>14 DEF T
<1> DEFINE Of(n) == {m \in {box[i] : i \in 1 .. n} : m.kind # "ok"}
           U == {n \in Nat : n <= Len(box) => Range(f[n]) = Of(n)}
<1>16. 0 \in U
  <2>1. Range(<<>>) = {} /\ Of(0) = {}
    BY DEF Range
  <2> QED
    BY <1>8, <2>1
<1>17. ASSUME NEW n \in Nat, n \in U PROVE n + 1 \in U
  <2> SUFFICES ASSUME n + 1 <= Len(box) PROVE Range(f[n + 1]) = Of(n + 1)
    OBVIOUS
  <2>1. /\ f[n + 1] = one(n + 1, f[n]) /\ f[n] \in Seq(Messages)
        /\ Range(f[n]) = Of(n) /\ box[n + 1] \in Messages
    <3>1. n + 1 \in 1 .. Len(box) /\ n \in 0 .. Len(box) /\ (n + 1) - 1 = n
      BY <1>1
    <3>2. f[n + 1] = one(n + 1, f[n])
      BY <1>8, <3>1
    <3>3. f[n] \in Seq(Messages)
      BY <1>8, <3>1 DEF S
    <3>4. Range(f[n]) = Of(n)
      BY <1>17, <3>1
    <3>5. box[n + 1] \in Messages
      BY <1>2, <3>1
    <3> QED
      BY <3>2, <3>3, <3>4, <3>5
  <2> DEFINE b == box[n + 1]
  <2>2. Of(n + 1) = Of(n) \cup (IF b.kind = "ok" THEN {} ELSE {b})
    <3>1. {box[i] : i \in 1 .. n + 1} = {box[i] : i \in 1 .. n} \cup {b}
      <4>1. 1 .. n + 1 = (1 .. n) \cup {n + 1}
        OBVIOUS
      <4> QED
        BY <4>1
    <3> HIDE DEF b
    <3> QED
      BY <3>1
  <2>3. Range(Append(f[n], b)) = Range(f[n]) \cup {b}
    <3> DEFINE q == f[n]
    <3>1. q \in Seq(Messages) /\ b \in Messages
      BY <2>1
    <3> HIDE DEF q, b
    <3>2. /\ DOMAIN Append(q, b) = DOMAIN q \cup {Len(q) + 1}
          /\ Append(q, b)[Len(q) + 1] = b
          /\ \A i \in DOMAIN q : Append(q, b)[i] = q[i]
      BY <3>1
    <3>3. Range(Append(q, b)) = Range(q) \cup {b}
      BY <3>2 DEF Range
    <3> QED
      BY <3>3 DEF q
  <2>4. f[n + 1] = IF b.kind = "ok" THEN f[n] ELSE Append(f[n], b)
    BY <2>1
  <2> HIDE DEF b, Of
  <2> QED
    BY <2>1, <2>2, <2>3, <2>4
<1> HIDE DEF U
<1>18. Len(box) \in U
  BY <1>1, <1>16, <1>17, Inductive
<1>19. Range(f[Len(box)]) = Of(Len(box))
  BY <1>1, <1>18 DEF U
<1>20. {box[i] : i \in 1 .. Len(box)} = Range(box)
  BY DEF Range
<1> QED
  BY <1>15, <1>19, <1>20 DEF S

(* The lines at the end are of their own kinds.                            *)
LEMMA FooterLines ==
    ASSUME StateOK(state), view \in Views, NEW v \in Outcomes
    PROVE  /\ Footer(v) \in Seq(Messages)
           /\ \A m \in Range(Footer(v)) : m.kind \in Footers
<1> DEFINE F == {m \in Messages : m.kind \in Footers}
           a == <<Line(IF v = "cancelled" THEN "Cancelled"
               ELSE IF v \in Failed THEN "Failed"
               ELSE IF v \in Blocked THEN "Blocked" ELSE "Completed")>>
           b == IF ~IsUpdate /\ ~cancelled /\ state.errors > 0
                THEN <<Number("errornote", state.errors)>> ELSE <<>>
           c == IF IsUpdate /\ ~cancelled
                THEN <<IF v \in Failed \cup Blocked THEN Line(v)
                       ELSE IF v = "uptodate" \/ state.transferred + state.downloaded = 0
                       THEN Line("nothing")
                       ELSE Number("downloaded", state.transferred + state.downloaded)>>
                ELSE <<>>
           d == IF IsUpdate /\ v \in Failed \cup Blocked /\ view.lastError # NoName
                THEN <<Named("detail", view.lastError)>> ELSE <<>>
<1>0. Footer(v) = a \o b \o c \o d
  BY DEF Footer
<1>1. \A k \in Footers : /\ Line(k) \in F
                         /\ \A n \in Nat : Number(k, n) \in F
                         /\ \A n \in Names : Named(k, n) \in F
  <2>1. Footers \subseteq Kinds
    BY LineKinds
  <2> QED
    BY <2>1, MessagesAre
<1>2. v \in Footers /\ {"Cancelled", "Failed", "Blocked", "Completed", "errornote",
            "nothing", "downloaded", "detail"} \subseteq Footers
  BY DEF Footers
<1>3. state.errors \in Nat /\ state.transferred + state.downloaded \in Nat
  BY DEF StateOK
<1>4. view.lastError \in Names
  BY DEF Views, Names
<1> HIDE DEF F
<1>5. a \in Seq(F) /\ b \in Seq(F) /\ c \in Seq(F) /\ d \in Seq(F)
  <2>0. <<>> \in Seq(F) /\ \A m \in F : <<m>> \in Seq(F)
    OBVIOUS
  <2>1. a \in Seq(F)
    BY <1>1, <1>2, <2>0
  <2>2. b \in Seq(F)
    BY <1>1, <1>2, <1>3, <2>0
  <2>3. c \in Seq(F)
    BY <1>1, <1>2, <1>3, <2>0
  <2>4. d \in Seq(F)
    BY <1>1, <1>2, <1>4, <2>0
  <2> QED
    BY <2>1, <2>2, <2>3, <2>4
<1> HIDE DEF a, b, c, d
<1>6. a \o b \o c \o d \in Seq(F)
  BY <1>5
<1> DEFINE q == a \o b \o c \o d
<1> HIDE DEF q
<1>7. q \in Seq(Messages) /\ \A m \in Range(q) : m.kind \in Footers
  <2>1. q \in Seq(F)
    BY <1>6 DEF q
  <2>2. F \subseteq Messages /\ \A m \in F : m.kind \in Footers
    BY DEF F
  <2> QED
    BY <2>1, <2>2 DEF Range
<1> QED
  BY <1>0, <1>7 DEF q

(* Concatenation.                                                          *)
LEMMA RangeOfBoth ==
    ASSUME NEW p \in Seq(Messages), NEW q \in Seq(Messages)
    PROVE  p \o q \in Seq(Messages) /\ Range(p \o q) = Range(p) \cup Range(q)
<1>1. /\ p \o q \in Seq(Messages) /\ Len(p \o q) = Len(p) + Len(q)
      /\ Len(p) \in Nat /\ Len(q) \in Nat
      /\ \A i \in 1 .. Len(p) : (p \o q)[i] = p[i]
      /\ \A i \in 1 .. Len(q) : (p \o q)[Len(p) + i] = q[i]
  OBVIOUS
<1> DEFINE r == p \o q
<1> HIDE DEF r
<1>2. /\ r \in Seq(Messages) /\ Len(r) = Len(p) + Len(q)
      /\ \A i \in 1 .. Len(p) : r[i] = p[i]
      /\ \A i \in 1 .. Len(q) : r[Len(p) + i] = q[i]
  BY <1>1 DEF r
<1>3. DOMAIN r = 1 .. Len(r) /\ DOMAIN p = 1 .. Len(p) /\ DOMAIN q = 1 .. Len(q)
  BY <1>2
<1>4. Range(r) \subseteq Range(p) \cup Range(q)
  <2> SUFFICES ASSUME NEW i \in DOMAIN r PROVE r[i] \in Range(p) \cup Range(q)
    BY DEF Range
  <2>1. CASE i <= Len(p)
    BY <1>1, <1>2, <1>3, <2>1 DEF Range
  <2>2. CASE i > Len(p)
    <3>1. i - Len(p) \in 1 .. Len(q) /\ r[i] = q[i - Len(p)]
      BY <1>1, <1>2, <1>3, <2>2
    <3> QED
      BY <1>3, <3>1 DEF Range
  <2> QED
    BY <1>1, <1>3, <2>1, <2>2
<1>5. Range(p) \subseteq Range(r)
  <2> SUFFICES ASSUME NEW i \in DOMAIN p PROVE p[i] \in Range(r)
    BY DEF Range
  <2>1. i \in DOMAIN r /\ r[i] = p[i]
    BY <1>1, <1>2, <1>3
  <2> QED
    BY <2>1 DEF Range
<1>6. Range(q) \subseteq Range(r)
  <2> SUFFICES ASSUME NEW i \in DOMAIN q PROVE q[i] \in Range(r)
    BY DEF Range
  <2>1. Len(p) + i \in DOMAIN r /\ r[Len(p) + i] = q[i]
    BY <1>1, <1>2, <1>3
  <2> QED
    BY <2>1 DEF Range
<1> QED
  BY <1>2, <1>4, <1>5, <1>6 DEF r

(* The files counted.                                                      *)
Weights(files, counted) ==
    [i \in DOMAIN files |-> IF i \in counted THEN files[i].size ELSE 0]

(* The bytes of the files that are counted, as numbers to add.             *)
LEMMA WeightsAre ==
    ASSUME NEW files \in Seq(FileSet), NEW counted
    PROVE  /\ Weights(files, counted) \in Seq(Nat)
           /\ Len(Weights(files, counted)) = Len(files)
           /\ \A i \in 1 .. Len(files) :
                 Weights(files, counted)[i] = IF i \in counted THEN files[i].size ELSE 0
           /\ SizeOf(files, counted) = Total(Weights(files, counted))
           /\ SizeOf(files, counted) \in Nat
<1>1. DOMAIN files = 1 .. Len(files) /\ Len(files) \in Nat
  OBVIOUS
<1>2. \A i \in 1 .. Len(files) : files[i].size \in Nat
  <2>1. \A i \in 1 .. Len(files) : files[i] \in FileSet
    OBVIOUS
  <2>2. \A f \in FileSet : f.size \in Nat
    BY DEF FileSet
  <2> QED
    BY <2>1, <2>2
<1> DEFINE w == Weights(files, counted)
<1>3. w = [i \in 1 .. Len(files) |-> IF i \in counted THEN files[i].size ELSE 0]
  BY <1>1 DEF Weights
<1>4. w \in Seq(Nat) /\ Len(w) = Len(files)
  BY <1>1, <1>2, <1>3
<1>5. \A i \in 1 .. Len(files) : w[i] = IF i \in counted THEN files[i].size ELSE 0
  BY <1>3
<1>6. SizeOf(files, counted) = Total(w)
  BY DEF SizeOf, Weights
<1> HIDE DEF w
<1>7. Total(w) \in Nat
  BY <1>4, TotalNat
<1> QED
  BY <1>4, <1>5, <1>6, <1>7 DEF w

(* What the dialog counts beforehand are some of the files, and their      *)
(* sizes have a sum.                                                       *)
LEMMA CountIsNat ==
    ASSUME ReportAssumption, task \in Tasks
    PROVE  /\ IsFiniteSet(enumScanTargets(task))
           /\ Cardinality(enumScanTargets(task)) \in Nat
           /\ enumScanTargets(task) \subseteq 1 .. Len(Files)
           /\ SizeOf(Files, enumScanTargets(task)) \in Nat
<1>1. Files \in Seq(FileSet)
  BY TaskFacts
<1>2. enumScanTargets(task) \subseteq 1 .. Len(Files)
  BY <1>1 DEF enumScanTargets, Files
<1>3. IsFiniteSet(1 .. Len(Files))
  BY <1>1, FS_Interval
<1>4. IsFiniteSet(enumScanTargets(task))
  BY <1>2, <1>3, FS_Subset
<1> QED
  BY <1>1, <1>2, <1>4, FS_CardinalityType, WeightsAre

(* The initial state.                                                      *)
LEMMA InitState ==
    ASSUME ReportAssumption, Init
    PROVE  /\ StateOK(state) /\ state.isUpdate = IsUpdate
           /\ state.files = 0 /\ state.threats = 0 /\ state.completed = 0
           /\ state.bytes = 0 /\ state.ui = 0 /\ state.upToDate = 0
           /\ state.transferred = 0 /\ state.downloaded = 0
           /\ state.changes = FALSE /\ state.serverError = FALSE
           /\ state.blocked = FALSE
           /\ state.expectedFiles = Cardinality(enumScanTargets(task))
           /\ state.expectedBytes = SizeOf(Files, enumScanTargets(task))
<1> DEFINE n == Cardinality(enumScanTargets(task))
           b == SizeOf(Files, enumScanTargets(task))
<1>1. n \in Nat /\ b \in Nat
  BY CountIsNat DEF Init
<1>2. state = [initScanOutputState(IsUpdate) EXCEPT !.expectedFiles = n, !.expectedBytes = b]
  BY DEF Init, Files
<1> HIDE DEF n, b
<1>3. state = [isUpdate |-> IsUpdate,
     files |-> 0, threats |-> 0, errors |-> 0,
     expectedFiles |-> n, expectedBytes |-> b,
     completed |-> 0, bytes |-> 0, ui |-> 0,
     dbPhase |-> FALSE, filePhase |-> FALSE,
     known |-> FALSE, downloaded |-> 0, total |-> 0, transferred |-> 0,
     updateUi |-> 0, changes |-> FALSE, upToDate |-> 0, current |-> NoName,
     blocked |-> FALSE, unsupported |-> FALSE, serverError |-> FALSE]
  BY <1>2 DEF initScanOutputState
<1>4. /\ state.isUpdate = IsUpdate
      /\ state.files = 0 /\ state.threats = 0 /\ state.errors = 0 /\ state.completed = 0
      /\ state.bytes = 0 /\ state.ui = 0 /\ state.updateUi = 0 /\ state.upToDate = 0
      /\ state.transferred = 0 /\ state.downloaded = 0
      /\ state.changes = FALSE /\ state.serverError = FALSE /\ state.blocked = FALSE
      /\ state.expectedFiles = n /\ state.expectedBytes = b
  BY <1>3
<1>5. DOMAIN state = StateFields
  BY <1>3 DEF StateFields
<1>6. StateOK(state)
  BY <1>1, <1>4, <1>5 DEF StateOK
<1> QED
  BY <1>4, <1>6 DEF n, b

(* The program starts in the base of the invariant.                        *)
LEMMA InitBase ==
    ASSUME ReportAssumption, Init
    PROVE  BaseInv
<1>0. /\ task \in Tasks /\ outp = <<>> /\ errp = <<>> /\ cancelled = FALSE
      /\ verdict = "" /\ code = -1 /\ balloon = "" /\ gone = {} /\ fetched = 0
      /\ view = NoView
      /\ child = [at |-> IF IsUpdate THEN "db" ELSE "load", i |-> 1, n |-> 0, tries |-> 0]
  BY DEF Init, IsUpdate
<1>1. StateOK(state) /\ state.isUpdate = IsUpdate
  BY InitState
<1>2. <<>> \in Seq(Messages)
  OBVIOUS
<1>3. child \in Children /\ ChildInv
  <2>1. child.at = (IF IsUpdate THEN "db" ELSE "load") /\ child.i = 1
        /\ child.n = 0 /\ child.tries = 0
    BY <1>0
  <2>2. child \in Children
    <3> DEFINE p == IF IsUpdate THEN "db" ELSE "load"
    <3>1. p \in ScanPlaces \cup UpdatePlaces
      BY DEF ScanPlaces, UpdatePlaces
    <3> DEFINE one == 1
               zero == 0
    <3>2. one \in Nat \ {0} /\ zero \in Int /\ zero \in Nat
      OBVIOUS
    <3>3. child = [at |-> p, i |-> one, n |-> zero, tries |-> zero]
      BY <1>0
    <3> HIDE DEF p, one, zero
    <3> QED
      BY <3>1, <3>2, <3>3 DEF Children
  <2>3. ChildOK(child)
    BY <1>0, <2>1 DEF ChildOK, ScanPlaces, UpdatePlaces, Summed, Ended
  <2> QED
    BY <2>2, <2>3 DEF ChildInv
<1>4. view \in Views /\ view.bar = 0
  <2>1. "" \in Statuses /\ 0 \in 0 .. 100
    BY DEF Statuses
  <2> QED
    BY <1>0, <1>2, <2>1 DEF NoView, Views
<1>5. LinesInv
  <2>1. Len(outp) = 0 /\ Len(errp) = 0 /\ outp \in Seq(Messages) /\ errp \in Seq(Messages)
    BY <1>0, <1>2
  <2>2. \A i \in DOMAIN outp : FALSE
    BY <2>1
  <2>3. \A i \in DOMAIN errp : FALSE
    BY <2>1
  <2> QED
    BY <2>2, <2>3 DEF LinesInv
<1>6. EndInv
  BY <1>0, <1>1 DEF EndInv
<1>7. TypeOK
  <2>1. child.at \in Ended \cup {"load", "files", "file", "remove", "infected",
                                "errors", "note", "exit",
                                "db", "fetch", "test", "install"}
    BY <1>0
  <2>2. Len(outp) <= PipeBound /\ Len(errp) <= PipeBound
    <3>1. Len(outp) = 0 /\ Len(errp) = 0
      BY <1>0
    <3>2. PipeBound \in Nat
      BY DEF ReportAssumption
    <3> QED
      BY <3>1, <3>2
  <2>3. /\ state.files \in Nat /\ state.threats \in Nat
        /\ state.ui \in 0 .. 100 /\ state.updateUi \in 0 .. 100
    BY <1>1 DEF StateOK
  <2> QED
    <3>1. /\ cancelled \in BOOLEAN /\ verdict \in Outcomes \cup {""}
          /\ code \in Failures \cup {-1, 0, 1, 2}
          /\ balloon \in {"", "none", "infected", "error", "updated"}
          /\ gone \subseteq Range(task.files)
      BY <1>0
    <3>2. view.bar \in 0 .. 100
      BY <1>4
    <3> QED
      BY <1>0, <2>1, <2>2, <2>3, <3>1, <3>2 DEF TypeOK
<1>8. fetched \in Nat
  BY <1>0
<1> QED
  BY <1>0, <1>1, <1>2, <1>3, <1>4, <1>5, <1>6, <1>7, <1>8 DEF BaseInv, TypeInv

(* The verdict is one of the outcomes.                                     *)
LEMMA VerdictIs ==
    ASSUME NEW c
    PROVE  Verdict(c) \in Outcomes /\ Verdict(c) # ""
BY DEF Verdict, Outcomes

(* The rest of the reader's steps.                                         *)
LEMMA EnumeratedBase ==
    ASSUME ReportAssumption, BaseInv, ShowEnumerated
    PROVE  BaseInv'
<1>1. /\ view' = [view EXCEPT !.status = "enumerated"] /\ verdict = ""
      /\ UNCHANGED <<task, tool, state, cancelled, verdict, code, balloon>>
  BY DEF ShowEnumerated
<1>2. /\ task' = task /\ child' = child /\ outp' = outp /\ errp' = errp
      /\ gone' = gone /\ fetched' = fetched /\ state' = state
      /\ cancelled' = cancelled /\ verdict' = verdict /\ code' = code
      /\ balloon' = balloon
  BY <1>1 DEF tool
<1>3. view' \in Views /\ view'.bar = view.bar
  <2>1. "enumerated" \in Statuses
    BY DEF Statuses
  <2> QED
    BY <1>1, <2>1 DEF BaseInv, TypeInv, Views
<1>4. TypeInv' /\ ChildInv' /\ LinesInv'
  <2>1. TypeOK'
    <3>1. TypeOK
      BY DEF BaseInv, TypeInv
    <3>2. view'.bar \in 0 .. 100
      BY <1>3, <3>1 DEF TypeOK
    <3> QED
      BY <1>2, <3>1, <3>2 DEF TypeOK
  <2>2. TypeInv'
    BY <1>2, <1>3, <2>1 DEF BaseInv, TypeInv
  <2>3. ChildInv' /\ LinesInv'
    BY <1>2 DEF BaseInv, ChildInv, ChildOK, LinesInv, IsUpdate, IsDialog, Files
  <2> QED
    BY <2>2, <2>3
<1>5. EndInv'
  BY <1>1, <1>2 DEF BaseInv, EndInv, IsUpdate, IsDialog
<1> QED
  BY <1>4, <1>5 DEF BaseInv

(* Stopping the scan keeps the base of the invariant.                      *)
LEMMA CancelBase ==
    ASSUME ReportAssumption, BaseInv, Cancel
    PROVE  BaseInv'
<1>1. /\ IsDialog /\ verdict = "" /\ cancelled' = TRUE
      /\ child' = IF child.at \in Ended THEN child
                  ELSE [child EXCEPT !.at = "killed", !.n = 1]
      /\ task' = task /\ outp' = outp /\ errp' = errp
      /\ gone' = gone /\ fetched' = fetched /\ state' = state /\ view' = view
      /\ verdict' = verdict /\ code' = code
      /\ balloon' = balloon
  BY DEF Cancel
<1>2. balloon = "" /\ state.isUpdate = IsUpdate
  BY <1>1 DEF BaseInv, EndInv
<1>3. child' \in Children /\ ChildOK(child)
      /\ (child.at \in Ended => child' = child)
      /\ (child.at \notin Ended => child'.at = "killed" /\ child'.n = 1)
  <2>1. child \in Children /\ ChildOK(child)
    BY DEF BaseInv, TypeInv, ChildInv
  <2> DEFINE one == 1
             p == "killed"
  <2>2. one \in Int /\ p \in ScanPlaces \cup UpdatePlaces
    BY DEF ScanPlaces
  <2>3. child.at \notin Ended => child' = [child EXCEPT !.at = p, !.n = one]
    BY <1>1
  <2> HIDE DEF one, p
  <2>4. child.at \notin Ended => child' \in Children /\ child'.at = p /\ child'.n = one
    BY <2>1, <2>2, <2>3 DEF Children
  <2> QED
    BY <1>1, <2>1, <2>4 DEF one, p
<1>4. ChildInv'
  <2>1. CASE child.at \in Ended
    BY <1>1, <1>3, <2>1 DEF ChildInv, ChildOK, IsUpdate, IsDialog, Files
  <2>2. CASE child.at \notin Ended
    <3>1. child'.at = "killed" /\ child'.n = 1 /\ cancelled' /\ IsDialog'
      BY <1>1, <1>3, <2>2 DEF IsDialog
    <3> QED
      BY <3>1 DEF ChildInv, ChildOK, ScanPlaces, UpdatePlaces, Summed, Ended
  <2> QED
    BY <2>1, <2>2
<1>5. TypeInv'
  <2>1. child'.at \in Ended \cup {"load", "files", "file", "remove", "infected",
                                "errors", "note", "exit",
                                "db", "fetch", "test", "install"}
    BY <1>3 DEF BaseInv, TypeInv, TypeOK, Ended
  <2>2. TypeOK'
    BY <1>1, <2>1 DEF BaseInv, TypeInv, TypeOK
  <2> QED
    BY <1>1, <1>3, <2>2 DEF BaseInv, TypeInv
<1>6. LinesInv' /\ EndInv'
  BY <1>1, <1>2 DEF BaseInv, LinesInv, EndInv, IsUpdate
<1> QED
  BY <1>4, <1>5, <1>6 DEF BaseInv

(* What the dialog shows at the end.                                       *)
FinalBox(v) ==
    (IF IsUpdate THEN view.box ELSE reformatLog(view.box)) \o Footer(v)

(* The view that onScanFinished leaves.                                    *)
LEMMA FinalView ==
    ASSUME StateOK(state), view \in Views, NEW v \in Outcomes,
           view' = [view EXCEPT
              !.box = (IF IsUpdate THEN @ ELSE reformatLog(@)) \o Footer(v),
              !.status = v,
              !.bar = IF v \in Failed \cup Blocked THEN 0 ELSE 100]
    PROVE  /\ view' \in Views /\ view'.bar \in 0 .. 100
           /\ view'.box = FinalBox(v)
<1> DEFINE box == FinalBox(v)
           bar == IF v \in Failed \cup Blocked THEN 0 ELSE 100
<1>1. box \in Seq(Messages)
  <2>1. view.box \in Seq(Messages)
    BY DEF Views
  <2>2. reformatLog(view.box) \in Seq(Messages)
    BY <2>1, ReformatKeeps
  <2>3. Footer(v) \in Seq(Messages)
    BY FooterLines
  <2> DEFINE p == IF IsUpdate THEN view.box ELSE reformatLog(view.box)
             q == Footer(v)
  <2>4. p \in Seq(Messages) /\ q \in Seq(Messages)
    BY <2>1, <2>2, <2>3
  <2>5. box = p \o q
    BY DEF FinalBox
  <2> HIDE DEF p, q
  <2> QED
    BY <2>4, <2>5
<1>2. v \in Statuses /\ bar \in 0 .. 100
  <2>1. v \in Statuses
    BY DEF Statuses
  <2>2. bar \in 0 .. 100
    OBVIOUS
  <2> QED
    BY <2>1, <2>2
<1>3. view' = [view EXCEPT !.box = box, !.status = v, !.bar = bar]
  BY DEF FinalBox
<1> HIDE DEF box, bar
<1>4. view' \in Views /\ view'.bar = bar /\ view'.box = box
  BY <1>1, <1>2, <1>3 DEF Views
<1> QED
  BY <1>2, <1>4 DEF box

(* onScanFinished keeps the base of the invariant, and says what the       *)
(* verdict and the report are.                                             *)
LEMMA FinishedBase ==
    ASSUME ReportAssumption, BaseInv, onScanFinished
    PROVE  BaseInv' /\ verdict' = Verdict(child.n)
           /\ view'.box = FinalBox(Verdict(child.n))
<1> DEFINE v == Verdict(child.n)
<1>1. /\ IsDialog /\ child.at \in Ended /\ outp = <<>> /\ errp = <<>> /\ verdict = ""
      /\ verdict' = v
      /\ code' = IF v = "uptodate" THEN 2 ELSE child.n
      /\ view' = [view EXCEPT
              !.box = (IF IsUpdate THEN @ ELSE reformatLog(@)) \o Footer(v),
              !.status = v,
              !.bar = IF v \in Failed \cup Blocked THEN 0 ELSE 100]
      /\ UNCHANGED <<task, tool, state, cancelled, balloon>>
  BY DEF onScanFinished, ChildReported
<1>2. /\ task' = task /\ child' = child /\ outp' = outp /\ errp' = errp
      /\ gone' = gone /\ fetched' = fetched /\ state' = state
      /\ cancelled' = cancelled /\ balloon' = balloon
  BY <1>1 DEF tool
<1>3. v \in Outcomes /\ v # ""
  BY VerdictIs
<1>4. StateOK(state) /\ view \in Views /\ state.isUpdate = IsUpdate
      /\ child.n \in Failures \cup {-1, 0, 1, 2}
  BY <1>1 DEF BaseInv, TypeInv, EndInv, ChildInv, ChildOK
<1>5. Verdict(child.n)' = Verdict(child.n)
  BY <1>2 DEF Verdict, IsUpdate, NoUpdatesNeeded
<1> HIDE DEF v
<1>6. view' \in Views /\ view'.bar \in 0 .. 100 /\ view'.box = FinalBox(v)
  BY <1>1, <1>3, <1>4, FinalView
<1>7. TypeInv'
  <2>1. code' \in Failures \cup {-1, 0, 1, 2}
    BY <1>1, <1>4
  <2>2. TypeOK'
    BY <1>1, <1>2, <1>3, <1>6, <2>1 DEF BaseInv, TypeInv, TypeOK
  <2> QED
    BY <1>2, <1>6, <2>2 DEF BaseInv, TypeInv
<1>8. ChildInv' /\ LinesInv'
  BY <1>2 DEF BaseInv, ChildInv, ChildOK, LinesInv, IsUpdate, IsDialog, Files
<1>9. EndInv'
  BY <1>1, <1>2, <1>3, <1>4, <1>5 DEF EndInv, IsUpdate, IsDialog, v
<1> QED
  BY <1>1, <1>6, <1>7, <1>8, <1>9 DEF BaseInv, v

(* The balloon at the end keeps the base of the invariant.                 *)
LEMMA BalloonBase ==
    ASSUME ReportAssumption, BaseInv, Close \/ onBgTaskFinished
    PROVE  BaseInv'
<1>1. /\ task' = task /\ child' = child /\ outp' = outp /\ errp' = errp
      /\ gone' = gone /\ fetched' = fetched /\ state' = state /\ view' = view
      /\ cancelled' = cancelled /\ verdict' = verdict
      /\ balloon' \in {"none", "infected", "error", "updated"}
  BY DEF Close, onBgTaskFinished, tool, ScanBalloon, UpdateBalloon
<1>2. /\ Close => IsDialog /\ verdict # "" /\ code' = code
      /\ onBgTaskFinished => ~IsDialog /\ verdict = "" /\ code' = child.n
            /\ child.at \in Ended /\ outp = <<>> /\ errp = <<>>
  BY DEF Close, onBgTaskFinished, ChildReported
<1>3. code' \in Failures \cup {-1, 0, 1, 2}
  BY <1>2 DEF BaseInv, TypeInv, TypeOK, ChildInv, ChildOK
<1>4. TypeInv'
  BY <1>1, <1>3 DEF BaseInv, TypeInv, TypeOK
<1>5. ChildInv' /\ LinesInv'
  BY <1>1 DEF BaseInv, ChildInv, ChildOK, LinesInv, IsUpdate, IsDialog, Files
<1>6. Verdict(child.n)' = Verdict(child.n)
  BY <1>1 DEF Verdict, IsUpdate, NoUpdatesNeeded
<1>7. EndInv'
  BY <1>1, <1>2, <1>6 DEF BaseInv, EndInv, IsUpdate, IsDialog
<1> QED
  BY <1>4, <1>5, <1>7 DEF BaseInv

(* So does a step in which nothing happens.                                *)
LEMMA StutterBase ==
    ASSUME BaseInv, UNCHANGED vars
    PROVE  BaseInv'
<1>1. /\ task' = task /\ child' = child /\ outp' = outp /\ errp' = errp
      /\ gone' = gone /\ fetched' = fetched /\ state' = state /\ view' = view
      /\ cancelled' = cancelled /\ verdict' = verdict /\ code' = code
      /\ balloon' = balloon
  BY DEF vars
<1>2. Verdict(child.n)' = Verdict(child.n)
  BY <1>1 DEF Verdict, IsUpdate, NoUpdatesNeeded
<1>3. TypeInv' /\ ChildInv' /\ LinesInv'
  <2>1. TypeInv'
    BY <1>1 DEF BaseInv, TypeInv, TypeOK
  <2>2. ChildInv' /\ LinesInv'
    BY <1>1 DEF BaseInv, ChildInv, ChildOK, LinesInv, IsUpdate, IsDialog, Files
  <2> QED
    BY <2>1, <2>2
<1>4. EndInv'
  BY <1>1, <1>2 DEF BaseInv, EndInv, IsUpdate, IsDialog
<1> QED
  BY <1>3, <1>4 DEF BaseInv

(* Every step keeps the base of the invariant.                             *)
LEMMA NextBase ==
    ASSUME ReportAssumption, BaseInv, [Next]_vars
    PROVE  BaseInv'
<1>1. CASE Tool
  BY <1>1, ScanToolBase, UpdateToolBase DEF Tool
<1>2. CASE Reader
  BY <1>2, ReadBase, EnumeratedBase, CancelBase, FinishedBase, BalloonBase DEF
     Reader
<1>3. CASE UNCHANGED vars
  BY <1>3, StutterBase
<1> QED
  BY <1>1, <1>2, <1>3 DEF Next

(* The numbers, the bar, the places of the tools and the outcomes are      *)
(* well typed, for any files, filters, databases and pipes.                *)
THEOREM TypeCorrect == Spec => []TypeOK
<1>1. Init => BaseInv
  BY ReportAssumption, InitBase
<1>2. BaseInv /\ [Next]_vars => BaseInv'
  BY ReportAssumption, NextBase
<1>3. BaseInv => TypeOK
  BY DEF BaseInv, TypeInv
<1> QED
  BY <1>1, <1>2, <1>3, PTL DEF Spec

(* Sequences of numbers are equal if their elements are.                   *)
LEMMA SameElements ==
    ASSUME NEW u \in Seq(Nat), NEW w \in Seq(Nat), Len(u) = Len(w),
           \A i \in 1 .. Len(w) : u[i] = w[i]
    PROVE  u = w
<1>1. u = [i \in 1 .. Len(w) |-> u[i]] /\ w = [i \in 1 .. Len(w) |-> w[i]]
  OBVIOUS
<1> QED
  BY <1>1

-----------------------------------------------------------------------------
(* Lines counted or weighed.                                               *)
Mapped(q, g) == [i \in DOMAIN q |-> g[q[i]]]

(* A number for every line of a pipe.                                      *)
LEMMA MappedIs ==
    ASSUME NEW S, NEW q \in Seq(S), NEW g \in [S -> Nat]
    PROVE  /\ Mapped(q, g) \in Seq(Nat) /\ Len(Mapped(q, g)) = Len(q)
           /\ \A i \in 1 .. Len(q) : Mapped(q, g)[i] = g[q[i]]
<1>1. DOMAIN q = 1 .. Len(q) /\ Len(q) \in Nat /\ \A i \in 1 .. Len(q) : q[i] \in S
  OBVIOUS
<1>2. Mapped(q, g) = [i \in 1 .. Len(q) |-> g[q[i]]]
  BY <1>1 DEF Mapped
<1>3. \A i \in 1 .. Len(q) : g[q[i]] \in Nat
  BY <1>1
<1> QED
  BY <1>1, <1>2, <1>3

(* A line more in the pipe adds its number.                                *)
LEMMA MappedAppend ==
    ASSUME NEW S, NEW q \in Seq(S), NEW g \in [S -> Nat], NEW m \in S
    PROVE  Total(Mapped(Append(q, m), g)) = Total(Mapped(q, g)) + g[m]
<1> DEFINE r == Append(q, m)
           v == Mapped(q, g)
           w == Mapped(r, g)
<1>1. r \in Seq(S) /\ Len(r) = Len(q) + 1 /\ r[Len(q) + 1] = m /\ Len(q) \in Nat
      /\ \A i \in 1 .. Len(q) : r[i] = q[i]
  OBVIOUS
<1> HIDE DEF r
<1>2. /\ v \in Seq(Nat) /\ Len(v) = Len(q)
      /\ \A i \in 1 .. Len(q) : v[i] = g[q[i]]
  BY MappedIs
<1>3. /\ w \in Seq(Nat) /\ Len(w) = Len(r)
      /\ \A i \in 1 .. Len(r) : w[i] = g[r[i]]
  BY <1>1, MappedIs
<1> HIDE DEF v, w
<1>4. w = Append(v, g[m])
  <2> DEFINE u == Append(v, g[m])
  <2>1. g[m] \in Nat
    OBVIOUS
  <2>2. u \in Seq(Nat) /\ Len(u) = Len(v) + 1 /\ u[Len(v) + 1] = g[m]
        /\ \A i \in 1 .. Len(v) : u[i] = v[i]
    BY <1>2, <2>1
  <2> HIDE DEF u
  <2>3. Len(u) = Len(w)
    BY <1>1, <1>2, <1>3, <2>2
  <2>5. ASSUME NEW i \in 1 .. Len(w) PROVE u[i] = w[i]
    <3>1. CASE i = Len(q) + 1
      BY <1>1, <1>2, <1>3, <2>2, <3>1
    <3>2. CASE i # Len(q) + 1
      <4>1. i \in 1 .. Len(q) /\ i \in 1 .. Len(r) /\ i \in 1 .. Len(v)
        BY <1>1, <1>2, <1>3, <3>2
      <4> QED
        BY <1>1, <1>2, <1>3, <2>2, <4>1
    <3> QED
      BY <3>1, <3>2
  <2>4. u = w
    BY <1>3, <2>2, <2>3, <2>5, SameElements
  <2> QED
    BY <2>4 DEF u
<1>5. Total(Append(v, g[m])) = Total(v) + g[m]
  BY <1>2, TotalAppend
<1> QED
  BY <1>4, <1>5 DEF r, v, w

(* The line that is read takes its number away.                            *)
LEMMA MappedTail ==
    ASSUME NEW S, NEW q \in Seq(S), NEW g \in [S -> Nat], q # <<>>
    PROVE  Total(Mapped(q, g)) = g[q[1]] + Total(Mapped(Tail(q), g))
<1> DEFINE r == Tail(q)
           v == Mapped(q, g)
           w == Mapped(r, g)
<1>1. r \in Seq(S) /\ Len(q) = Len(r) + 1 /\ Len(r) \in Nat
      /\ \A i \in 1 .. Len(r) : r[i] = q[i + 1]
  OBVIOUS
<1> HIDE DEF r
<1>2. /\ v \in Seq(Nat) /\ Len(v) = Len(q)
      /\ \A i \in 1 .. Len(q) : v[i] = g[q[i]]
  BY MappedIs
<1>3. /\ w \in Seq(Nat) /\ Len(w) = Len(r)
      /\ \A i \in 1 .. Len(r) : w[i] = g[r[i]]
  BY <1>1, MappedIs
<1> HIDE DEF v, w
<1>4. v # <<>> /\ v[1] = g[q[1]]
  BY <1>1, <1>2
<1>5. w = Tail(v)
  <2> DEFINE u == Tail(v)
  <2>2. u \in Seq(Nat) /\ Len(v) = Len(u) + 1
        /\ \A i \in 1 .. Len(u) : u[i] = v[i + 1]
    BY <1>2, <1>4
  <2> HIDE DEF u
  <2>3. Len(u) = Len(w) /\ \A i \in 1 .. Len(w) : u[i] = w[i]
    BY <1>1, <1>2, <1>3, <2>2
  <2>4. u = w
    BY <1>3, <2>2, <2>3, SameElements
  <2> QED
    BY <2>4 DEF u
<1>6. Total(v) = v[1] + Total(Tail(v))
  BY <1>2, <1>4, TotalTail
<1> QED
  BY <1>4, <1>5, <1>6 DEF r, v, w

(* An empty pipe adds up to zero.                                          *)
LEMMA MappedEmpty ==
    ASSUME NEW S, NEW g \in [S -> Nat]
    PROVE  Total(Mapped(<<>>, g)) = 0
<1> DEFINE w == Mapped(<<>>, g)
<1>1. <<>> \in Seq(S) /\ Len(<<>>) = 0
  OBVIOUS
<1>2. w \in Seq(Nat) /\ Len(w) = Len(<<>>)
  BY <1>1, MappedIs
<1> HIDE DEF w
<1>3. Total(w) = 0
  BY <1>1, <1>2, TotalEmpty
<1> QED
  BY <1>3 DEF w

OneIf(kinds) == [m \in Messages |-> IF m.kind \in kinds THEN 1 ELSE 0]
Count(q, kinds) == Total(Mapped(q, OneIf(kinds)))

(* One for a line of some kinds, zero for any other.                       *)
LEMMA OneIfIs ==
    ASSUME NEW kinds
    PROVE  /\ OneIf(kinds) \in [Messages -> Nat]
           /\ \A m \in Messages : OneIf(kinds)[m] = IF m.kind \in kinds THEN 1 ELSE 0
BY DEF OneIf

(* Writing a line counts it, if it is of the kinds counted.                *)
LEMMA CountAppend ==
    ASSUME NEW kinds, NEW q \in Seq(Messages), NEW m \in Messages
    PROVE  /\ Count(q, kinds) \in Nat
           /\ Count(Append(q, m), kinds) =
                Count(q, kinds) + IF m.kind \in kinds THEN 1 ELSE 0
<1> DEFINE g == OneIf(kinds)
<1>1. g \in [Messages -> Nat] /\ g[m] = IF m.kind \in kinds THEN 1 ELSE 0
  BY OneIfIs
<1> HIDE DEF g
<1>2. Total(Mapped(Append(q, m), g)) = Total(Mapped(q, g)) + g[m]
  BY <1>1, MappedAppend
<1>3. Mapped(q, g) \in Seq(Nat)
  BY <1>1, MappedIs
<1>4. Total(Mapped(q, g)) \in Nat
  BY <1>3, TotalNat
<1> QED
  BY <1>1, <1>2, <1>4 DEF Count, g

(* Reading a line takes it off the count.                                  *)
LEMMA CountTail ==
    ASSUME NEW kinds, NEW q \in Seq(Messages), q # <<>>
    PROVE  /\ Count(Tail(q), kinds) \in Nat
           /\ Count(q, kinds) =
                Count(Tail(q), kinds) + IF q[1].kind \in kinds THEN 1 ELSE 0
<1> DEFINE g == OneIf(kinds)
<1>0. q[1] \in Messages /\ Tail(q) \in Seq(Messages)
  OBVIOUS
<1>1. g \in [Messages -> Nat] /\ g[q[1]] = IF q[1].kind \in kinds THEN 1 ELSE 0
  BY <1>0, OneIfIs
<1> HIDE DEF g
<1>2. Total(Mapped(q, g)) = g[q[1]] + Total(Mapped(Tail(q), g))
  BY <1>1, MappedTail
<1>3. Mapped(Tail(q), g) \in Seq(Nat)
  BY <1>0, <1>1, MappedIs
<1>4. Total(Mapped(Tail(q), g)) \in Nat
  BY <1>3, TotalNat
<1> QED
  BY <1>1, <1>2, <1>4 DEF Count, g

(* An empty pipe has no lines of any kind.                                 *)
LEMMA CountEmpty ==
    ASSUME NEW kinds
    PROVE  Count(<<>>, kinds) = 0
<1>1. OneIf(kinds) \in [Messages -> Nat]
  BY OneIfIs
<1>2. Total(Mapped(<<>>, OneIf(kinds))) = 0
  BY <1>1, MappedEmpty, Zenon
<1> QED
  BY <1>2 DEF Count

-----------------------------------------------------------------------------
(* What was printed, and what was read.                                    *)
Has(q, kinds) == \E i \in DOMAIN q : q[i].kind \in kinds

(* The lines in a pipe after one is written.                               *)
LEMMA HasAppend ==
    ASSUME NEW q \in Seq(Messages), NEW m \in Messages, NEW kinds
    PROVE  Has(Append(q, m), kinds) <=> Has(q, kinds) \/ m.kind \in kinds
<1> DEFINE r == Append(q, m)
<1>1. /\ DOMAIN r = DOMAIN q \cup {Len(q) + 1} /\ r[Len(q) + 1] = m
      /\ \A i \in DOMAIN q : r[i] = q[i]
  OBVIOUS
<1> HIDE DEF r
<1>2. Has(r, kinds) <=> Has(q, kinds) \/ m.kind \in kinds
  BY <1>1 DEF Has
<1> QED
  BY <1>2 DEF r

(* The lines in a pipe before one is read.                                 *)
LEMMA HasTail ==
    ASSUME NEW q \in Seq(Messages), q # <<>>, NEW kinds
    PROVE  Has(q, kinds) <=> Has(Tail(q), kinds) \/ q[1].kind \in kinds
<1> DEFINE r == Tail(q)
<1>1. /\ DOMAIN r = 1 .. Len(r) /\ DOMAIN q = 1 .. Len(r) + 1 /\ Len(r) \in Nat
      /\ \A i \in DOMAIN r : r[i] = q[i + 1]
  OBVIOUS
<1> HIDE DEF r
<1>2. ASSUME Has(r, kinds) PROVE Has(q, kinds)
  <2>1. PICK i \in DOMAIN r : r[i].kind \in kinds
    BY <1>2 DEF Has
  <2>2. i + 1 \in DOMAIN q /\ q[i + 1].kind \in kinds
    BY <1>1, <2>1
  <2> QED
    BY <2>2 DEF Has
<1>3. ASSUME Has(q, kinds), q[1].kind \notin kinds PROVE Has(r, kinds)
  <2>1. PICK i \in DOMAIN q : q[i].kind \in kinds
    BY <1>3 DEF Has
  <2>2. i - 1 \in DOMAIN r /\ r[i - 1].kind \in kinds
    BY <1>1, <1>3, <2>1
  <2> QED
    BY <2>2 DEF Has
<1>4. 1 \in DOMAIN q
  BY <1>1
<1> QED
  BY <1>2, <1>3, <1>4 DEF Has, r

(* An empty pipe has no line of any kind.                                  *)
LEMMA HasEmpty ==
    ASSUME NEW kinds
    PROVE  ~Has(<<>>, kinds)
<1>1. \A i \in DOMAIN <<>> : FALSE
  OBVIOUS
<1> QED
  BY <1>1 DEF Has

-----------------------------------------------------------------------------
(* Updates.  The rows of a download follow one another in the pipe, and    *)
(* the first that is not read follows what was read.                       *)
RowKinds == {"downloading", "row"}
Chained(q, d) ==
    \A i \in DOMAIN q :
        /\ q[i].kind = "downloading" => q[i].n = 0
        /\ q[i].kind = "row" =>
              IF i = 1 THEN d = q[i].n - 1
              ELSE q[i - 1].kind \in RowKinds /\ q[i - 1].n = q[i].n - 1
EndsAt(q, d, k) ==
    IF q = <<>> THEN d = k ELSE q[Len(q)].kind \in RowKinds /\ q[Len(q)].n = k

RowsInv ==
    /\ state.transferred + state.downloaded + Count(outp, {"row"}) = fetched
    /\ Chained(outp, state.downloaded)
    /\ child.at = "fetch" /\ child.n > 0 =>
          EndsAt(outp, state.downloaded, child.n - 1)

(* What freshclam has said, read or not.                                   *)
Seen(kinds) == Has(outp, kinds) \/ Has(errp, kinds)
Changed == state.changes \/ Seen({"available", "updated"})
ServerErred == state.serverError \/ Seen({"servererror"})
Refused == state.blocked \/ Seen(Refusals)
UpToDate == state.upToDate > 0 \/ Seen({"uptodate"})

(* What it has done.                                                       *)
FetchedInv ==
    /\ fetched > 0 \/ child.tries > 0 <=> Changed
    /\ ServerErred => fetched > 0 \/ child.tries > 0
    /\ child.at \in {"test", "install"} => fetched > 0
    /\ child.at = "fetch" => child.tries > 0
    /\ child.at = "db" => child.tries = 0
    /\ child.i > 1 => fetched > 0 \/ UpToDate
    /\ child.at = "exit" /\ child.tries = 0 => Refused
    /\ child.at = "ended" /\ child.n = 0 =>
          child.tries = 0 /\ (Refused \/ child.i > Len(Databases))

(* Rows of progress still follow one another after the next one is         *)
(* written.                                                                *)
LEMMA ChainAppend ==
    ASSUME NEW q \in Seq(Messages), NEW d, Chained(q, d), NEW m \in Messages,
           m.kind = "downloading" => m.n = 0,
           m.kind = "row" => EndsAt(q, d, m.n - 1)
    PROVE  /\ Chained(Append(q, m), d)
           /\ m.kind \in RowKinds => EndsAt(Append(q, m), d, m.n)
<1> DEFINE r == Append(q, m)
<1>1. /\ Len(q) \in Nat /\ Len(r) = Len(q) + 1 /\ r \in Seq(Messages)
      /\ DOMAIN q = 1 .. Len(q) /\ DOMAIN r = 1 .. Len(r) /\ r[Len(r)] = m
      /\ \A i \in 1 .. Len(q) : r[i] = q[i]
  OBVIOUS
<1> HIDE DEF r
<1>2. r # <<>> /\ (q = <<>> <=> Len(q) = 0)
  BY <1>1
<1>3. ASSUME NEW i \in DOMAIN r
      PROVE  /\ r[i].kind = "downloading" => r[i].n = 0
             /\ r[i].kind = "row" =>
                   IF i = 1 THEN d = r[i].n - 1
                   ELSE r[i - 1].kind \in RowKinds /\ r[i - 1].n = r[i].n - 1
  <2>1. CASE i \in 1 .. Len(q)
    <3>1. r[i] = q[i] /\ (i # 1 => i - 1 \in 1 .. Len(q) /\ r[i - 1] = q[i - 1])
      BY <1>1, <2>1
    <3> QED
      BY <1>1, <2>1, <3>1 DEF Chained
  <2>2. CASE i = Len(q) + 1
    <3>1. r[i] = m /\ (i = 1 <=> q = <<>>) /\ (i # 1 => r[i - 1] = q[Len(q)])
      BY <1>1, <1>2, <2>2
    <3> QED
      BY <3>1 DEF EndsAt
  <2> QED
    BY <1>1, <2>1, <2>2
<1>4. Chained(r, d)
  BY <1>3 DEF Chained
<1>5. m.kind \in RowKinds => EndsAt(r, d, m.n)
  BY <1>1, <1>2 DEF EndsAt
<1> QED
  BY <1>4, <1>5 DEF r

(* Rows of progress still follow one another after the first one is        *)
(* read.                                                                   *)
LEMMA ChainTail ==
    ASSUME NEW q \in Seq(Messages), NEW d, Chained(q, d), q # <<>>, NEW d2,
           q[1].kind \in RowKinds => d2 = q[1].n
    PROVE  /\ Chained(Tail(q), d2)
           /\ \A k : EndsAt(q, d, k) => EndsAt(Tail(q), d2, k)
<1> DEFINE r == Tail(q)
<1>1. /\ Len(r) \in Nat /\ Len(q) = Len(r) + 1 /\ r \in Seq(Messages)
      /\ DOMAIN q = 1 .. Len(q) /\ DOMAIN r = 1 .. Len(r)
      /\ \A i \in 1 .. Len(r) : r[i] = q[i + 1]
  OBVIOUS
<1> HIDE DEF r
<1>2. r = <<>> <=> Len(r) = 0
  BY <1>1
<1>3. ASSUME NEW i \in DOMAIN r
      PROVE  /\ r[i].kind = "downloading" => r[i].n = 0
             /\ r[i].kind = "row" =>
                   IF i = 1 THEN d2 = r[i].n - 1
                   ELSE r[i - 1].kind \in RowKinds /\ r[i - 1].n = r[i].n - 1
  <2>1. r[i] = q[i + 1] /\ i + 1 \in DOMAIN q /\ i + 1 # 1 /\ (i + 1) - 1 = i
        /\ (i # 1 => r[i - 1] = q[i])
    BY <1>1
  <2>2. /\ q[i + 1].kind = "downloading" => q[i + 1].n = 0
        /\ q[i + 1].kind = "row" => q[i].kind \in RowKinds /\ q[i].n = q[i + 1].n - 1
    BY <2>1 DEF Chained
  <2> QED
    BY <2>1, <2>2
<1>4. Chained(r, d2)
  BY <1>3 DEF Chained
<1>5. ASSUME NEW k, EndsAt(q, d, k) PROVE EndsAt(r, d2, k)
  <2>1. q[Len(q)].kind \in RowKinds /\ q[Len(q)].n = k
    BY <1>5 DEF EndsAt
  <2>2. CASE r = <<>>
    BY <1>1, <1>2, <2>1, <2>2 DEF EndsAt
  <2>3. CASE r # <<>>
    <3>1. Len(r) \in 1 .. Len(r) /\ r[Len(r)] = q[Len(q)]
      BY <1>1, <1>2, <2>3
    <3> QED
      BY <2>1, <2>3, <3>1 DEF EndsAt
  <2> QED
    BY <2>2, <2>3
<1> QED
  BY <1>4, <1>5 DEF r

(* No rows follow one another.                                             *)
LEMMA ChainEmpty ==
    ASSUME NEW d
    PROVE  Chained(<<>>, d)
<1>1. \A i \in DOMAIN <<>> : FALSE
  OBVIOUS
<1> QED
  BY <1>1 DEF Chained

(* Printing.                                                               *)
Out(l) == outp' = Append(outp, l) /\ errp' = errp
Err(l) == errp' = Append(errp, l) /\ outp' = outp

(* What freshclam has said, after it says one thing more.                  *)
LEMMA SeenAfterPrint ==
    ASSUME outp \in Seq(Messages), errp \in Seq(Messages), state' = state,
           NEW l \in Messages, Out(l) \/ Err(l)
    PROVE  /\ Changed' <=> Changed \/ l.kind \in {"available", "updated"}
           /\ ServerErred' <=> ServerErred \/ l.kind = "servererror"
           /\ Refused' <=> Refused \/ l.kind \in Refusals
           /\ UpToDate' <=> UpToDate \/ l.kind = "uptodate"
<1>1. ASSUME NEW K
      PROVE  Has(outp', K) \/ Has(errp', K) <=> Has(outp, K) \/ Has(errp, K) \/ l.kind \in K
  <2>1. CASE Out(l)
    <3>1. Has(Append(outp, l), K) <=> Has(outp, K) \/ l.kind \in K
      BY HasAppend
    <3> QED
      BY <2>1, <3>1 DEF Out
  <2>2. CASE Err(l)
    <3>1. Has(Append(errp, l), K) <=> Has(errp, K) \/ l.kind \in K
      BY HasAppend
    <3> QED
      BY <2>2, <3>1 DEF Err
  <2> QED
    BY <2>1, <2>2
<1>2. /\ Seen({"available", "updated"})'
         <=> Seen({"available", "updated"}) \/ l.kind \in {"available", "updated"}
      /\ Seen({"servererror"})' <=> Seen({"servererror"}) \/ l.kind \in {"servererror"}
      /\ Seen(Refusals)' <=> Seen(Refusals) \/ l.kind \in Refusals
      /\ Seen({"uptodate"})' <=> Seen({"uptodate"}) \/ l.kind \in {"uptodate"}
  BY <1>1 DEF Seen, Refusals
<1> QED
  BY <1>2 DEF Changed, ServerErred, Refused, UpToDate

(* What freshclam has said stays said.                                     *)
LEMMA SeenStays ==
    ASSUME outp' = outp, errp' = errp, state' = state
    PROVE  /\ Changed' <=> Changed
           /\ ServerErred' <=> ServerErred
           /\ Refused' <=> Refused
           /\ UpToDate' <=> UpToDate
BY DEF Changed, ServerErred, Refused, UpToDate, Seen, Has, Refusals

(* Reading.                                                                *)
LEMMA SeenAfterRead ==
    ASSUME outp \in Seq(Messages), errp \in Seq(Messages), StateOK(state),
           NEW l, ReadsMark(Before, l, state'),
           (TakesLine /\ l = outp[1]) \/ (TakesError /\ l = errp[1])
    PROVE  /\ Changed' <=> Changed
           /\ ServerErred' <=> ServerErred
           /\ Refused' <=> Refused
           /\ UpToDate' <=> UpToDate
<1>1. ASSUME NEW K
      PROVE  Has(outp, K) \/ Has(errp, K) <=> Has(outp', K) \/ Has(errp', K) \/ l.kind \in K
  <2>1. CASE TakesLine /\ l = outp[1]
    <3>1. Has(outp, K) <=> Has(Tail(outp), K) \/ l.kind \in K
      BY <2>1, HasTail DEF TakesLine
    <3> QED
      BY <2>1, <3>1 DEF TakesLine
  <2>2. CASE TakesError /\ l = errp[1]
    <3>1. Has(errp, K) <=> Has(Tail(errp), K) \/ l.kind \in K
      BY <2>2, HasTail DEF TakesError
    <3> QED
      BY <2>2, <3>1 DEF TakesError
  <2> QED
    BY <2>1, <2>2
<1>2. /\ Seen({"available", "updated"})
         <=> Seen({"available", "updated"})' \/ l.kind \in {"available", "updated"}
      /\ Seen({"servererror"}) <=> Seen({"servererror"})' \/ l.kind \in {"servererror"}
      /\ Seen(Refusals) <=> Seen(Refusals)' \/ l.kind \in Refusals
      /\ Seen({"uptodate"}) <=> Seen({"uptodate"})' \/ l.kind \in {"uptodate"}
  BY <1>1 DEF Seen, Refusals
<1>3. /\ state'.blocked = (state.blocked \/ l.kind \in Refusals)
      /\ state'.serverError = (state.serverError \/ l.kind = "servererror")
      /\ state'.changes = (state.changes \/ l.kind \in {"available", "updated"})
      /\ state'.upToDate = IF l.kind = "uptodate" THEN state.upToDate + 1 ELSE state.upToDate
      /\ state.upToDate \in Nat
  <2>1. SameButErrors(state, Before)
    BY BeforeIs
  <2>2. state.upToDate \in Nat
    BY DEF StateOK
  <2> QED
    BY <2>1, <2>2 DEF ReadsMark, SameButErrors
<1>4. state'.upToDate > 0 <=> state.upToDate > 0 \/ l.kind = "uptodate"
  BY <1>3
<1> QED
  BY <1>2, <1>3, <1>4 DEF Changed, ServerErred, Refused, UpToDate

(* A line that is printed is at the end of its pipe.                       *)
LEMMA PrintIsOut ==
    ASSUME NEW l
    PROVE  (Prints(l) => Out(l)) /\ (PrintError(l) => Err(l))
BY DEF Prints, PrintError, Out, Err

(* Steps that print no row leave the account of bytes as it is.            *)
LEMMA RowsOther ==
    ASSUME BaseInv, RowsInv, state' = state, fetched' = fetched,
           \/ outp' = outp /\ errp' = errp
           \/ \E l \in Messages : l.kind \notin RowKinds /\ (Out(l) \/ Err(l)),
           ~(child'.at = "fetch" /\ child'.n > 0)
    PROVE  RowsInv'
<1>1. outp \in Seq(Messages)
  BY DEF BaseInv, TypeInv
<1>2. CASE outp' = outp
  BY <1>2 DEF RowsInv, Chained, Count, Mapped, OneIf, Messages, RowKinds
<1>3. CASE outp' # outp
  <2>1. PICK l \in Messages : l.kind \notin RowKinds /\ outp' = Append(outp, l)
    BY <1>3 DEF Out, Err
  <2>2. Chained(Append(outp, l), state.downloaded)
    <3>1. l.kind # "downloading" /\ l.kind # "row"
      BY <2>1 DEF RowKinds
    <3> QED
      BY <1>1, <3>1, ChainAppend DEF RowsInv
  <2>3. Count(outp, {"row"}) \in Nat
        /\ Count(Append(outp, l), {"row"}) = Count(outp, {"row"}) + 0
    <3>1. l.kind \notin {"row"}
      BY <2>1 DEF RowKinds
    <3> QED
      BY <1>1, <3>1, CountAppend
  <2>4. Count(outp', {"row"}) = Count(outp, {"row"})
    BY <2>1, <2>3
  <2> QED
    BY <2>1, <2>2, <2>4 DEF RowsInv
<1> QED
  BY <1>2, <1>3

(* Printing a row keeps the account of bytes, with the rows that wait in   *)
(* the pipe.                                                               *)
LEMMA DownloadRows ==
    ASSUME ReportAssumption, BaseInv, IsUpdate, RowsInv, Download
    PROVE  RowsInv'
<1> DEFINE l == Ratio(IF child.n = 0 THEN "downloading" ELSE "row", child.n, DbSize)
<1>1. /\ child.at = "fetch" /\ Out(l)
      /\ fetched' = IF child.n > 0 THEN fetched + 1 ELSE fetched
      /\ child' = IF child.n = DbSize THEN [child EXCEPT !.at = "test"]
                  ELSE [child EXCEPT !.n = @ + 1]
      /\ state' = state
  BY PrintIsOut DEF Download, reader
<1>2. child.n \in Nat /\ DbSize \in Nat /\ child \in Children /\ outp \in Seq(Messages)
      /\ fetched \in Nat
  <2>1. child.n \in 0 .. DbSize
    BY <1>1 DEF BaseInv, ChildInv, ChildOK
  <2>2. DbSize \in Nat
    BY DEF ReportAssumption
  <2> QED
    BY <2>1, <2>2 DEF BaseInv, TypeInv
<1>3. l \in Messages /\ l.n = child.n
      /\ l.kind = IF child.n = 0 THEN "downloading" ELSE "row"
  <2>1. "downloading" \in Kinds /\ "row" \in Kinds
    BY LineKinds
  <2> QED
    BY <1>2, <2>1, MessagesAre
<1> HIDE DEF l
<1>4. l.kind \in RowKinds /\ (l.kind = "downloading" => l.n = 0)
      /\ (l.kind = "row" => child.n > 0 /\ EndsAt(outp, state.downloaded, l.n - 1))
  BY <1>1, <1>2, <1>3 DEF RowKinds, RowsInv
<1>5. /\ Chained(Append(outp, l), state.downloaded)
      /\ EndsAt(Append(outp, l), state.downloaded, l.n)
  BY <1>2, <1>3, <1>4, ChainAppend DEF RowsInv
<1>6. Count(outp, {"row"}) \in Nat
      /\ Count(Append(outp, l), {"row"}) =
           Count(outp, {"row"}) + IF child.n = 0 THEN 0 ELSE 1
  <2>1. l.kind \in {"row"} <=> child.n # 0
    BY <1>3
  <2> QED
    BY <1>2, <1>3, <2>1, CountAppend
<1>7. outp' = Append(outp, l)
  BY <1>1 DEF Out
<1>8. state'.transferred + state'.downloaded + Count(outp', {"row"}) = fetched'
  <2>1. state.transferred \in Nat /\ state.downloaded \in Nat
    BY DEF BaseInv, TypeInv, StateOK
  <2>2. state.transferred + state.downloaded + Count(outp, {"row"}) = fetched
    BY DEF RowsInv
  <2> QED
    BY <1>1, <1>2, <1>6, <1>7, <2>1, <2>2
<1>9. child'.at = "fetch" => child'.n = l.n + 1
  <2>1. CASE child.n = DbSize
    BY <1>1, <1>2, <2>1 DEF Children
  <2>2. CASE child.n # DbSize
    BY <1>1, <1>2, <1>3, <2>2 DEF Children
  <2> QED
    BY <2>1, <2>2
<1>10. (l.n + 1) - 1 = l.n
  BY <1>2, <1>3
<1> QED
  BY <1>1, <1>5, <1>7, <1>8, <1>9, <1>10 DEF RowsInv

(* Reading a line keeps the account of bytes: a number that is smaller     *)
(* than the last one starts another file.                                  *)
LEMMA ReadRows ==
    ASSUME ReportAssumption, BaseInv, IsUpdate, RowsInv, onOutput
    PROVE  RowsInv'
<1> DEFINE l == outp[1]
<1>1. PICK e : LineRead(l, e)
  BY LineIsRead
<1>2. /\ outp # <<>> /\ outp' = Tail(outp) /\ child' = child /\ fetched' = fetched
      /\ ReadsUpdate(Before, l, state', e)
  BY <1>1 DEF LineRead, TakesLine, RestSame
<1>3. /\ l \in Messages /\ l.kind \in UpdateLines /\ outp \in Seq(Messages)
      /\ StateOK(state) /\ 1 \in DOMAIN outp
  BY <1>2, HeadLine DEF BaseInv, TypeInv
<1>4. /\ Before.transferred = state.transferred /\ Before.downloaded = state.downloaded
      /\ state.transferred \in Nat /\ state.downloaded \in Nat /\ l.n \in Nat
  <2>1. SameButErrors(state, Before)
    BY <1>3, BeforeIs
  <2>2. state.transferred \in Nat /\ state.downloaded \in Nat
    BY <1>3 DEF StateOK
  <2>3. l.n \in Nat
    BY <1>3 DEF Messages
  <2> QED
    BY <2>1, <2>2, <2>3 DEF SameButErrors
<1>5. l.kind \in ByteProgress <=> l.kind \in RowKinds
  BY <1>3 DEF UpdateLines, Complaints, Refusals, ByteProgress, RowKinds
<1>6. /\ state'.downloaded = IF l.kind \in RowKinds THEN l.n
                             ELSE IF l.kind = "available" THEN 0 ELSE state.downloaded
      /\ state'.transferred + state'.downloaded =
          IF l.kind \in RowKinds /\ l.n >= state.downloaded
          THEN state.transferred + l.n
          ELSE IF l.kind \in RowKinds THEN state.transferred + state.downloaded + l.n
          ELSE state.transferred + state.downloaded
  BY <1>2, <1>4, <1>5 DEF ReadsUpdate
<1>7. l.kind \in RowKinds => state'.downloaded = l.n
  BY <1>6
<1>8. /\ l.kind = "downloading" => l.n = 0
      /\ l.kind = "row" => state.downloaded = l.n - 1
  BY <1>3 DEF RowsInv, Chained
<1>9. /\ Count(outp', {"row"}) \in Nat
      /\ Count(outp, {"row"}) = Count(outp', {"row"}) + IF l.kind = "row" THEN 1 ELSE 0
  <2>1. l.kind \in {"row"} <=> l.kind = "row"
    OBVIOUS
  <2> QED
    BY <1>2, <1>3, <2>1, CountTail
<1> HIDE DEF l
<1>10. state'.transferred + state'.downloaded =
         state.transferred + state.downloaded + IF l.kind = "row" THEN 1 ELSE 0
  <2>1. CASE l.kind = "row"
    BY <1>4, <1>6, <1>8, <2>1 DEF RowKinds
  <2>2. CASE l.kind = "downloading"
    BY <1>4, <1>6, <1>8, <2>2 DEF RowKinds
  <2>3. CASE l.kind \notin RowKinds
    <3>1. l.kind # "row"
      BY <2>3 DEF RowKinds
    <3> QED
      BY <1>4, <1>6, <2>3, <3>1
  <2> QED
    BY <2>1, <2>2, <2>3 DEF RowKinds
<1>11. state'.transferred + state'.downloaded + Count(outp', {"row"}) = fetched'
  <2>1. state.transferred + state.downloaded + Count(outp, {"row"}) = fetched
    BY DEF RowsInv
  <2> DEFINE x == state'.transferred + state'.downloaded
             y == state.transferred + state.downloaded
             one == IF l.kind = "row" THEN 1 ELSE 0
             c == Count(outp', {"row"})
  <2>2. /\ x = y + one /\ y \in Nat /\ one \in Nat /\ c \in Nat
        /\ Count(outp, {"row"}) = c + one /\ y + Count(outp, {"row"}) = fetched
    BY <1>4, <1>9, <1>10, <2>1
  <2> HIDE DEF x, y, one, c
  <2>3. x + c = fetched
    BY <2>2
  <2> QED
    BY <1>2, <2>3 DEF x, c
<1>12. /\ Chained(Tail(outp), state'.downloaded)
       /\ \A k : EndsAt(outp, state.downloaded, k) => EndsAt(Tail(outp), state'.downloaded, k)
  BY <1>2, <1>3, <1>7, ChainTail DEF RowsInv, l
<1> QED
  BY <1>2, <1>11, <1>12 DEF RowsInv

(* Reading an error line leaves the account of bytes as it is.             *)
LEMMA ErrorRows ==
    ASSUME ReportAssumption, BaseInv, IsUpdate, RowsInv, onError
    PROVE  RowsInv'
<1>1. PICK e : ErrorRead(errp[1], e)
  BY ErrorIsRead
<1>2. /\ outp' = outp /\ child' = child /\ fetched' = fetched
      /\ ReadsError(Before, errp[1], state', e)
  BY <1>1 DEF ErrorRead, TakesError, RestSame
<1>3. StateOK(state)
  BY DEF BaseInv, TypeInv
<1>4. state'.transferred = state.transferred /\ state'.downloaded = state.downloaded
  BY <1>2, <1>3, BeforeIs DEF SameButErrors, ReadsError
<1>5. Count(outp', {"row"}) = Count(outp, {"row"})
  BY <1>2 DEF Count, Mapped, OneIf
<1> QED
  BY <1>2, <1>4, <1>5 DEF RowsInv, Chained, EndsAt

(* Every step of an update keeps the account of bytes.                     *)
LEMMA UpdateRows ==
    ASSUME ReportAssumption, BaseInv, IsUpdate, RowsInv, [Next]_vars
    PROVE  RowsInv'
<1>0. child \in Children
  BY DEF BaseInv, TypeInv
<1>1. CASE LoadDatabase \/ ShowPercent \/ ScanFile \/ RemoveFile \/ Summarise
  <2>1. child.at \in {"load", "files", "file", "remove", "infected", "errors", "note"}
    BY <1>1 DEF LoadDatabase, ShowPercent, ScanFile, RemoveFile, Summarise
  <2> QED
    BY <2>1, Alive DEF Ended
<1>2. CASE CheckDatabase
  <2>1. child.at = "db" /\ child.i <= Len(Databases) /\ state' = state /\ fetched' = fetched
    BY <1>2 DEF CheckDatabase, reader
  <2>2. \E l \in Messages : l.kind \notin RowKinds /\ (Out(l) \/ Err(l))
    <3> DEFINE name == Databases[child.i]
    <3>1. name \in Names /\ "uptodate" \in Kinds /\ "available" \in Kinds
      BY <2>1, DatabaseNames, LineKinds
    <3>2. /\ Named("uptodate", name) \in Messages /\ Named("uptodate", name).kind = "uptodate"
          /\ Named("available", name) \in Messages /\ Named("available", name).kind = "available"
      BY <3>1, MessagesAre
    <3> QED
      BY <1>2, <3>2, PrintIsOut DEF CheckDatabase, RowKinds
  <2>3. ~(child'.at = "fetch" /\ child'.n > 0)
    <3>1. CASE NextDb
      <4>1. child'.at = "db"
        BY <1>0, <3>1, NextDbMoves
      <4> QED
        BY <4>1
    <3>2. CASE child' = [child EXCEPT !.at = "fetch", !.n = 0, !.tries = 1]
      <4>1. child'.n = 0
        BY <1>0, <3>2 DEF Children
      <4> QED
        BY <4>1
    <3> QED
      BY <1>2, <3>1, <3>2 DEF CheckDatabase
  <2> QED
    BY <2>1, <2>2, <2>3, RowsOther
<1>3. CASE Download
  BY <1>3, DownloadRows
<1>4. CASE ServerFails
  <2>1. state' = state /\ fetched' = fetched
    BY <1>4 DEF ServerFails, reader
  <2>2. \E l \in Messages : l.kind \notin RowKinds /\ (Out(l) \/ Err(l))
    <3>1. "servererror" \in Kinds /\ "error" \in Kinds
      BY LineKinds
    <3>2. /\ Line("servererror") \in Messages /\ Line("servererror").kind = "servererror"
          /\ Line("error") \in Messages /\ Line("error").kind = "error"
      BY <3>1, MessagesAre
    <3> QED
      BY <1>4, <3>2, PrintIsOut DEF ServerFails, RowKinds
  <2>3. ~(child'.at = "fetch" /\ child'.n > 0)
    <3>1. CASE At("exit")
      <4>1. child'.at = "exit"
        BY <1>0, <3>1 DEF At, Children
      <4> QED
        BY <4>1
    <3>2. CASE child' = [child EXCEPT !.n = 0, !.tries = @ + 1]
      <4>1. child'.n = 0
        BY <1>0, <3>2 DEF Children
      <4> QED
        BY <4>1
    <3> QED
      BY <1>4, <3>1, <3>2 DEF ServerFails
  <2> QED
    BY <2>1, <2>2, <2>3, RowsOther
<1>5. CASE Install
  <2>1. state' = state /\ fetched' = fetched /\ child.at \in {"test", "install"}
    BY <1>5 DEF Install, reader
  <2>2. \E l \in Messages : l.kind \notin RowKinds /\ (Out(l) \/ Err(l))
    <3> DEFINE name == Databases[child.i]
    <3>1. name \in Names /\ "testing" \in Kinds /\ "updated" \in Kinds
      BY <2>1, DatabaseNames, LineKinds DEF BaseInv, ChildInv, ChildOK
    <3>2. /\ Line("testing") \in Messages /\ Line("testing").kind = "testing"
          /\ Named("updated", name) \in Messages /\ Named("updated", name).kind = "updated"
      BY <3>1, MessagesAre
    <3> QED
      BY <1>5, <3>2, PrintIsOut DEF Install, RowKinds
  <2>3. ~(child'.at = "fetch" /\ child'.n > 0)
    BY <1>0, <1>5 DEF Install, At, NextDb, Children
  <2> QED
    BY <2>1, <2>2, <2>3, RowsOther
<1>6. CASE Refuse
  <2>1. state' = state /\ fetched' = fetched
    BY <1>6 DEF Refuse, reader
  <2>2. \E l \in Messages : l.kind \notin RowKinds /\ (Out(l) \/ Err(l))
    <3>1. "ratelimit" \in Kinds /\ "unsupported" \in Kinds
      BY LineKinds
    <3>2. /\ Line("ratelimit") \in Messages /\ Line("ratelimit").kind = "ratelimit"
          /\ Line("unsupported") \in Messages /\ Line("unsupported").kind = "unsupported"
      BY <3>1, MessagesAre
    <3> QED
      BY <1>6, <3>2, PrintIsOut DEF Refuse, RowKinds
  <2>3. ~(child'.at = "fetch" /\ child'.n > 0)
    BY <1>0, <1>6 DEF Refuse, At, Children
  <2> QED
    BY <2>1, <2>2, <2>3, RowsOther
<1>7. CASE Exit
  <2>1. state' = state /\ fetched' = fetched /\ outp' = outp /\ errp' = errp
        /\ ~(child'.at = "fetch" /\ child'.n > 0)
    BY <1>0, <1>7 DEF Exit, reader, Children
  <2> QED
    BY <2>1, RowsOther
<1>8. CASE ToolMissing
  <2>1. state' = state /\ fetched' = fetched /\ Err(Line("error"))
        /\ ~(child'.at = "fetch" /\ child'.n > 0)
    BY <1>0, <1>8, PrintIsOut DEF ToolMissing, reader, Children
  <2>2. Line("error") \in Messages /\ Line("error").kind \notin RowKinds
    <3>1. "error" \in Kinds
      BY LineKinds
    <3>2. Line("error") \in Messages /\ Line("error").kind = "error"
      BY <3>1, MessagesAre
    <3> QED
      BY <3>2 DEF RowKinds
  <2> QED
    BY <2>1, <2>2, RowsOther
<1>9. CASE onOutput
  BY <1>9, ReadRows
<1>10. CASE onError
  BY <1>10, ErrorRows
<1>11. CASE Cancel
  <2>1. state' = state /\ fetched' = fetched /\ outp' = outp /\ errp' = errp
        /\ ~(child'.at = "fetch" /\ child'.n > 0)
    BY <1>0, <1>11 DEF Cancel, Ended, Children
  <2> QED
    BY <2>1, RowsOther
<1>12. CASE ShowEnumerated \/ onScanFinished \/ Close \/ onBgTaskFinished \/ UNCHANGED vars
  <2>1. state' = state /\ fetched' = fetched /\ outp' = outp /\ errp' = errp /\ child' = child
    BY <1>12 DEF ShowEnumerated, onScanFinished, Close, onBgTaskFinished,
       tool, vars
  <2>2. Count(outp', {"row"}) = Count(outp, {"row"})
    BY <2>1 DEF Count, Mapped, OneIf
  <2> QED
    BY <2>1, <2>2 DEF RowsInv, Chained, EndsAt
<1> QED
  BY <1>1, <1>2, <1>3, <1>4, <1>5, <1>6, <1>7, <1>8, <1>9, <1>10, <1>11, <1>12
     DEF Next, Tool, Reader

(* Nothing is more than itself.                                            *)
LEMMA ZeroIsNone ==
    ASSUME NEW x, x = 0
    PROVE  ~(x > 0)
<1>1. ~(0 > 0)
  OBVIOUS
<1> QED
  BY <1>1, Zenon

(* What an update has seen and what freshclam has fetched still agree      *)
(* when a line moves from a pipe into the state.                           *)
LEMMA ReadFetched ==
    ASSUME ReportAssumption, BaseInv, IsUpdate, FetchedInv, onOutput \/ onError
    PROVE  FetchedInv'
<1>0. outp \in Seq(Messages) /\ errp \in Seq(Messages) /\ StateOK(state)
  BY DEF BaseInv, TypeInv
<1>1. /\ Changed' <=> Changed
      /\ ServerErred' <=> ServerErred
      /\ Refused' <=> Refused
      /\ UpToDate' <=> UpToDate
      /\ child' = child /\ fetched' = fetched
  <2>1. CASE onOutput
    <3>1. PICK e : LineRead(outp[1], e)
      BY <2>1, LineIsRead
    <3> DEFINE l == outp[1]
    <3>2. ReadsMark(Before, l, state') /\ TakesLine /\ l = outp[1]
          /\ child' = child /\ fetched' = fetched
      BY <3>1 DEF LineRead, RestSame, ReadsUpdate
    <3> HIDE DEF l
    <3> QED
      BY <1>0, <3>2, SeenAfterRead
  <2>2. CASE onError
    <3>1. PICK e : ErrorRead(errp[1], e)
      BY <2>2, ErrorIsRead
    <3>2. ReadsMark(Before, errp[1], state') /\ TakesError /\ child' = child /\ fetched' = fetched
      BY <3>1 DEF ErrorRead, RestSame, ReadsError
    <3> QED
      BY <1>0, <3>2, SeenAfterRead
  <2> QED
    BY <2>1, <2>2
<1> QED
  BY <1>1 DEF FetchedInv

(* Every step of an update keeps what was seen and what was fetched in     *)
(* agreement.                                                              *)
LEMMA UpdateFetched ==
    ASSUME ReportAssumption, BaseInv, IsUpdate, FetchedInv, [Next]_vars
    PROVE  FetchedInv'
<1>0. /\ child \in Children /\ child.i \in Nat \ {0} /\ child.tries \in Nat /\ fetched \in Nat
      /\ outp \in Seq(Messages) /\ errp \in Seq(Messages)
  <2>1. child \in Children
    BY DEF BaseInv, TypeInv
  <2> QED
    BY <2>1 DEF BaseInv, TypeInv, Children
<1>1. CASE LoadDatabase \/ ShowPercent \/ ScanFile \/ RemoveFile \/ Summarise
  <2>1. child.at \in {"load", "files", "file", "remove", "infected", "errors", "note"}
    BY <1>1 DEF LoadDatabase, ShowPercent, ScanFile, RemoveFile, Summarise
  <2> QED
    BY <2>1, Alive DEF Ended
<1>2. CASE CheckDatabase
  <2>1. child.at = "db" /\ child.i <= Len(Databases) /\ state' = state /\ fetched' = fetched
    BY <1>2 DEF CheckDatabase, reader
  <2> DEFINE name == Databases[child.i]
  <2>2. name \in Names /\ "uptodate" \in Kinds /\ "available" \in Kinds
    BY <2>1, DatabaseNames, LineKinds
  <2>3. /\ Named("uptodate", name) \in Messages /\ Named("uptodate", name).kind = "uptodate"
        /\ Named("available", name) \in Messages /\ Named("available", name).kind = "available"
    BY <2>2, MessagesAre
  <2>4. CASE Prints(Named("uptodate", name)) /\ NextDb
    <3>1. child'.at = "db" /\ child'.i = child.i + 1 /\ child'.tries = 0
      BY <1>0, <2>4, NextDbMoves
    <3>2. Out(Named("uptodate", name))
      BY <2>4, PrintIsOut
    <3>3. (Changed' <=> Changed) /\ (ServerErred' <=> ServerErred) /\ UpToDate'
      BY <1>0, <2>1, <2>3, <3>2, SeenAfterPrint
    <3> QED
      BY <2>1, <3>1, <3>3 DEF FetchedInv
  <2>5. CASE Prints(Named("available", name))
           /\ child' = [child EXCEPT !.at = "fetch", !.n = 0, !.tries = 1]
    <3>1. child'.at = "fetch" /\ child'.i = child.i /\ child'.tries = 1
      BY <1>0, <2>5 DEF Children
    <3>2. Out(Named("available", name))
      BY <2>5, PrintIsOut
    <3>3. Changed' /\ (UpToDate' <=> UpToDate)
      BY <1>0, <2>1, <2>3, <3>2, SeenAfterPrint DEF Refusals
    <3>4. child'.tries > 0
      BY <3>1
    <3> QED
      BY <2>1, <3>1, <3>3, <3>4 DEF FetchedInv
  <2> QED
    BY <1>2, <2>4, <2>5 DEF CheckDatabase
<1>3. CASE Download
  <2>1. /\ child.at = "fetch" /\ state' = state
        /\ fetched' = IF child.n > 0 THEN fetched + 1 ELSE fetched
        /\ Prints(Ratio(IF child.n = 0 THEN "downloading" ELSE "row", child.n, DbSize))
    BY <1>3 DEF Download, reader
  <2>2. child.n \in Nat /\ DbSize \in Nat \ {0}
    <3>1. child.n \in 0 .. DbSize /\ DbSize \in Nat \ {0}
      BY <2>1 DEF BaseInv, ChildInv, ChildOK, ReportAssumption
    <3> QED
      BY <3>1
  <2> DEFINE l == Ratio(IF child.n = 0 THEN "downloading" ELSE "row", child.n, DbSize)
  <2>3. l \in Messages /\ l.kind \in {"downloading", "row"}
    <3>1. "downloading" \in Kinds /\ "row" \in Kinds
      BY LineKinds
    <3> QED
      BY <2>2, <3>1, MessagesAre
  <2>4. Out(l)
    BY <2>1, PrintIsOut
  <2> HIDE DEF l
  <2>5. (Changed' <=> Changed) /\ (ServerErred' <=> ServerErred) /\ (UpToDate' <=> UpToDate)
    BY <1>0, <2>1, <2>3, <2>4, SeenAfterPrint
  <2>6. /\ child'.i = child.i /\ child'.tries = child.tries
        /\ child'.at = IF child.n = DbSize THEN "test" ELSE "fetch"
    <3>1. CASE child.n = DbSize
      BY <1>0, <1>3, <2>1, <3>1 DEF Download, Children
    <3>2. CASE child.n # DbSize
      BY <1>0, <1>3, <2>1, <3>2 DEF Download, Children
    <3> QED
      BY <3>1, <3>2
  <2>7. fetched' \in Nat /\ (fetched > 0 => fetched' > 0) /\ (child.n = DbSize => fetched' > 0)
    BY <1>0, <2>1, <2>2
  <2>8. child.tries > 0
    BY <2>1 DEF FetchedInv
  <2> QED
    BY <2>1, <2>5, <2>6, <2>7, <2>8 DEF FetchedInv
<1>4. CASE ServerFails
  <2>1. child.at = "fetch" /\ state' = state /\ fetched' = fetched
    BY <1>4 DEF ServerFails, reader
  <2>2. PICK l \in {Line("servererror"), Line("error")} : Out(l) \/ Err(l)
    BY <1>4, PrintIsOut DEF ServerFails
  <2>3. l \in Messages /\ l.kind \in {"servererror", "error"}
    <3>1. "servererror" \in Kinds /\ "error" \in Kinds
      BY LineKinds
    <3> QED
      BY <2>2, <3>1, MessagesAre
  <2>4. (Changed' <=> Changed) /\ (UpToDate' <=> UpToDate)
    BY <1>0, <2>1, <2>2, <2>3, SeenAfterPrint
  <2>5. child.tries > 0
    BY <2>1 DEF FetchedInv
  <2>6. child'.i = child.i /\ child'.tries > 0 /\ child'.at \in {"fetch", "exit"}
    <3>1. CASE At("exit")
      BY <1>0, <2>5, <3>1 DEF At, Children
    <3>2. CASE child' = [child EXCEPT !.n = 0, !.tries = @ + 1]
      <4>1. child'.i = child.i /\ child'.tries = child.tries + 1 /\ child'.at = "fetch"
        BY <1>0, <2>1, <3>2 DEF Children
      <4> QED
        BY <1>0, <4>1
    <3> QED
      BY <1>4, <3>1, <3>2 DEF ServerFails
  <2> QED
    BY <2>1, <2>4, <2>5, <2>6 DEF FetchedInv
<1>5. CASE Install
  <2>1. child.at \in {"test", "install"} /\ state' = state /\ fetched' = fetched
    BY <1>5 DEF Install, reader
  <2>2. fetched > 0
    BY <2>1 DEF FetchedInv
  <2> DEFINE name == Databases[child.i]
  <2>3. name \in Names /\ "testing" \in Kinds /\ "updated" \in Kinds
    BY <2>1, DatabaseNames, LineKinds DEF BaseInv, ChildInv, ChildOK
  <2>4. /\ Line("testing") \in Messages /\ Line("testing").kind = "testing"
        /\ Named("updated", name) \in Messages /\ Named("updated", name).kind = "updated"
    BY <2>3, MessagesAre
  <2>5. Changed
    BY <2>2 DEF FetchedInv
  <2>6. Changed'
    BY <1>0, <1>5, <2>1, <2>4, <2>5, SeenAfterPrint, PrintIsOut DEF Install
  <2>7. /\ child'.at \in {"install", "db"} /\ (child'.at = "db" => child'.tries = 0)
    <3>1. CASE At("install")
      BY <1>0, <3>1 DEF At, Children
    <3>2. CASE NextDb
      BY <1>0, <3>2, NextDbMoves
    <3> QED
      BY <1>5, <3>1, <3>2 DEF Install
  <2> QED
    BY <2>1, <2>2, <2>6, <2>7 DEF FetchedInv
<1>6. CASE Refuse
  <2>1. child.at = "db" /\ state' = state /\ fetched' = fetched /\ At("exit")
    BY <1>6 DEF Refuse, reader
  <2>2. PICK l \in {Line("ratelimit"), Line("unsupported")} : Out(l) \/ Err(l)
    BY <1>6, PrintIsOut DEF Refuse
  <2>3. l \in Messages /\ l.kind \in {"ratelimit", "unsupported"}
    <3>1. "ratelimit" \in Kinds /\ "unsupported" \in Kinds
      BY LineKinds
    <3> QED
      BY <2>2, <3>1, MessagesAre
  <2>4. (Changed' <=> Changed) /\ (UpToDate' <=> UpToDate)
        /\ (ServerErred' <=> ServerErred) /\ Refused'
    BY <1>0, <2>1, <2>2, <2>3, SeenAfterPrint DEF Refusals
  <2>5. child'.i = child.i /\ child'.tries = child.tries /\ child'.at = "exit"
    BY <1>0, <2>1 DEF At, Children
  <2> QED
    BY <2>1, <2>4, <2>5 DEF FetchedInv
<1>7. CASE Exit
  <2>1. state' = state /\ fetched' = fetched /\ outp' = outp /\ errp' = errp
    BY <1>7 DEF Exit, reader
  <2>2. (Changed' <=> Changed) /\ (UpToDate' <=> UpToDate) /\ (ServerErred' <=> ServerErred)
        /\ (Refused' <=> Refused)
    BY <2>1, SeenStays
  <2>3. PICK c : /\ child' = [child EXCEPT !.at = "ended", !.n = c]
                 /\ c \in IF child.at = "db" THEN {0}
                     ELSE IF child.tries = 0 THEN Failures \cup {0} ELSE Failures
    BY <1>7 DEF Exit
  <2>4. child'.i = child.i /\ child'.tries = child.tries /\ child'.at = "ended" /\ child'.n = c
    BY <1>0, <2>3 DEF Children
  <2>5. /\ child.at = "exit" \/ (child.at = "db" /\ child.i > Len(Databases))
        /\ 0 \notin Failures
    BY <1>7 DEF Exit, ReportAssumption
  <2>6. c = 0 => child.tries = 0 /\ (Refused \/ child.i > Len(Databases))
    BY <2>3, <2>5 DEF FetchedInv
  <2> QED
    BY <2>1, <2>2, <2>4, <2>6 DEF FetchedInv
<1>8. CASE ToolMissing
  <2>1. /\ state' = state /\ fetched' = fetched /\ Err(Line("error"))
    BY <1>0, <1>8, PrintIsOut DEF ToolMissing, reader
  <2>2. Line("error") \in Messages /\ Line("error").kind = "error"
    BY LineKinds, MessagesAre
  <2>3. (Changed' <=> Changed) /\ (UpToDate' <=> UpToDate) /\ (ServerErred' <=> ServerErred)
    BY <1>0, <2>1, <2>2, SeenAfterPrint
  <2>4. child'.i = child.i /\ child'.tries = child.tries /\ child'.at = "missing"
    BY <1>0, <1>8 DEF ToolMissing, Children
  <2> QED
    BY <2>1, <2>3, <2>4 DEF FetchedInv
<1>9. CASE onOutput \/ onError
  BY <1>9, ReadFetched
<1>11. CASE Cancel
  <2>1. state' = state /\ fetched' = fetched /\ outp' = outp /\ errp' = errp
    BY <1>11 DEF Cancel
  <2>2. (Changed' <=> Changed) /\ (UpToDate' <=> UpToDate) /\ (ServerErred' <=> ServerErred)
        /\ (Refused' <=> Refused)
    BY <2>1, SeenStays
  <2>3. CASE child.at \in Ended
    <3>1. child' = child
      BY <1>11, <2>3 DEF Cancel
    <3> QED
      BY <2>1, <2>2, <3>1 DEF FetchedInv
  <2>4. CASE child.at \notin Ended
    <3>1. child'.i = child.i /\ child'.tries = child.tries /\ child'.at = "killed"
      BY <1>0, <1>11, <2>4 DEF Cancel, Children
    <3> QED
      BY <2>1, <2>2, <3>1 DEF FetchedInv
  <2> QED
    BY <2>3, <2>4
<1>12. CASE ShowEnumerated \/ onScanFinished \/ Close \/ onBgTaskFinished \/ UNCHANGED vars
  <2>1. state' = state /\ fetched' = fetched /\ outp' = outp /\ errp' = errp /\ child' = child
    BY <1>12 DEF ShowEnumerated, onScanFinished, Close, onBgTaskFinished,
       tool, vars
  <2> QED
    BY <2>1, SeenStays DEF FetchedInv
<1> QED
  BY <1>1, <1>2, <1>3, <1>4, <1>5, <1>6, <1>7, <1>8, <1>9, <1>11, <1>12
     DEF Next, Tool, Reader

(* The balloon tells what the code was.                                    *)
BalloonInv ==
    balloon # "" =>
        balloon =
          IF IsDialog
          THEN IF IsUpdate THEN UpdateBalloon(IF cancelled THEN -1 ELSE code)
               ELSE ScanBalloon(IF cancelled THEN -1 ELSE code)
          ELSE IF ~IsUpdate THEN ScanBalloon(child.n)
          ELSE IF child.n \notin {0, 2} THEN "error"
          ELSE IF state.changes THEN "updated" ELSE "none"

(* The balloon stays what the exit code, or the code of the dialog,        *)
(* says.                                                                   *)
LEMMA BalloonKept ==
    ASSUME BaseInv, BalloonInv, [Next]_vars
    PROVE  BalloonInv'
<1>1. CASE balloon = "" /\ balloon' = balloon
  BY <1>1 DEF BalloonInv
<1>2. CASE Close \/ onBgTaskFinished
  <2>1. /\ task' = task /\ cancelled' = cancelled /\ child' = child /\ state' = state
        /\ Close => IsDialog /\ code' = code
        /\ onBgTaskFinished => ~IsDialog /\ code' = child.n
    BY <1>2 DEF Close, onBgTaskFinished, tool
  <2>2. IsDialog' = IsDialog /\ IsUpdate' = IsUpdate
    BY <2>1 DEF IsDialog, IsUpdate
  <2>3. Close => balloon' = IF IsUpdate THEN UpdateBalloon(IF cancelled THEN -1 ELSE code)
               ELSE ScanBalloon(IF cancelled THEN -1 ELSE code)
    BY DEF Close
  <2>4. onBgTaskFinished => balloon' = IF ~IsUpdate THEN ScanBalloon(child.n)
          ELSE IF child.n \notin {0, 2} THEN "error"
          ELSE IF state.changes THEN "updated" ELSE "none"
    BY <2>1 DEF onBgTaskFinished
  <2> QED
    BY <1>2, <2>1, <2>2, <2>3, <2>4 DEF BalloonInv, UpdateBalloon, ScanBalloon
<1>3. CASE balloon # "" /\ ~(Close \/ onBgTaskFinished)
  <2>1. child.at \in Ended /\ outp = <<>> /\ errp = <<>> /\ (IsDialog => verdict # "")
    BY <1>3 DEF BaseInv, EndInv
  <2>2. ~Tool
    <3>1. Tool => child.at \notin Ended
      BY DEF Tool, LoadDatabase, ShowPercent, ScanFile, RemoveFile, Summarise,
             CheckDatabase, Download, ServerFails, Install, Refuse, Exit,
             ToolMissing, Ended
    <3> QED
      BY <2>1, <3>1
  <2>3. ~(onOutput \/ onError \/ ShowEnumerated \/ Cancel \/ onScanFinished)
    BY <2>1 DEF onOutput, onError, ShowEnumerated, Cancel, onScanFinished,
       ChildReported
  <2>4. UNCHANGED vars
    BY <1>3, <2>2, <2>3 DEF Next, Reader
  <2> QED
    BY <2>4 DEF vars, BalloonInv, IsDialog, IsUpdate, UpdateBalloon, ScanBalloon
<1>4. balloon' = balloon \/ Close \/ onBgTaskFinished
  BY DEF Next, Tool, Reader, LoadDatabase, ShowPercent, ScanFile, RemoveFile,
     Summarise,
             CheckDatabase, Download, ServerFails, Install, Refuse, Exit,
             ToolMissing, reader,
             onOutput, onError, Handle, ShowEnumerated, Cancel,
             onScanFinished, vars
<1> QED
  BY <1>1, <1>2, <1>3, <1>4

(* What the user is told of an update.                                     *)
UpdateInv == BalloonInv /\ (IsUpdate => RowsInv /\ FetchedInv)

(* The program starts with the accounts of an update in order.             *)
LEMMA InitUpdate ==
    ASSUME ReportAssumption, Init
    PROVE  UpdateInv
<1>1. /\ outp = <<>> /\ errp = <<>> /\ balloon = "" /\ fetched = 0
      /\ child = [at |-> IF task.mode = "update" THEN "db" ELSE "load",
                  i |-> 1, n |-> 0, tries |-> 0]
  BY DEF Init
<1>2. /\ state.transferred = 0 /\ state.downloaded = 0 /\ state.changes = FALSE
      /\ state.serverError = FALSE /\ state.blocked = FALSE /\ state.upToDate = 0
  BY InitState
<1>3. IsUpdate => child.at = "db" /\ child.i = 1 /\ child.n = 0 /\ child.tries = 0
  BY <1>1 DEF IsUpdate
<1>4. IsUpdate => RowsInv
  <2> SUFFICES ASSUME IsUpdate PROVE RowsInv
    OBVIOUS
  <2>2. ~(child.at = "fetch")
    BY <1>3
  <2>1. Count(outp, {"row"}) = 0 /\ Chained(outp, state.downloaded)
    BY <1>1, CountEmpty, ChainEmpty
  <2> QED
    <3>1. state.transferred + state.downloaded + Count(outp, {"row"}) = fetched
      <4>1. 0 + 0 + 0 = 0
        OBVIOUS
      <4> QED
        BY <1>1, <1>2, <2>1, <4>1, Zenon
    <3> QED
      BY <2>1, <2>2, <3>1 DEF RowsInv
<1>5. IsUpdate => FetchedInv
  <2> SUFFICES ASSUME IsUpdate PROVE FetchedInv
    OBVIOUS
  <2>3. child.at = "db" /\ child.tries = 0 /\ ~(fetched > 0) /\ ~(child.tries > 0)
    BY <1>1, <1>3, ZeroIsNone, Zenon
  <2>4. ~(child.i > 1)
    <3>1. child.i = 1 /\ ~(1 > 1)
      BY <1>3
    <3> QED
      BY <3>1, Zenon
  <2>1. \A K : ~Has(outp, K) /\ ~Has(errp, K)
    BY <1>1, HasEmpty
  <2>2. ~Changed /\ ~ServerErred /\ ~UpToDate
    BY <1>2, <2>1 DEF Changed, ServerErred, UpToDate, Seen
  <2> QED
    BY <2>2, <2>3, <2>4 DEF FetchedInv
<1> QED
  BY <1>1, <1>4, <1>5 DEF UpdateInv, BalloonInv

(* Every step keeps the accounts of an update in order.                    *)
LEMMA NextUpdate ==
    ASSUME ReportAssumption, BaseInv, UpdateInv, [Next]_vars
    PROVE  UpdateInv'
<1>1. IsUpdate' = IsUpdate
  BY DEF IsUpdate, Next, Tool, Reader, LoadDatabase, ShowPercent, ScanFile,
     RemoveFile, Summarise,
             CheckDatabase, Download, ServerFails, Install, Refuse, Exit,
             ToolMissing, reader,
             onOutput, onError, Handle, ShowEnumerated, Cancel,
             onScanFinished, vars, Close, onBgTaskFinished
<1> QED
  BY <1>1, UpdateRows, UpdateFetched, BalloonKept DEF UpdateInv

(* With nothing left to read, the session's bytes are those fetched.       *)
LEMMA BytesTrue ==
    ASSUME BaseInv, UpdateInv
    PROVE  SessionBytes
<1> SUFFICES ASSUME IsUpdate, outp = <<>>
             PROVE  state.transferred + state.downloaded = fetched
  BY DEF SessionBytes
<1>1. state.transferred + state.downloaded + Count(outp, {"row"}) = fetched
  BY DEF UpdateInv, RowsInv
<1>2. Count(outp, {"row"}) = 0
  BY CountEmpty
<1>3. state.transferred \in Nat /\ state.downloaded \in Nat
  BY DEF BaseInv, TypeInv, StateOK
<1> QED
  BY <1>1, <1>2, <1>3

(* The dialog never calls a failed update a success, nor says that         *)
(* nothing was to be done when something was.                              *)
LEMMA VerdictIsTrue ==
    ASSUME ReportAssumption, BaseInv, UpdateInv
    PROVE  VerdictTrue
<1> SUFFICES ASSUME verdict \in {"updated", "uptodate"}
             PROVE  /\ child.at = "ended" /\ child.n = 0
                    /\ verdict = "uptodate" => fetched = 0
                    /\ verdict = "updated" => fetched > 0
  BY DEF VerdictTrue
<1>1. /\ verdict = Verdict(child.n) /\ outp = <<>> /\ errp = <<>> /\ child.at \in Ended
      /\ child.at = "killed" => cancelled
  BY DEF BaseInv, EndInv, ChildInv, ChildOK
<1>2. /\ ~cancelled /\ IsUpdate /\ child.at # "missing" /\ ~state.serverError
      /\ ~state.blocked /\ child.n = 0
      /\ verdict = "uptodate" => NoUpdatesNeeded(child.n)
      /\ verdict = "updated" => ~NoUpdatesNeeded(child.n)
  BY <1>1 DEF Verdict
<1>3. child.at = "ended"
  BY <1>1, <1>2 DEF Ended
<1>4. \A K : ~Has(outp, K) /\ ~Has(errp, K)
  BY <1>1, HasEmpty
<1>5. (Changed <=> state.changes) /\ ~Refused /\ (UpToDate <=> state.upToDate > 0)
  BY <1>2, <1>4 DEF Changed, Refused, UpToDate, Seen
<1>6. FetchedInv
  BY <1>2 DEF UpdateInv
<1>7. child.tries = 0 /\ child.i > Len(Databases)
  BY <1>2, <1>3, <1>5, <1>6 DEF FetchedInv
<1>8. fetched \in Nat /\ child.i > 1
  <2>1. Databases \in Seq(STRING) /\ Databases # <<>>
    BY DEF ReportAssumption
  <2>2. Len(Databases) \in Nat /\ Len(Databases) >= 1
    BY <2>1
  <2>3. child \in Children /\ fetched \in Nat
    BY DEF BaseInv, TypeInv
  <2>4. child.i \in Nat
    BY <2>3 DEF Children
  <2> QED
    BY <1>7, <2>2, <2>3, <2>4
<1>9. (fetched > 0 <=> state.changes) /\ (fetched > 0 \/ state.upToDate > 0)
  BY <1>5, <1>6, <1>7, <1>8 DEF FetchedInv
<1> QED
  BY <1>2, <1>3, <1>8, <1>9 DEF NoUpdatesNeeded

(* The balloon says that the database was updated just if it was.          *)
LEMMA BalloonIsTrue ==
    ASSUME ReportAssumption, BaseInv, UpdateInv
    PROVE  BalloonTrue
<1> SUFFICES ASSUME IsUpdate, balloon # "", AllRead, ~cancelled,
                    ~state.blocked, child.n # 2
             PROVE  (balloon = "updated") = (child.n = 0 /\ fetched > 0)
  BY DEF BalloonTrue
<1>1. FetchedInv /\ BalloonInv /\ child.at = "ended" /\ outp = <<>> /\ errp = <<>>
  BY DEF UpdateInv, AllRead
<1>2. \A K : ~Has(outp, K) /\ ~Has(errp, K)
  BY <1>1, HasEmpty
<1>3. (Changed <=> state.changes) /\ ~Refused /\ (ServerErred <=> state.serverError)
  BY <1>2 DEF Changed, Refused, ServerErred, Seen
<1>4. child.n = 0 => child.tries = 0 /\ (fetched > 0 <=> state.changes)
        /\ (state.serverError => fetched > 0)
  <2> SUFFICES ASSUME child.n = 0
               PROVE  child.tries = 0 /\ (fetched > 0 <=> state.changes)
                      /\ (state.serverError => fetched > 0)
    OBVIOUS
  <2>1. child.tries = 0
    BY <1>1, <1>3 DEF FetchedInv
  <2>2. ~(child.tries > 0)
    BY <2>1, ZeroIsNone, Zenon
  <2> QED
    BY <1>1, <1>3, <2>1, <2>2 DEF FetchedInv
<1>5. CASE ~IsDialog
  <2>1. balloon = IF child.n \notin {0, 2} THEN "error"
          ELSE IF state.changes THEN "updated" ELSE "none"
    BY <1>1, <1>5 DEF BalloonInv
  <2> QED
    BY <1>4, <2>1
<1>6. CASE IsDialog
  <2>1. balloon = UpdateBalloon(code)
    BY <1>1, <1>6 DEF BalloonInv
  <2>2. verdict # "" /\ verdict = Verdict(child.n)
        /\ code = IF verdict = "uptodate" THEN 2 ELSE child.n
    BY <1>6 DEF BaseInv, EndInv
  <2>3. balloon = "updated" <=> child.n = 0 /\ verdict # "uptodate"
    <3>1. verdict = "uptodate" => child.n = 0
      BY <2>2 DEF Verdict, NoUpdatesNeeded
    <3> QED
      BY <2>1, <2>2, <3>1 DEF UpdateBalloon
  <2>4. ASSUME child.n = 0 PROVE verdict # "uptodate" <=> fetched > 0
    <3>1. VerdictTrue
      BY VerdictIsTrue
    <3>2. verdict = "uptodate" => ~(fetched > 0)
      <4>1. verdict = "uptodate" => fetched = 0
        BY <3>1 DEF VerdictTrue
      <4> QED
        BY <4>1, ZeroIsNone, Zenon
    <3>3. verdict # "uptodate" => verdict \in {"servererror", "updated"}
      BY <1>1, <2>2, <2>4 DEF Verdict
    <3>4. verdict = "servererror" => state.serverError
      BY <1>1, <2>2, <2>4 DEF Verdict
    <3> QED
      BY <1>4, <2>4, <3>1, <3>2, <3>3, <3>4 DEF VerdictTrue
  <2> QED
    BY <2>3, <2>4
<1> QED
  BY <1>5, <1>6

(* "Downloaded total" is what freshclam has downloaded, over any number    *)
(* of databases and of downloads that are started again.                   *)
THEOREM BytesSafe == Spec => []SessionBytes
<1>1. Init => BaseInv /\ UpdateInv
  BY ReportAssumption, InitBase, InitUpdate
<1>2. (BaseInv /\ UpdateInv) /\ [Next]_vars => (BaseInv /\ UpdateInv)'
  BY ReportAssumption, NextBase, NextUpdate
<1>3. BaseInv /\ UpdateInv => SessionBytes
  BY BytesTrue
<1> QED
  BY <1>1, <1>2, <1>3, PTL DEF Spec

-----------------------------------------------------------------------------
(* Scans.  The files that have been passed, and those that were scanned.   *)
Passed == 1 .. (child.i - 1) \cup (IF child.at = "remove" THEN {child.i} ELSE {})
Scanned == Are("clean") \cup Are("infected")

(* The files of a task, and the sets of those that are scanned.            *)
LEMMA FilesAre ==
    ASSUME ReportAssumption, BaseInv
    PROVE  /\ Files \in Seq(FileSet) /\ Len(Files) \in Nat /\ DOMAIN Files = 1 .. Len(Files)
           /\ \A i \in 1 .. Len(Files) : /\ Files[i] \in FileSet /\ Files[i].size \in Nat
                                         /\ Files[i].is \in {"clean", "infected", "locked"}
           /\ \A k : Are(k) \subseteq 1 .. Len(Files) /\ IsFiniteSet(Are(k))
           /\ Scanned \subseteq 1 .. Len(Files) /\ IsFiniteSet(Scanned)
<1>1. Files \in Seq(FileSet)
  BY TaskFacts DEF BaseInv, TypeInv, TypeOK
<1>2. Len(Files) \in Nat /\ DOMAIN Files = 1 .. Len(Files)
      /\ \A i \in 1 .. Len(Files) : Files[i] \in FileSet
  BY <1>1
<1>3. \A f \in FileSet : f.size \in Nat /\ f.is \in {"clean", "infected", "locked"}
  BY DEF FileSet
<1>4. IsFiniteSet(1 .. Len(Files))
  BY <1>2, FS_Interval
<1>5. \A k : Are(k) \subseteq 1 .. Len(Files)
  BY <1>2 DEF Are
<1>6. Scanned \subseteq 1 .. Len(Files)
  BY <1>5 DEF Scanned
<1>7. (\A k : IsFiniteSet(Are(k))) /\ IsFiniteSet(Scanned)
  BY <1>4, <1>5, <1>6, FS_Subset
<1> QED
  BY <1>1, <1>2, <1>3, <1>5, <1>6, <1>7

(* One more is passed.                                                     *)
LEMMA OnePassed ==
    ASSUME NEW S, IsFiniteSet(S), NEW P, NEW i, i \notin P
    PROVE  /\ Cardinality(S \cap P) \in Nat
           /\ Cardinality(S \cap (P \cup {i})) =
                Cardinality(S \cap P) + IF i \in S THEN 1 ELSE 0
<1>1. IsFiniteSet(S \cap P)
  BY FS_Subset
<1>2. CASE i \in S
  <2>1. S \cap (P \cup {i}) = (S \cap P) \cup {i} /\ i \notin S \cap P
    BY <1>2
  <2>2. Cardinality((S \cap P) \cup {i}) = Cardinality(S \cap P) + 1
    BY <1>1, <2>1, FS_AddElement
  <2> QED
    BY <1>1, <1>2, <2>1, <2>2, FS_CardinalityType
<1>3. CASE i \notin S
  <2>1. S \cap (P \cup {i}) = S \cap P
    BY <1>3
  <2> DEFINE n == Cardinality(S \cap P)
  <2>2. n \in Nat
    BY <1>1, FS_CardinalityType
  <2>3. Cardinality(S \cap (P \cup {i})) = n
    BY <2>1
  <2> HIDE DEF n
  <2>4. n = n + IF i \in S THEN 1 ELSE 0
    BY <1>3, <2>2
  <2> QED
    BY <2>2, <2>3, <2>4 DEF n
<1> QED
  BY <1>2, <1>3

(* After the last file all have been passed.                               *)
LEMMA AllPassed ==
    ASSUME ReportAssumption, BaseInv, child.i > Len(Files), NEW S, S \subseteq 1 .. Len(Files)
    PROVE  S \cap Passed = S
<1>1. Len(Files) \in Nat
  BY FilesAre
<1>2. child.i \in Nat
  <2>1. child \in Children
    BY DEF BaseInv, TypeInv
  <2> QED
    BY <2>1 DEF Children
<1>3. 1 .. Len(Files) \subseteq 1 .. (child.i - 1)
  BY <1>1, <1>2
<1> QED
  BY <1>3 DEF Passed

(* Zeros.                                                                  *)
LEMMA TotalZero ==
    ASSUME NEW w \in Seq(Nat), \A i \in 1 .. Len(w) : w[i] = 0
    PROVE  Total(w) = 0
<1>0. Len(w) \in Nat
  OBVIOUS
<1>1. PICK f : Adds(f, w)
  BY TotalAdds
<1> DEFINE T == {n \in Nat : n <= Len(w) => f[n] = 0}
<1>2. 0 \in T
  BY <1>1 DEF Adds
<1>3. ASSUME NEW n \in Nat, n \in T PROVE n + 1 \in T
  <2> SUFFICES ASSUME n + 1 <= Len(w) PROVE f[n + 1] = 0
    OBVIOUS
  <2>1. n + 1 \in 1 .. Len(w) /\ (n + 1) - 1 = n
    BY <1>0
  <2>2. f[n + 1] = f[n] + w[n + 1]
    BY <1>1, <2>1 DEF Adds
  <2>3. f[n] = 0 /\ w[n + 1] = 0
    BY <1>0, <1>3, <2>1
  <2> QED
    BY <2>2, <2>3
<1> HIDE DEF T
<1>4. Len(w) \in T
  BY <1>0, <1>2, <1>3, Inductive
<1> QED
  BY <1>0, <1>1, <1>4 DEF Adds, T

(* Nothing to count.                                                       *)
LEMMA CountNone ==
    ASSUME NEW q \in Seq(Messages), NEW kinds, ~Has(q, kinds)
    PROVE  Count(q, kinds) = 0
<1> DEFINE g == OneIf(kinds)
           w == Mapped(q, g)
<1>1. g \in [Messages -> Nat] /\ \A m \in Messages : g[m] = IF m.kind \in kinds THEN 1 ELSE 0
  BY OneIfIs
<1> HIDE DEF g
<1>2. w \in Seq(Nat) /\ Len(w) = Len(q) /\ \A i \in 1 .. Len(q) : w[i] = g[q[i]]
  BY <1>1, MappedIs
<1>3. \A i \in 1 .. Len(q) : q[i] \in Messages /\ q[i].kind \notin kinds
  <2>1. DOMAIN q = 1 .. Len(q) /\ \A i \in 1 .. Len(q) : q[i] \in Messages
    OBVIOUS
  <2> QED
    BY <2>1 DEF Has
<1> HIDE DEF w
<1>4. \A i \in 1 .. Len(w) : w[i] = 0
  BY <1>1, <1>2, <1>3
<1>5. Total(w) = 0
  BY <1>2, <1>4, TotalZero
<1> QED
  BY <1>5 DEF Count, g, w

(* Nothing of some kinds comes after a line of a kind.                     *)
NoneAfter(q, kind, kinds) ==
    \A i, j \in DOMAIN q : i < j /\ q[i].kind = kind => q[j].kind \notin kinds

(* Nothing of some kinds is written after a line of a kind.                *)
LEMMA NoneAfterAppend ==
    ASSUME NEW q \in Seq(Messages), NEW m \in Messages, NEW kind, NEW kinds,
           NoneAfter(q, kind, kinds), Has(q, {kind}) => m.kind \notin kinds
    PROVE  NoneAfter(Append(q, m), kind, kinds)
<1> DEFINE r == Append(q, m)
<1>1. /\ Len(q) \in Nat /\ DOMAIN q = 1 .. Len(q) /\ DOMAIN r = 1 .. Len(q) + 1
      /\ r[Len(q) + 1] = m /\ \A i \in 1 .. Len(q) : r[i] = q[i]
  OBVIOUS
<1> HIDE DEF r
<1>2. ASSUME NEW i \in DOMAIN r, NEW j \in DOMAIN r, i < j, r[i].kind = kind
      PROVE  r[j].kind \notin kinds
  <2>1. i \in DOMAIN q /\ q[i].kind = kind
    BY <1>1, <1>2
  <2>2. CASE j \in DOMAIN q
    BY <1>1, <1>2, <2>1, <2>2 DEF NoneAfter
  <2>3. CASE j \notin DOMAIN q
    <3>1. r[j] = m
      BY <1>1, <1>2, <2>3
    <3> QED
      BY <2>1, <3>1 DEF Has
  <2> QED
    BY <2>2, <2>3
<1> QED
  BY <1>2 DEF NoneAfter, r

(* After a line of the kind is read, none of those kinds is left.          *)
LEMMA NoneAfterTail ==
    ASSUME NEW q \in Seq(Messages), q # <<>>, NEW kind, NEW kinds,
           NoneAfter(q, kind, kinds)
    PROVE  /\ NoneAfter(Tail(q), kind, kinds)
           /\ q[1].kind = kind => ~Has(Tail(q), kinds)
<1> DEFINE r == Tail(q)
<1>1. /\ Len(r) \in Nat /\ DOMAIN q = 1 .. Len(r) + 1 /\ DOMAIN r = 1 .. Len(r)
      /\ \A i \in 1 .. Len(r) : r[i] = q[i + 1]
  OBVIOUS
<1> HIDE DEF r
<1>2. ASSUME NEW i \in DOMAIN r, NEW j \in DOMAIN r, i < j, r[i].kind = kind
      PROVE  r[j].kind \notin kinds
  <2>1. i + 1 \in DOMAIN q /\ j + 1 \in DOMAIN q /\ i + 1 < j + 1
        /\ r[i] = q[i + 1] /\ r[j] = q[j + 1]
    BY <1>1, <1>2
  <2> QED
    BY <1>2, <2>1 DEF NoneAfter
<1>3. ASSUME q[1].kind = kind, NEW j \in DOMAIN r PROVE r[j].kind \notin kinds
  <2>1. 1 \in DOMAIN q /\ j + 1 \in DOMAIN q /\ 1 < j + 1 /\ r[j] = q[j + 1]
    BY <1>1
  <2> QED
    BY <1>3, <2>1 DEF NoneAfter
<1> QED
  BY <1>2, <1>3 DEF NoneAfter, Has, r

(* Nothing comes after anything in an empty pipe.                          *)
LEMMA NoneAfterEmpty ==
    ASSUME NEW kind, NEW kinds
    PROVE  NoneAfter(<<>>, kind, kinds)
<1>1. \A i \in DOMAIN <<>> : FALSE
  OBVIOUS
<1> QED
  BY <1>1 DEF NoneAfter

(* Numbers that lines of a kind carry.                                     *)
Says(q, kind, n) == \A i \in DOMAIN q : q[i].kind = kind => q[i].n = n

(* A line that is written carries its number.                              *)
LEMMA SaysAppend ==
    ASSUME NEW q \in Seq(Messages), NEW m \in Messages, NEW kind, NEW n,
           Says(q, kind, n), m.kind = kind => m.n = n
    PROVE  Says(Append(q, m), kind, n)
<1> DEFINE r == Append(q, m)
<1>1. /\ DOMAIN r = DOMAIN q \cup {Len(q) + 1} /\ r[Len(q) + 1] = m
      /\ \A i \in DOMAIN q : r[i] = q[i]
  OBVIOUS
<1> HIDE DEF r
<1>2. Says(r, kind, n)
  BY <1>1 DEF Says
<1> QED
  BY <1>2 DEF r

(* The line that is read carries its number.                               *)
LEMMA SaysTail ==
    ASSUME NEW q \in Seq(Messages), q # <<>>, NEW kind, NEW n, Says(q, kind, n)
    PROVE  Says(Tail(q), kind, n) /\ (q[1].kind = kind => q[1].n = n)
<1> DEFINE r == Tail(q)
<1>1. /\ Len(r) \in Nat /\ DOMAIN q = 1 .. Len(r) + 1 /\ DOMAIN r = 1 .. Len(r)
      /\ \A i \in 1 .. Len(r) : r[i] = q[i + 1]
  OBVIOUS
<1> HIDE DEF r
<1>2. \A i \in DOMAIN r : i + 1 \in DOMAIN q /\ r[i] = q[i + 1]
  BY <1>1
<1>3. 1 \in DOMAIN q
  BY <1>1
<1> QED
  BY <1>2, <1>3 DEF Says, r

(* What is in a pipe.                                                      *)
LEMMA RangeAppend ==
    ASSUME NEW q \in Seq(Messages), NEW m \in Messages
    PROVE  Range(Append(q, m)) = Range(q) \cup {m}
<1> DEFINE r == Append(q, m)
<1>1. /\ DOMAIN r = DOMAIN q \cup {Len(q) + 1} /\ r[Len(q) + 1] = m
      /\ \A i \in DOMAIN q : r[i] = q[i]
  OBVIOUS
<1> HIDE DEF r
<1>2. Range(r) = Range(q) \cup {m}
  BY <1>1 DEF Range
<1> QED
  BY <1>2 DEF r

(* What was in a pipe is in it still or was read.                          *)
LEMMA RangeTail ==
    ASSUME NEW q \in Seq(Messages), q # <<>>
    PROVE  Range(q) = Range(Tail(q)) \cup {q[1]}
<1> DEFINE r == Tail(q)
<1>1. /\ Len(r) \in Nat /\ DOMAIN q = 1 .. Len(r) + 1 /\ DOMAIN r = 1 .. Len(r)
      /\ \A i \in 1 .. Len(r) : r[i] = q[i + 1]
  OBVIOUS
<1> HIDE DEF r
<1>2. ASSUME NEW i \in DOMAIN q PROVE q[i] \in Range(r) \cup {q[1]}
  <2>1. i # 1 => i - 1 \in DOMAIN r /\ r[i - 1] = q[i]
    BY <1>1
  <2> QED
    BY <2>1 DEF Range
<1>3. ASSUME NEW i \in DOMAIN r PROVE r[i] \in Range(q)
  <2>1. i + 1 \in DOMAIN q /\ r[i] = q[i + 1]
    BY <1>1
  <2> QED
    BY <2>1 DEF Range
<1>4. 1 \in DOMAIN q
  BY <1>1
<1> QED
  BY <1>2, <1>3, <1>4 DEF Range, r

(* Sizes.                                                                  *)
LEMMA SizeOfOneMore ==
    ASSUME NEW files \in Seq(FileSet), NEW S, NEW i \in 1 .. Len(files), i \notin S
    PROVE  SizeOf(files, S \cup {i}) = SizeOf(files, S) + files[i].size
<1> DEFINE v == Weights(files, S \cup {i})
           w == Weights(files, S)
           d == files[i].size
<1>0. d \in Nat
  <2>1. files[i] \in FileSet
    OBVIOUS
  <2> QED
    BY <2>1 DEF FileSet
<1>1. /\ w \in Seq(Nat) /\ Len(w) = Len(files)
      /\ \A k \in 1 .. Len(files) : w[k] = IF k \in S THEN files[k].size ELSE 0
      /\ SizeOf(files, S) = Total(w)
  BY WeightsAre
<1>2. /\ v \in Seq(Nat) /\ Len(v) = Len(files)
      /\ \A k \in 1 .. Len(files) : v[k] = IF k \in S \cup {i} THEN files[k].size ELSE 0
      /\ SizeOf(files, S \cup {i}) = Total(v)
  BY WeightsAre
<1> HIDE DEF v, w
<1>3. v[i] = w[i] + d /\ \A k \in 1 .. Len(w) : k # i => v[k] = w[k]
  BY <1>0, <1>1, <1>2
<1> HIDE DEF d
<1>4. Total(v) = Total(w) + d
  BY <1>0, <1>1, <1>2, <1>3, TotalPlus
<1> QED
  BY <1>1, <1>2, <1>4 DEF d

(* More files have no fewer bytes.                                         *)
LEMMA SizeOfMono ==
    ASSUME NEW files \in Seq(FileSet), NEW S, NEW R, S \subseteq R
    PROVE  SizeOf(files, S) <= SizeOf(files, R)
<1> DEFINE v == Weights(files, S)
           w == Weights(files, R)
<1>0. \A i \in 1 .. Len(files) : files[i].size \in Nat
  <2>1. \A i \in 1 .. Len(files) : files[i] \in FileSet
    OBVIOUS
  <2> QED
    BY <2>1 DEF FileSet
<1>1. /\ v \in Seq(Nat) /\ Len(v) = Len(files)
      /\ \A k \in 1 .. Len(files) : v[k] = IF k \in S THEN files[k].size ELSE 0
      /\ SizeOf(files, S) = Total(v)
  BY WeightsAre
<1>2. /\ w \in Seq(Nat) /\ Len(w) = Len(files)
      /\ \A k \in 1 .. Len(files) : w[k] = IF k \in R THEN files[k].size ELSE 0
      /\ SizeOf(files, R) = Total(w)
  BY WeightsAre
<1> HIDE DEF v, w
<1>3. \A k \in 1 .. Len(w) : v[k] <= w[k]
  BY <1>0, <1>1, <1>2
<1>4. Total(v) <= Total(w)
  BY <1>1, <1>2, <1>3, TotalMono
<1> QED
  BY <1>1, <1>2, <1>4

-----------------------------------------------------------------------------
(* The steps of a scan, by what they do to the pipes, to the files that    *)
(* were passed and to what the reader knows.                               *)
Late == {"errors", "note", "exit", "ended", "killed"}
Onward ==
    /\ child.at \in Late => child'.at \in Late
    /\ child.at \in Summed \cup {"killed"} => child'.at \in Summed \cup {"killed"}
    /\ child.at = "killed" => child'.at = "killed"
ReaderRests == state' = state /\ view' = view /\ verdict' = verdict
SamePassed == Passed' = Passed

Progressed ==
    /\ ReaderRests /\ gone' = gone /\ SamePassed
    /\ child.at \in {"load", "files"} /\ child'.at \in {"files", "file"}
    /\ \E l \in Messages : l.kind \in ScanTransient /\ Out(l)

HandledAs(i, f) ==
    \/ i \in Are("infected") /\ Out(Named("found", f))
    \/ i \in Are("clean") /\ task.infectedOnly /\ Silent
    \/ i \in Are("clean") /\ ~task.infectedOnly /\ Out(Named("ok", f))
    \/ i \in Are("locked") /\ Err(Named("error", f))
    \/ i \notin Scanned \cup Are("locked") /\ (Silent \/ Out(Named("excluded", f)))
Handled ==
    /\ ReaderRests /\ gone' = gone
    /\ child.at \in {"files", "file"} /\ child'.at \in {"files", "remove"}
    /\ child.i \in 1 .. Len(Files) /\ child.i \notin Passed
    /\ Passed' = Passed \cup {child.i}
    /\ HandledAs(child.i, Files[child.i])

Removed ==
    /\ ReaderRests /\ Silent /\ SamePassed
    /\ gone \subseteq gone'
    /\ child.at = "remove" /\ child'.at = "files"

Totals ==
    /\ ReaderRests /\ gone' = gone /\ SamePassed
    /\ child.i > Len(Files)
    /\ \/ /\ child.at = "files" /\ child'.at = "infected"
          /\ Out(Number("scannedfiles", NumScanned))
       \/ /\ child.at = "infected" /\ child'.at \in {"errors", "note"}
          /\ Out(Number("infectedfiles", NumInfected))
       \/ /\ child.at \in {"errors", "note"} /\ child'.at \in {"note", "exit"}
          /\ \E l \in Messages : l.kind \in {"errorcount", "note"} /\ Out(l)

Left ==
    /\ ReaderRests /\ gone' = gone /\ Silent
    /\ \/ child.at = "exit" /\ child'.at = "ended" /\ SamePassed
       \/ child'.at = "killed"

Shows ==
    /\ verdict' = verdict /\ view'.box = view.box /\ view'.bar = view.bar
Rested ==
    /\ state' = state /\ gone' = gone /\ Silent /\ child' = child
    /\ Shows \/ (onScanFinished /\ verdict' = Verdict(child.n)
                   /\ view'.box = FinalBox(Verdict(child.n)))

Gets == (onOutput \/ onError) /\ RestSame

ScanStep ==
    /\ task' = task /\ Onward
    /\ Progressed \/ Handled \/ Removed \/ Totals \/ Left \/ Rested \/ Gets

(* What depends on the task only stays as it is.                           *)
LEMMA TaskStays ==
    ASSUME task' = task
    PROVE  /\ Files' = Files /\ IsUpdate' = IsUpdate /\ IsDialog' = IsDialog
           /\ Are("clean")' = Are("clean") /\ Are("infected")' = Are("infected")
           /\ Are("locked")' = Are("locked") /\ Scanned' = Scanned
           /\ NumInfected' = NumInfected /\ NumScanned' = NumScanned
           /\ NumLocked' = NumLocked
           /\ enumScanTargets(task)' = enumScanTargets(task)
BY DEF Files, IsUpdate, IsDialog, Are, Scanned, NumInfected, NumScanned,
   NumLocked

(* Files are of one kind.                                                  *)
LEMMA KindsApart ==
    /\ Are("clean") \cap Are("infected") = {} /\ Are("clean") \cap Are("locked") = {}
    /\ Are("infected") \cap Are("locked") = {}
BY DEF Are

(* What passing a file does to the files passed.                           *)
LEMMA PassedMoves ==
    ASSUME ReportAssumption, BaseInv
    PROVE  /\ child.at \in {"files", "file"} /\ child'.i = child.i /\ child'.at = "remove" =>
                /\ Passed' = Passed \cup {child.i} /\ child.i \notin Passed
           /\ child.at \in {"files", "file"} /\ child'.i = child.i + 1 /\ child'.at = "files" =>
                /\ Passed' = Passed \cup {child.i} /\ child.i \notin Passed
           /\ child.at = "remove" /\ child'.i = child.i + 1 /\ child'.at = "files" => SamePassed
           /\ child.at # "remove" /\ child'.i = child.i /\ child'.at # "remove" => SamePassed
<1>1. child.i \in Nat \ {0}
  <2>1. child \in Children
    BY DEF BaseInv, TypeInv
  <2> QED
    BY <2>1 DEF Children
<1> DEFINE n == child.i
<1>2. 1 .. ((n + 1) - 1) = (1 .. (n - 1)) \cup {n} /\ n \notin 1 .. (n - 1)
  BY <1>1
<1>3. CASE child.at \in {"files", "file"} /\ child'.i = child.i /\ child'.at = "remove"
  BY <1>2, <1>3 DEF Passed
<1>4. CASE child.at \in {"files", "file"} /\ child'.i = child.i + 1 /\ child'.at = "files"
  BY <1>2, <1>4 DEF Passed
<1>5. CASE child.at = "remove" /\ child'.i = child.i + 1 /\ child'.at = "files"
  BY <1>2, <1>5 DEF Passed, SamePassed
<1>6. CASE child.at # "remove" /\ child'.i = child.i /\ child'.at # "remove"
  BY <1>1, <1>6 DEF Passed, SamePassed
<1> QED
  BY <1>3, <1>4, <1>5, <1>6

(* What a running scan cannot have done yet.                               *)
LEMMA OnwardWhenAlive ==
    ASSUME child.at \notin Summed \cup Ended
    PROVE  Onward
BY DEF Onward, Late, Summed, Ended

(* clamscan's steps file by file.                                          *)
LEMMA FileSteps ==
    ASSUME ReportAssumption, BaseInv, ~IsUpdate,
           LoadDatabase \/ ShowPercent \/ ScanFile \/ RemoveFile
    PROVE  ScanStep
<1>0. child \in Children
  BY DEF BaseInv, TypeInv
<1>1. CASE LoadDatabase
  <2>1. /\ child.at = "load" /\ At("files") /\ Prints(Ratio("sigs", 1, 2))
        /\ UNCHANGED <<reader, gone, fetched>>
    BY <1>1 DEF LoadDatabase
  <2>2. child'.at = "files" /\ child'.i = child.i
    BY <1>0, <2>1, AtMoves DEF ScanPlaces
  <2>3. SamePassed
    BY <2>1, <2>2, PassedMoves
  <2>4. Onward
    BY <2>1, OnwardWhenAlive DEF Summed, Ended
  <2>5. "sigs" \in Kinds /\ "sigs" \in ScanTransient
    BY LineKinds DEF ScanTransient, DbProgress
  <2>6. Ratio("sigs", 1, 2) \in Messages /\ Ratio("sigs", 1, 2).kind = "sigs"
    BY <2>5, MessagesAre
  <2>7. Progressed
    BY <2>1, <2>2, <2>3, <2>5, <2>6, PrintIsOut DEF Progressed, ReaderRests,
       reader
  <2> QED
    BY <2>1, <2>4, <2>7 DEF ScanStep, reader
<1>2. CASE ShowPercent
  <2>1. /\ child.at = "files" /\ child.i <= Len(Files) /\ At("file")
        /\ Prints(Named("percent", Current)) /\ UNCHANGED <<reader, gone, fetched>>
    BY <1>2 DEF ShowPercent
  <2>2. child'.at = "file" /\ child'.i = child.i
    BY <1>0, <2>1, AtMoves DEF ScanPlaces
  <2>3. SamePassed
    BY <2>1, <2>2, PassedMoves
  <2>4. Onward
    BY <2>1, OnwardWhenAlive DEF Summed, Ended
  <2>5. "percent" \in Kinds /\ "percent" \in ScanTransient
    BY LineKinds DEF ScanTransient, FileProgress
  <2>6. Current \in Names
    BY <2>1, FileNames
  <2>7. Named("percent", Current) \in Messages /\ Named("percent", Current).kind = "percent"
    BY <2>5, <2>6, MessagesAre
  <2>8. Progressed
    BY <2>1, <2>2, <2>3, <2>5, <2>7, PrintIsOut DEF Progressed, ReaderRests,
       reader
  <2> QED
    BY <2>1, <2>4, <2>8 DEF ScanStep, reader
<1>3. CASE ScanFile
  <2>1. /\ child.at \in {"files", "file"} /\ child.i <= Len(Files)
        /\ UNCHANGED <<reader, gone, fetched>>
        /\ At("remove") \/ NextFile
    BY <1>3 DEF ScanFile
  <2>2. /\ child.i \in 1 .. Len(Files) /\ DOMAIN Files = 1 .. Len(Files)
        /\ Current = Files[child.i]
        /\ Files[child.i].is \in {"clean", "infected", "locked"}
    BY <2>1, FileNames, FilesAre DEF Current
  <2>3. /\ child'.at \in {"files", "remove"} /\ Passed' = Passed \cup {child.i}
        /\ child.i \notin Passed
    <3>1. CASE At("remove")
      <4>1. child'.at = "remove" /\ child'.i = child.i
        BY <1>0, <3>1, AtMoves DEF ScanPlaces
      <4> QED
        BY <2>1, <4>1, PassedMoves
    <3>2. CASE NextFile
      <4>1. child'.at = "files" /\ child'.i = child.i + 1
        BY <1>0, <3>2, NextFileMoves
      <4> QED
        BY <2>1, <4>1, PassedMoves
    <3> QED
      BY <2>1, <3>1, <3>2
  <2>4. Onward
    BY <2>1, OnwardWhenAlive DEF Summed, Ended
  <2>5. \A k : child.i \in Are(k) <=> (Scans(task, Current) /\ Current.is = k)
    BY <2>2 DEF Are
  <2>6. HandledAs(child.i, Current)
    <3>1. \/ Scans(task, Current) /\ Current.is = "infected" /\ Prints(Named("found", Current))
          \/ /\ Scans(task, Current) /\ Current.is = "clean"
             /\ IF task.infectedOnly THEN Silent ELSE Prints(Named("ok", Current))
          \/ /\ Scans(task, Current) /\ Current.is = "locked"
             /\ PrintError(Named("error", Current))
          \/ /\ ~Scans(task, Current)
             /\ Silent \/ Prints(Named("excluded", Current))
      <4>1. Options.infectedOnly = task.infectedOnly
        BY DEF Options, buildClamscanCommand
      <4>2. ~Reaches(task, Current) => ~Scans(task, Current)
        BY DEF Scans
      <4> QED
        BY <1>3, <4>1, <4>2 DEF ScanFile
    <3>2. /\ Prints(Named("found", Current)) => Out(Named("found", Current))
          /\ Prints(Named("ok", Current)) => Out(Named("ok", Current))
          /\ Prints(Named("excluded", Current)) => Out(Named("excluded", Current))
          /\ PrintError(Named("error", Current)) => Err(Named("error", Current))
      BY PrintIsOut
    <3>3. ~Scans(task, Current) => child.i \notin Scanned \cup Are("locked")
      BY <2>5 DEF Scanned
    <3> QED
      BY <2>5, <3>1, <3>2, <3>3 DEF HandledAs
  <2>7. Handled
    BY <2>1, <2>2, <2>3, <2>6 DEF Handled, ReaderRests, reader
  <2> QED
    BY <2>1, <2>4, <2>7 DEF ScanStep, reader
<1>4. CASE RemoveFile
  <2>1. /\ child.at = "remove" /\ gone' = gone \cup {Current} /\ NextFile
        /\ UNCHANGED <<reader, outp, errp, fetched>>
    BY <1>4 DEF RemoveFile
  <2>2. child'.at = "files" /\ child'.i = child.i + 1
    BY <1>0, <2>1, NextFileMoves
  <2>3. SamePassed
    BY <2>1, <2>2, PassedMoves
  <2>4. Onward
    BY <2>1, OnwardWhenAlive DEF Summed, Ended
  <2>5. Removed
    BY <2>1, <2>2, <2>3 DEF Removed, ReaderRests, Silent, reader
  <2> QED
    BY <2>1, <2>4, <2>5 DEF ScanStep, reader
<1> QED
  BY <1>1, <1>2, <1>3, <1>4

(* clamscan's summary and end, and the user's.                             *)
LEMMA EndSteps ==
    ASSUME ReportAssumption, BaseInv, ~IsUpdate, Summarise \/ Exit \/ Cancel
    PROVE  ScanStep
<1>0. child \in Children /\ ChildOK(child)
  BY DEF BaseInv, TypeInv, ChildInv
<1>1. CASE Summarise
  <2>1. /\ child.at \in {"files", "infected", "errors", "note"}
        /\ UNCHANGED <<reader, gone, fetched>>
        /\ child.at = "files" => child.i > Len(Files) /\ At("infected")
              /\ Prints(Number("scannedfiles", NumScanned))
        /\ child.at = "infected" => (At("errors") \/ At("note"))
              /\ Prints(Number("infectedfiles", NumInfected))
        /\ child.at = "errors" => At("note") /\ Prints(Number("errorcount", NumLocked))
        /\ child.at = "note" => At("exit") /\ Prints(Line("note"))
    BY <1>1 DEF Summarise
  <2>2. child.i > Len(Files)
    BY <1>0, <2>1 DEF ChildOK, Summed
  <2>3. /\ child'.i = child.i
        /\ child.at = "files" => child'.at = "infected"
        /\ child.at = "infected" => child'.at \in {"errors", "note"}
        /\ child.at = "errors" => child'.at = "note"
        /\ child.at = "note" => child'.at = "exit"
    BY <1>0, <2>1, AtMoves DEF ScanPlaces, Summed
  <2>4. SamePassed
    BY <2>1, <2>3, PassedMoves
  <2>5. Onward
    BY <2>1, <2>3 DEF Onward, Late, Summed
  <2>6. Number("errorcount", NumLocked) \in Messages /\ Line("note") \in Messages
        /\ Number("errorcount", NumLocked).kind = "errorcount" /\ Line("note").kind = "note"
    <3>1. IsFiniteSet(Are("locked"))
      BY FilesAre
    <3>2. NumLocked \in Nat
      BY <3>1, FS_CardinalityType DEF NumLocked
    <3>3. "errorcount" \in Kinds /\ "note" \in Kinds
      BY LineKinds
    <3> QED
      BY <3>2, <3>3, MessagesAre
  <2>7. Totals
    BY <2>1, <2>2, <2>3, <2>4, <2>6, PrintIsOut DEF Totals, ReaderRests, reader
  <2> QED
    BY <2>1, <2>5, <2>7 DEF ScanStep, reader
<1>2. CASE Exit
  <2>1. child.at = "exit" /\ UNCHANGED <<reader, outp, errp, gone, fetched>>
        /\ \E c : child' = [child EXCEPT !.at = "ended", !.n = c]
    BY <1>2 DEF Exit
  <2>2. child'.at = "ended" /\ child'.i = child.i
    BY <1>0, <2>1 DEF Children
  <2>3. SamePassed
    BY <2>1, <2>2, PassedMoves
  <2>4. Onward
    BY <2>1, <2>2 DEF Onward, Late, Summed
  <2>5. Left
    BY <2>1, <2>2, <2>3 DEF Left, ReaderRests, Silent, reader
  <2> QED
    BY <2>1, <2>4, <2>5 DEF ScanStep, reader
<1>3. CASE Cancel
  <2>1. /\ child' = IF child.at \in Ended THEN child
                    ELSE [child EXCEPT !.at = "killed", !.n = 1]
        /\ UNCHANGED <<task, outp, errp, state, view, verdict, code, balloon, gone, fetched>>
    BY <1>3 DEF Cancel
  <2>2. CASE child.at \in Ended
    <3>1. child' = child
      BY <2>1, <2>2
    <3>2. Onward
      BY <3>1 DEF Onward
    <3>3. Rested
      BY <2>1, <3>1 DEF Rested, Shows, Silent
    <3> QED
      BY <2>1, <3>2, <3>3 DEF ScanStep
  <2>3. CASE child.at \notin Ended
    <3>1. child'.at = "killed"
      BY <1>0, <2>1, <2>3 DEF Children
    <3>2. Onward
      BY <3>1 DEF Onward, Late
    <3>3. Left
      BY <2>1, <3>1 DEF Left, ReaderRests, Silent
    <3> QED
      BY <2>1, <3>2, <3>3 DEF ScanStep
  <2> QED
    BY <2>2, <2>3
<1> QED
  BY <1>1, <1>2, <1>3

(* Every step while a scan runs is of one of these kinds.                  *)
LEMMA ScanSteps ==
    ASSUME ReportAssumption, BaseInv, ~IsUpdate, [Next]_vars
    PROVE  ScanStep
<1>0. child.at \in ScanPlaces
  BY DEF BaseInv, ChildInv, ChildOK
<1>1. CASE Tool
  <2>1. child.at \notin {"db", "fetch", "test", "install"}
    BY <1>0 DEF ScanPlaces, Summed
  <2>2. ~(CheckDatabase \/ Download \/ ServerFails \/ Install \/ Refuse \/ ToolMissing)
    BY <2>1 DEF CheckDatabase, Download, ServerFails, Install, Refuse,
       ToolMissing
  <2> QED
    BY <1>1, <2>2, FileSteps, EndSteps DEF Tool
<1>2. CASE onOutput \/ onError
  <2>1. RestSame
    BY <1>2 DEF onOutput, onError, Handle, RestSame
  <2>2. Gets /\ Onward /\ task' = task
    BY <1>2, <2>1 DEF Gets, Onward, RestSame
  <2> QED
    BY <2>2 DEF ScanStep
<1>3. CASE Cancel
  BY <1>3, EndSteps
<1>4. CASE \/ ShowEnumerated \/ Close \/ onBgTaskFinished \/ UNCHANGED vars
  <2>1. /\ task' = task /\ child' = child /\ outp' = outp /\ errp' = errp
        /\ state' = state /\ gone' = gone /\ verdict' = verdict
    BY <1>4 DEF ShowEnumerated, Close, onBgTaskFinished, vars, tool
  <2>2. view'.box = view.box /\ view'.bar = view.bar
    <3>1. CASE ShowEnumerated
      <4>1. view' = [view EXCEPT !.status = "enumerated"] /\ view \in Views
        BY <3>1 DEF ShowEnumerated, BaseInv, TypeInv
      <4> QED
        BY <4>1 DEF Views
    <3>2. CASE ~ShowEnumerated
      BY <1>4, <3>2 DEF Close, onBgTaskFinished, vars
    <3> QED
      BY <3>1, <3>2
  <2>3. Rested /\ Onward
    BY <2>1, <2>2 DEF Rested, Shows, Silent, Onward
  <2> QED
    BY <2>1, <2>3 DEF ScanStep
<1>5. CASE onScanFinished
  <2>1. /\ task' = task /\ child' = child /\ outp' = outp /\ errp' = errp
        /\ state' = state /\ gone' = gone
    BY <1>5 DEF onScanFinished, tool
  <2>2. verdict' = Verdict(child.n) /\ view'.box = FinalBox(Verdict(child.n))
    BY <1>5, FinishedBase
  <2>3. Rested /\ Onward
    BY <1>5, <2>1, <2>2 DEF Rested, Silent, Onward
  <2> QED
    BY <2>1, <2>3 DEF ScanStep
<1> QED
  BY <1>1, <1>2, <1>3, <1>4, <1>5 DEF Next, Reader

-----------------------------------------------------------------------------
(* What is counted beforehand does not change.                             *)
ExpectedInv ==
    /\ state.expectedFiles = Cardinality(enumScanTargets(task))
    /\ state.expectedBytes = SizeOf(Files, enumScanTargets(task))

(* Threats: those counted and those in the pipe.                           *)
ThreatLines == {"found", "infectedfiles"}
ThreatsInv ==
    /\ state.threats + Count(outp, {"found"}) <= NumInfected
    /\ child.at # "killed" =>
          state.threats + Count(outp, {"found"}) = Cardinality(Are("infected") \cap Passed)
    /\ Has(outp, {"infectedfiles"}) => child.at \in Late
    /\ Says(outp, "infectedfiles", NumInfected)
    /\ NoneAfter(outp, "infectedfiles", {"found"})

(* Files: those counted and those in the pipe, and the summary's.          *)
FileLines == Counted \cup {"scannedfiles"}
FilesInv ==
    /\ Has(outp, {"scannedfiles"}) => child.at \in Summed \cup {"killed"}
    /\ Says(outp, "scannedfiles", NumScanned)
    /\ NoneAfter(outp, "scannedfiles", Counted)
    /\ child.at \in Summed =>
          Has(outp, {"scannedfiles"}) \/ (state.files = NumScanned /\ ~Has(outp, Counted))
CompletedInv ==
    child.at # "killed" /\ ~task.infectedOnly =>
        state.completed + Count(outp, Counted) = Cardinality(Scanned \cap Passed)

(* A step tells nothing of some kinds if it leaves the output as it is or  *)
(* adds a line of another kind.                                            *)
TellsNo(kinds) ==
    outp' = outp \/ \E l \in Messages : l.kind \notin kinds /\ outp' = Append(outp, l)

(* Who tells nothing of some kinds tells nothing of fewer.                 *)
LEMMA TellsNoLess ==
    ASSUME NEW K, NEW L, L \subseteq K, TellsNo(K)
    PROVE  TellsNo(L)
BY DEF TellsNo

(* The count stays as it is.                                               *)
LEMMA TellsNoCount ==
    ASSUME outp \in Seq(Messages), NEW K, TellsNo(K)
    PROVE  Count(outp', K) = Count(outp, K) /\ Count(outp, K) \in Nat
<1>1. Count(outp, K) \in Nat
  <2>1. CASE outp = <<>>
    BY <2>1, CountEmpty
  <2>2. CASE outp # <<>>
    <3> DEFINE n == Count(Tail(outp), K)
    <3>1. n \in Nat /\ Count(outp, K) = n + IF outp[1].kind \in K THEN 1 ELSE 0
      BY <2>2, CountTail
    <3> HIDE DEF n
    <3> QED
      BY <3>1
  <2> QED
    BY <2>1, <2>2
<1>2. CASE outp' = outp
  BY <1>1, <1>2
<1>3. ASSUME NEW l \in Messages, l.kind \notin K, outp' = Append(outp, l)
      PROVE  Count(outp', K) = Count(outp, K)
  <2>1. Count(Append(outp, l), K) = Count(outp, K) + 0
    BY <1>3, CountAppend
  <2> QED
    BY <1>1, <1>3, <2>1
<1> QED
  BY <1>1, <1>2, <1>3 DEF TellsNo

(* Which kinds are in the pipe stays as it is.                             *)
LEMMA TellsNoHas ==
    ASSUME outp \in Seq(Messages), NEW K, TellsNo(K)
    PROVE  Has(outp', K) <=> Has(outp, K)
<1>1. ASSUME NEW l \in Messages, l.kind \notin K, outp' = Append(outp, l)
      PROVE  Has(outp', K) <=> Has(outp, K)
  <2>1. Has(Append(outp, l), K) <=> Has(outp, K)
    BY <1>1, HasAppend
  <2> QED
    BY <1>1, <2>1
<1> QED
  BY <1>1 DEF TellsNo

(* The numbers in the pipe stay as they are.                               *)
LEMMA TellsNoSays ==
    ASSUME outp \in Seq(Messages), NEW k, TellsNo({k}), NEW n, Says(outp, k, n)
    PROVE  Says(outp', k, n)
<1>1. ASSUME NEW l \in Messages, l.kind \notin {k}, outp' = Append(outp, l)
      PROVE  Says(outp', k, n)
  <2>1. Says(Append(outp, l), k, n)
    BY <1>1, SaysAppend
  <2> QED
    BY <1>1, <2>1
<1> QED
  BY <1>1 DEF TellsNo

(* The order in the pipe stays as it is.                                   *)
LEMMA TellsNoAfter ==
    ASSUME outp \in Seq(Messages), NEW k, NEW K, TellsNo(K), NoneAfter(outp, k, K)
    PROVE  NoneAfter(outp', k, K)
<1>1. ASSUME NEW l \in Messages, l.kind \notin K, outp' = Append(outp, l)
      PROVE  NoneAfter(outp', k, K)
  <2>1. NoneAfter(Append(outp, l), k, K)
    BY <1>1, NoneAfterAppend
  <2> QED
    BY <1>1, <2>1
<1> QED
  BY <1>1 DEF TellsNo

(* A line of another kind than some.                                       *)
LEMMA OutTellsNo ==
    ASSUME NEW K, NEW l \in Messages, l.kind \notin K, Out(l)
    PROVE  TellsNo(K)
BY DEF TellsNo, Out

(* Silence and an error tell nothing on the output.                        *)
LEMMA NothingTold ==
    ASSUME NEW K, Silent \/ \E l : Err(l)
    PROVE  TellsNo(K)
BY DEF TellsNo, Silent, Err

(* A set of files, before and after a file was passed.                     *)
LEMMA OneMorePassed ==
    ASSUME ReportAssumption, BaseInv, NEW S, S \subseteq 1 .. Len(Files),
           Passed' = Passed \cup {child.i}, child.i \notin Passed
    PROVE  /\ Cardinality(S \cap Passed) \in Nat
           /\ Cardinality(S \cap Passed') =
                Cardinality(S \cap Passed) + IF child.i \in S THEN 1 ELSE 0
<1>1. IsFiniteSet(1 .. Len(Files))
  BY FilesAre, FS_Interval
<1>2. IsFiniteSet(S)
  BY <1>1, FS_Subset
<1> QED
  BY <1>2, OnePassed

(* Of a set of files, no more are passed than there are.                   *)
LEMMA PassedCount ==
    ASSUME ReportAssumption, BaseInv, NEW S, S \subseteq 1 .. Len(Files)
    PROVE  /\ IsFiniteSet(S) /\ Cardinality(S) \in Nat
           /\ Cardinality(S \cap Passed) \in Nat
           /\ Cardinality(S \cap Passed) <= Cardinality(S)
<1>1. IsFiniteSet(1 .. Len(Files))
  BY FilesAre, FS_Interval
<1>2. IsFiniteSet(S) /\ IsFiniteSet(S \cap Passed)
  BY <1>1, FS_Subset
<1> QED
  BY <1>2, FS_CardinalityType, FS_Subset

-----------------------------------------------------------------------------
(* Steps that say nothing of threats keep the count of threats.            *)
LEMMA ThreatsQuiet ==
    ASSUME ReportAssumption, BaseInv, ThreatsInv, task' = task, Onward,
           TellsNo(ThreatLines), state'.threats = state.threats,
           child'.at # "killed" =>
               Cardinality(Are("infected") \cap Passed') =
                   Cardinality(Are("infected") \cap Passed)
    PROVE  ThreatsInv'
<1>1. outp \in Seq(Messages)
  BY DEF BaseInv, TypeInv
<1>2. TellsNo({"found"}) /\ TellsNo({"infectedfiles"})
  BY TellsNoLess DEF ThreatLines
<1>3. /\ Count(outp', {"found"}) = Count(outp, {"found"})
      /\ Has(outp', {"infectedfiles"}) <=> Has(outp, {"infectedfiles"})
      /\ Says(outp', "infectedfiles", NumInfected)
      /\ NoneAfter(outp', "infectedfiles", {"found"})
  BY <1>1, <1>2, TellsNoCount, TellsNoHas, TellsNoSays, TellsNoAfter DEF
     ThreatsInv
<1>4. NumInfected' = NumInfected /\ Are("infected")' = Are("infected")
  BY TaskStays
<1>5. /\ child.at \in Late => child'.at \in Late
      /\ child'.at # "killed" => child.at # "killed"
  BY DEF Onward
<1> QED
  BY <1>3, <1>4, <1>5 DEF ThreatsInv

(* Passing a file keeps the count of threats: an infected one is in the    *)
(* pipe.                                                                   *)
LEMMA ThreatsHandled ==
    ASSUME ReportAssumption, BaseInv, ThreatsInv, task' = task, Onward, Handled
    PROVE  ThreatsInv'
<1> DEFINE i == child.i
           S == Are("infected")
<1>0. /\ outp \in Seq(Messages) /\ state'.threats = state.threats
      /\ state.threats \in Nat /\ child.at \notin Late /\ child'.at \notin Late
      /\ child.at # "killed"
  BY DEF BaseInv, TypeInv, StateOK, Handled, ReaderRests, Late
<1>1. S \subseteq 1 .. Len(Files)
  BY FilesAre
<1>2. /\ Cardinality(S \cap Passed) \in Nat
      /\ Cardinality(S \cap Passed') = Cardinality(S \cap Passed) + IF i \in S THEN 1 ELSE 0
  BY <1>1, OneMorePassed DEF Handled
<1>3. CASE i \notin S
  <2>1. Cardinality(S \cap Passed') = Cardinality(S \cap Passed)
    <3> DEFINE a == Cardinality(S \cap Passed)
               b == Cardinality(S \cap Passed')
    <3>1. a \in Nat /\ b = a + 0
      BY <1>2, <1>3
    <3> HIDE DEF a, b
    <3>2. b = a
      BY <3>1
    <3> QED
      BY <3>2 DEF a, b
  <2>2. TellsNo(ThreatLines)
    <3>1. /\ Files[i] \in Names
      <4>1. Files[i] \in FileSet
        BY FilesAre DEF Handled
      <4> QED
        BY <4>1 DEF Names
    <3>2. /\ Named("ok", Files[i]) \in Messages /\ Named("ok", Files[i]).kind = "ok"
          /\ Named("excluded", Files[i]) \in Messages
          /\ Named("excluded", Files[i]).kind = "excluded"
      BY <3>1, LineKinds, MessagesAre
    <3>3. Out(Named("ok", Files[i])) => TellsNo(ThreatLines)
      BY <3>2, OutTellsNo DEF ThreatLines
    <3>4. Out(Named("excluded", Files[i])) => TellsNo(ThreatLines)
      BY <3>2, OutTellsNo DEF ThreatLines
    <3> QED
      BY <1>3, <3>3, <3>4, NothingTold DEF Handled, HandledAs
  <2> QED
    BY <1>0, <2>1, <2>2, ThreatsQuiet
<1>4. CASE i \in S
  <2> DEFINE l == Named("found", Files[i])
  <2>1. Out(l)
    BY <1>4, KindsApart DEF Handled, HandledAs, Scanned
  <2>2. l \in Messages /\ l.kind = "found"
    <3>1. Files[i] \in FileSet
      BY FilesAre DEF Handled
    <3>2. Files[i] \in Names
      BY <3>1 DEF Names
    <3> QED
      BY <3>2, LineKinds, MessagesAre
  <2> HIDE DEF l
  <2>3. outp' = Append(outp, l)
    BY <2>1 DEF Out
  <2>4. ~Has(outp, {"infectedfiles"})
    BY <1>0 DEF ThreatsInv
  <2>5. /\ Count(outp, {"found"}) \in Nat
        /\ Count(outp', {"found"}) = Count(outp, {"found"}) + 1
    <3>1. /\ Count(outp, {"found"}) \in Nat
          /\ Count(Append(outp, l), {"found"}) =
               Count(outp, {"found"}) + IF l.kind \in {"found"} THEN 1 ELSE 0
      BY <1>0, <2>2, CountAppend
    <3> QED
      BY <2>2, <2>3, <3>1
  <2>6. ~Has(outp', {"infectedfiles"})
    <3>1. Has(Append(outp, l), {"infectedfiles"}) <=>
            Has(outp, {"infectedfiles"}) \/ l.kind \in {"infectedfiles"}
      BY <1>0, <2>2, HasAppend
    <3> QED
      BY <2>2, <2>3, <2>4, <3>1
  <2>7. Says(outp', "infectedfiles", NumInfected)
    <3>1. l.kind = "infectedfiles" => l.n = NumInfected
      BY <2>2
    <3>2. Says(Append(outp, l), "infectedfiles", NumInfected)
      BY <1>0, <2>2, <3>1, SaysAppend DEF ThreatsInv
    <3> QED
      BY <2>3, <3>2
  <2>8. NoneAfter(outp', "infectedfiles", {"found"})
    <3>1. NoneAfter(Append(outp, l), "infectedfiles", {"found"})
      BY <1>0, <2>2, <2>4, NoneAfterAppend DEF ThreatsInv
    <3> QED
      BY <2>3, <3>1
  <2>9. state'.threats + Count(outp', {"found"}) = Cardinality(S \cap Passed')
    <3>1. state.threats + Count(outp, {"found"}) = Cardinality(S \cap Passed)
      BY <1>0 DEF ThreatsInv
    <3> QED
      BY <1>0, <1>2, <1>4, <2>5, <3>1
  <2>10. Cardinality(S \cap Passed') <= NumInfected
    <3>1. IsFiniteSet(S)
      BY FilesAre
    <3>2. S \cap Passed' \subseteq S
      OBVIOUS
    <3> QED
      BY <3>1, <3>2, FS_Subset DEF NumInfected
  <2>11. NumInfected' = NumInfected /\ S' = S
    BY TaskStays
  <2> QED
    BY <2>6, <2>7, <2>8, <2>9, <2>10, <2>11 DEF ThreatsInv
<1> QED
  BY <1>3, <1>4

(* Printing the summary keeps the count of threats.                        *)
LEMMA ThreatsTotals ==
    ASSUME ReportAssumption, BaseInv, ThreatsInv, task' = task, Onward, Totals
    PROVE  ThreatsInv'
<1>0. /\ outp \in Seq(Messages) /\ state'.threats = state.threats /\ Passed' = Passed
  BY DEF BaseInv, TypeInv, Totals, ReaderRests, SamePassed
<1>n. NumScanned \in Nat /\ NumInfected \in Nat
  <2>1. IsFiniteSet(Are("infected")) /\ IsFiniteSet(Are("clean") \cup Are("infected"))
    BY FilesAre DEF Scanned
  <2> QED
    BY <2>1, FS_CardinalityType DEF NumScanned, NumInfected
<1>1. CASE TellsNo(ThreatLines)
  BY <1>0, <1>1, ThreatsQuiet
<1>2. CASE ~TellsNo(ThreatLines)
  <2> DEFINE l == Number("infectedfiles", NumInfected)
  <2>1. child.at = "infected" /\ child'.at \in {"errors", "note"} /\ Out(l)
    <3>1. Out(Number("scannedfiles", NumScanned)) => TellsNo(ThreatLines)
      <4>1. Number("scannedfiles", NumScanned) \in Messages
            /\ Number("scannedfiles", NumScanned).kind = "scannedfiles"
        BY <1>n, LineKinds, MessagesAre
      <4> QED
        BY <4>1, OutTellsNo DEF ThreatLines
    <3>2. (\E m \in Messages : m.kind \in {"errorcount", "note"} /\ Out(m)) => TellsNo(ThreatLines)
      <4>1. ASSUME NEW m \in Messages, m.kind \in {"errorcount", "note"}, Out(m)
            PROVE  TellsNo(ThreatLines)
        <5>1. m.kind \notin ThreatLines
          BY <4>1 DEF ThreatLines
        <5> QED
          BY <4>1, <5>1, OutTellsNo
      <4> QED
        BY <4>1
    <3> QED
      BY <1>2, <3>1, <3>2 DEF Totals
  <2>2. l \in Messages /\ l.kind = "infectedfiles" /\ l.n = NumInfected
    BY <1>n, LineKinds, MessagesAre
  <2> HIDE DEF l
  <2>3. outp' = Append(outp, l)
    BY <2>1 DEF Out
  <2>4. Count(outp', {"found"}) = Count(outp, {"found"})
    <3>1. TellsNo({"found"})
      BY <2>1, <2>2, OutTellsNo
    <3> QED
      BY <1>0, <3>1, TellsNoCount
  <2>5. Says(outp', "infectedfiles", NumInfected)
    <3>1. Says(Append(outp, l), "infectedfiles", NumInfected)
      BY <1>0, <2>2, SaysAppend DEF ThreatsInv
    <3> QED
      BY <2>3, <3>1
  <2>6. NoneAfter(outp', "infectedfiles", {"found"})
    <3>1. TellsNo({"found"})
      BY <2>1, <2>2, OutTellsNo
    <3> QED
      BY <1>0, <3>1, TellsNoAfter DEF ThreatsInv
  <2>7. child'.at \in Late /\ child.at # "killed"
    BY <2>1 DEF Late
  <2>8. NumInfected' = NumInfected /\ Are("infected")' = Are("infected")
    BY TaskStays
  <2> QED
    BY <1>0, <2>4, <2>5, <2>6, <2>7, <2>8 DEF ThreatsInv
<1> QED
  BY <1>1, <1>2

(* Reading keeps the count of threats, be it of a result or of the         *)
(* summary, which sets the number it would have reached.                   *)
LEMMA ThreatsRead ==
    ASSUME ReportAssumption, BaseInv, ~IsUpdate, ThreatsInv, Gets
    PROVE  ThreatsInv'
<1>0. /\ outp \in Seq(Messages) /\ StateOK(state) /\ task' = task /\ child' = child
      /\ state.threats \in Nat
  BY DEF BaseInv, TypeInv, StateOK, Gets, RestSame
<1>1. SameButErrors(state, Before)
  BY <1>0, BeforeIs
<1>2. NumInfected' = NumInfected /\ Are("infected")' = Are("infected") /\ Passed' = Passed
  BY <1>0, TaskStays DEF Passed
<1>3. CASE onError
  <2>1. PICK e : ErrorRead(errp[1], e)
    BY <1>3, ErrorIsRead
  <2>2. outp' = outp /\ state'.threats = state.threats
    BY <1>1, <2>1 DEF ErrorRead, TakesError, SameButErrors
  <2> QED
    BY <1>0, <1>2, <2>2 DEF ThreatsInv
<1>4. CASE onOutput
  <2> DEFINE l == outp[1]
  <2>1. PICK e : LineRead(l, e)
    BY <1>4, LineIsRead
  <2>2. /\ outp # <<>> /\ outp' = Tail(outp)
        /\ state'.threats = IF l.kind = "found" THEN state.threats + 1
                            ELSE IF l.kind = "infectedfiles" THEN l.n ELSE state.threats
    BY <1>1, <2>1 DEF LineRead, TakesLine, ReadsScan, SameButErrors
  <2>3. /\ Count(outp', {"found"}) \in Nat
        /\ Count(outp, {"found"}) =
             Count(outp', {"found"}) + IF l.kind = "found" THEN 1 ELSE 0
    <3>1. /\ Count(Tail(outp), {"found"}) \in Nat
          /\ Count(outp, {"found"}) =
               Count(Tail(outp), {"found"}) + IF l.kind \in {"found"} THEN 1 ELSE 0
      BY <1>0, <2>2, CountTail
    <3> QED
      BY <2>2, <3>1
  <2>4. Has(outp', {"infectedfiles"}) => Has(outp, {"infectedfiles"})
    <3>1. Has(outp, {"infectedfiles"}) <=>
            Has(Tail(outp), {"infectedfiles"}) \/ l.kind \in {"infectedfiles"}
      BY <1>0, <2>2, HasTail
    <3> QED
      BY <2>2, <3>1
  <2>5. /\ Says(outp', "infectedfiles", NumInfected)
        /\ l.kind = "infectedfiles" => l.n = NumInfected /\ Has(outp, {"infectedfiles"})
    <3>1. /\ Says(Tail(outp), "infectedfiles", NumInfected)
          /\ l.kind = "infectedfiles" => l.n = NumInfected
      BY <1>0, <2>2, SaysTail DEF ThreatsInv
    <3>2. Has(outp, {"infectedfiles"}) <=>
            Has(Tail(outp), {"infectedfiles"}) \/ l.kind \in {"infectedfiles"}
      BY <1>0, <2>2, HasTail
    <3> QED
      BY <2>2, <3>1, <3>2
  <2>6. /\ NoneAfter(outp', "infectedfiles", {"found"})
        /\ l.kind = "infectedfiles" => ~Has(outp', {"found"})
    <3>1. /\ NoneAfter(Tail(outp), "infectedfiles", {"found"})
          /\ l.kind = "infectedfiles" => ~Has(Tail(outp), {"found"})
      BY <1>0, <2>2, NoneAfterTail DEF ThreatsInv
    <3> QED
      BY <2>2, <3>1
  <2> HIDE DEF l
  <2>7. CASE l.kind # "infectedfiles"
    <3>1. state'.threats + Count(outp', {"found"}) = state.threats + Count(outp, {"found"})
      BY <1>0, <2>2, <2>3, <2>7
    <3> QED
      BY <1>0, <1>2, <2>4, <2>5, <2>6, <3>1 DEF ThreatsInv
  <2>8. CASE l.kind = "infectedfiles"
    <3>1. /\ child.at \in Late /\ Count(outp', {"found"}) = 0
          /\ state'.threats = NumInfected
      <4>1. outp' \in Seq(Messages)
        BY <1>0, <2>2
      <4> QED
        BY <2>2, <2>5, <2>6, <2>8, <4>1, CountNone DEF ThreatsInv
    <3>2. NumInfected \in Nat
      <4>1. IsFiniteSet(Are("infected"))
        BY FilesAre
      <4> QED
        BY <4>1, FS_CardinalityType DEF NumInfected
    <3>3. state'.threats + Count(outp', {"found"}) = NumInfected
      BY <3>1, <3>2
    <3>4. child.at # "killed" => Cardinality(Are("infected") \cap Passed) = NumInfected
      <4> SUFFICES ASSUME child.at # "killed"
                   PROVE  Cardinality(Are("infected") \cap Passed) = NumInfected
        OBVIOUS
      <4>1. child.at \in Summed
        BY <3>1 DEF Late, Summed
      <4>2. child.i > Len(Files)
        BY <4>1 DEF BaseInv, ChildInv, ChildOK
      <4>3. Are("infected") \cap Passed = Are("infected")
        BY <4>2, FilesAre, AllPassed
      <4> QED
        BY <4>3 DEF NumInfected
    <3>5. NumInfected <= NumInfected
      BY <3>2
    <3> QED
      BY <1>0, <1>2, <2>4, <2>5, <2>6, <3>3, <3>4, <3>5 DEF ThreatsInv
  <2> QED
    BY <2>7, <2>8
<1> QED
  BY <1>3, <1>4 DEF Gets

(* Every step of a scan keeps the count of threats.                        *)
LEMMA ThreatsStep ==
    ASSUME ReportAssumption, BaseInv, ~IsUpdate, ThreatsInv, ScanStep
    PROVE  ThreatsInv'
<1>0. task' = task /\ Onward
  BY DEF ScanStep
<1>1. CASE Progressed
  <2>1. Passed' = Passed /\ state' = state
    BY <1>1 DEF Progressed, SamePassed, ReaderRests
  <2>2. TellsNo(ThreatLines)
    <3>1. PICK l \in Messages : l.kind \in ScanTransient /\ Out(l)
      BY <1>1 DEF Progressed
    <3>2. l.kind \notin ThreatLines
      BY <3>1 DEF ThreatLines, ScanTransient, DbProgress, FileProgress
    <3> QED
      BY <3>1, <3>2, OutTellsNo
  <2> QED
    BY <1>0, <2>1, <2>2, ThreatsQuiet
<1>2. CASE Removed \/ Left \/ Rested
  <2>1. TellsNo(ThreatLines) /\ state' = state /\ (child'.at # "killed" => Passed' = Passed)
    BY <1>2, NothingTold DEF Removed, Left, Rested, SamePassed, ReaderRests,
       Passed
  <2>2. TellsNo(ThreatLines) /\ state'.threats = state.threats
        /\ (child'.at # "killed" =>
               Cardinality(Are("infected") \cap Passed') =
                   Cardinality(Are("infected") \cap Passed))
    BY <2>1
  <2> QED
    BY <1>0, <2>2, ThreatsQuiet
<1> QED
  BY <1>0, <1>1, <1>2, ThreatsHandled, ThreatsTotals, ThreatsRead DEF ScanStep

-----------------------------------------------------------------------------
(* Nothing comes after a line that is not there.                           *)
LEMMA NoneYet ==
    ASSUME NEW q, NEW k, NEW K, NEW n, ~Has(q, {k})
    PROVE  NoneAfter(q, k, K) /\ Says(q, k, n)
BY DEF Has, NoneAfter, Says

(* Steps that say nothing of files keep the count of files.                *)
LEMMA FilesQuiet ==
    ASSUME ReportAssumption, BaseInv, FilesInv, task' = task, Onward,
           TellsNo(FileLines), state'.files = state.files,
           child'.at \in Summed => child.at \in Summed
    PROVE  FilesInv'
<1>1. outp \in Seq(Messages)
  BY DEF BaseInv, TypeInv
<1>2. TellsNo({"scannedfiles"}) /\ TellsNo(Counted)
  BY TellsNoLess DEF FileLines
<1>3. /\ Has(outp', {"scannedfiles"}) <=> Has(outp, {"scannedfiles"})
      /\ Has(outp', Counted) <=> Has(outp, Counted)
      /\ Says(outp', "scannedfiles", NumScanned)
      /\ NoneAfter(outp', "scannedfiles", Counted)
  BY <1>1, <1>2, TellsNoHas, TellsNoSays, TellsNoAfter DEF FilesInv
<1>4. NumScanned' = NumScanned
  BY TaskStays
<1> QED
  BY <1>3, <1>4 DEF FilesInv, Onward

(* What is printed for a file.                                             *)
LEMMA HandledLine ==
    ASSUME ReportAssumption, BaseInv, Handled
    PROVE  /\ \A k \in {"found", "ok", "excluded", "error"} :
                /\ Named(k, Files[child.i]) \in Messages
                /\ Named(k, Files[child.i]).kind = k
                /\ Named(k, Files[child.i]).name = Files[child.i]
           /\ TellsNo({"scannedfiles"})
<1>1. Files[child.i] \in FileSet
  BY FilesAre DEF Handled
<1>2. Files[child.i] \in Names
  BY <1>1 DEF Names
<1>3. {"found", "ok", "excluded", "error"} \subseteq Kinds
  BY LineKinds
<1>4. \A k \in {"found", "ok", "excluded", "error"} :
        /\ Named(k, Files[child.i]) \in Messages
        /\ Named(k, Files[child.i]).kind = k
        /\ Named(k, Files[child.i]).name = Files[child.i]
  BY <1>2, <1>3, MessagesAre
<1>5. \A k \in {"found", "ok", "excluded"} :
        Out(Named(k, Files[child.i])) => TellsNo({"scannedfiles"})
  BY <1>4, OutTellsNo
<1>6. TellsNo({"scannedfiles"})
  BY <1>5, NothingTold DEF Handled, HandledAs
<1> QED
  BY <1>4, <1>6

(* Passing a file keeps the count of files: the summary is not there       *)
(* yet.                                                                    *)
LEMMA FilesHandled ==
    ASSUME ReportAssumption, BaseInv, FilesInv, task' = task, Onward, Handled
    PROVE  FilesInv'
<1>1. /\ child.at \notin Summed \cup {"killed"}
      /\ child'.at \notin Summed \cup {"killed"} /\ outp \in Seq(Messages)
  BY DEF Handled, Summed, BaseInv, TypeInv
<1>2. ~Has(outp, {"scannedfiles"})
  BY <1>1 DEF FilesInv
<1>3. ~Has(outp', {"scannedfiles"})
  BY <1>1, <1>2, HandledLine, TellsNoHas
<1>4. NoneAfter(outp', "scannedfiles", Counted) /\ Says(outp', "scannedfiles", NumScanned')
  BY <1>3, NoneYet
<1> QED
  BY <1>1, <1>3, <1>4 DEF FilesInv

(* The summary names no file and comes when all were passed.               *)
LEMMA TotalsTellNoFile ==
    ASSUME ReportAssumption, BaseInv, Totals
    PROVE  /\ TellsNo(Counted)
           /\ \/ TellsNo(FileLines) /\ child.at \in Summed
              \/ /\ child.at = "files" /\ child'.at = "infected"
                 /\ Number("scannedfiles", NumScanned) \in Messages
                 /\ Number("scannedfiles", NumScanned).kind = "scannedfiles"
                 /\ Number("scannedfiles", NumScanned).n = NumScanned
                 /\ Out(Number("scannedfiles", NumScanned))
<1>0. NumScanned \in Nat /\ NumInfected \in Nat
  <2>1. IsFiniteSet(Are("infected")) /\ IsFiniteSet(Are("clean") \cup Are("infected"))
    BY FilesAre DEF Scanned
  <2> QED
    BY <2>1, FS_CardinalityType DEF NumScanned, NumInfected
<1>1. CASE child.at = "files" /\ child'.at = "infected" /\ Out(Number("scannedfiles", NumScanned))
  <2>1. /\ Number("scannedfiles", NumScanned) \in Messages
        /\ Number("scannedfiles", NumScanned).kind = "scannedfiles"
        /\ Number("scannedfiles", NumScanned).n = NumScanned
    BY <1>0, LineKinds, MessagesAre
  <2>2. TellsNo(Counted)
    BY <1>1, <2>1, OutTellsNo DEF Counted
  <2> QED
    BY <1>1, <2>1, <2>2
<1>2. CASE child.at = "infected" /\ Out(Number("infectedfiles", NumInfected))
  <2>1. /\ Number("infectedfiles", NumInfected) \in Messages
        /\ Number("infectedfiles", NumInfected).kind = "infectedfiles"
    BY <1>0, LineKinds, MessagesAre
  <2>2. TellsNo(FileLines)
    BY <1>2, <2>1, OutTellsNo DEF FileLines, Counted
  <2>3. TellsNo(Counted)
    BY <2>2, TellsNoLess DEF FileLines
  <2> QED
    BY <1>2, <2>2, <2>3 DEF Summed
<1>3. CASE /\ child.at \in {"errors", "note"}
           /\ \E l \in Messages : l.kind \in {"errorcount", "note"} /\ Out(l)
  <2>1. PICK l \in Messages : l.kind \in {"errorcount", "note"} /\ Out(l)
    BY <1>3
  <2>2. l.kind \notin FileLines
    BY <2>1 DEF FileLines, Counted
  <2>3. TellsNo(FileLines)
    BY <2>1, <2>2, OutTellsNo
  <2>4. TellsNo(Counted)
    BY <2>3, TellsNoLess DEF FileLines
  <2> QED
    BY <1>3, <2>3, <2>4 DEF Summed
<1> QED
  BY <1>1, <1>2, <1>3 DEF Totals

(* Printing the summary keeps the count of files.                          *)
LEMMA FilesTotals ==
    ASSUME ReportAssumption, BaseInv, FilesInv, task' = task, Onward, Totals
    PROVE  FilesInv'
<1>0. outp \in Seq(Messages) /\ state'.files = state.files
  BY DEF BaseInv, TypeInv, Totals, ReaderRests
<1>1. CASE TellsNo(FileLines) /\ child.at \in Summed
  BY <1>0, <1>1, FilesQuiet
<1>2. CASE ~(TellsNo(FileLines) /\ child.at \in Summed)
  <2> DEFINE l == Number("scannedfiles", NumScanned)
  <2>1. /\ child.at = "files" /\ child'.at = "infected" /\ TellsNo(Counted)
        /\ l \in Messages /\ l.kind = "scannedfiles" /\ l.n = NumScanned /\ Out(l)
    BY <1>2, TotalsTellNoFile
  <2> HIDE DEF l
  <2>2. outp' = Append(outp, l)
    BY <2>1 DEF Out
  <2>3. Has(outp', {"scannedfiles"})
    <3>1. Has(Append(outp, l), {"scannedfiles"})
      BY <1>0, <2>1, HasAppend
    <3> QED
      BY <2>2, <3>1
  <2>4. Says(outp', "scannedfiles", NumScanned)
    <3>1. Says(Append(outp, l), "scannedfiles", NumScanned)
      BY <1>0, <2>1, SaysAppend DEF FilesInv
    <3> QED
      BY <2>2, <3>1
  <2>5. NoneAfter(outp', "scannedfiles", Counted)
    BY <1>0, <2>1, TellsNoAfter DEF FilesInv
  <2>6. NumScanned' = NumScanned
    BY TaskStays
  <2> QED
    BY <2>1, <2>3, <2>4, <2>5, <2>6 DEF FilesInv, Summed
<1> QED
  BY <1>1, <1>2

(* Reading keeps the count of files: no result comes after the summary.    *)
LEMMA FilesRead ==
    ASSUME ReportAssumption, BaseInv, ~IsUpdate, FilesInv, Gets
    PROVE  FilesInv'
<1>0. /\ outp \in Seq(Messages) /\ StateOK(state) /\ task' = task /\ child' = child
  BY DEF BaseInv, TypeInv, Gets, RestSame
<1>1. SameButErrors(state, Before)
  BY <1>0, BeforeIs
<1>2. NumScanned' = NumScanned
  BY <1>0, TaskStays
<1>3. CASE onError
  <2>1. PICK e : ErrorRead(errp[1], e)
    BY <1>3, ErrorIsRead
  <2>2. outp' = outp /\ state'.files = state.files
    BY <1>1, <2>1 DEF ErrorRead, TakesError, SameButErrors
  <2> QED
    BY <1>0, <1>2, <2>2 DEF FilesInv
<1>4. CASE onOutput
  <2> DEFINE l == outp[1]
  <2>1. PICK e : LineRead(l, e)
    BY <1>4, LineIsRead
  <2>2. /\ outp # <<>> /\ outp' = Tail(outp)
        /\ state'.files = IF l.kind \in Counted THEN state.completed + 1
                          ELSE IF l.kind = "scannedfiles" THEN l.n ELSE state.files
    BY <1>1, <2>1 DEF LineRead, TakesLine, ReadsScan, SameButErrors
  <2>3. /\ Has(outp, {"scannedfiles"}) <=> Has(outp', {"scannedfiles"}) \/ l.kind = "scannedfiles"
        /\ Has(outp, Counted) <=> Has(outp', Counted) \/ l.kind \in Counted
    <3>1. /\ Has(outp, {"scannedfiles"}) <=>
               Has(Tail(outp), {"scannedfiles"}) \/ l.kind \in {"scannedfiles"}
          /\ Has(outp, Counted) <=> Has(Tail(outp), Counted) \/ l.kind \in Counted
      BY <1>0, <2>2, HasTail
    <3> QED
      BY <2>2, <3>1
  <2>4. /\ Says(outp', "scannedfiles", NumScanned)
        /\ l.kind = "scannedfiles" => l.n = NumScanned
    <3>1. /\ Says(Tail(outp), "scannedfiles", NumScanned)
          /\ l.kind = "scannedfiles" => l.n = NumScanned
      BY <1>0, <2>2, SaysTail DEF FilesInv
    <3> QED
      BY <2>2, <3>1
  <2>5. /\ NoneAfter(outp', "scannedfiles", Counted)
        /\ l.kind = "scannedfiles" => ~Has(outp', Counted)
    <3>1. /\ NoneAfter(Tail(outp), "scannedfiles", Counted)
          /\ l.kind = "scannedfiles" => ~Has(Tail(outp), Counted)
      BY <1>0, <2>2, NoneAfterTail DEF FilesInv
    <3> QED
      BY <2>2, <3>1
  <2> HIDE DEF l
  <2>6. "scannedfiles" \notin Counted
    BY DEF Counted
  <2>7. child.at \in Summed =>
          Has(outp', {"scannedfiles"}) \/ (state'.files = NumScanned /\ ~Has(outp', Counted))
    BY <2>2, <2>3, <2>4, <2>5, <2>6 DEF FilesInv
  <2>8. Has(outp', {"scannedfiles"}) => child.at \in Summed \cup {"killed"}
    BY <2>3 DEF FilesInv
  <2> QED
    BY <1>0, <1>2, <2>4, <2>5, <2>7, <2>8 DEF FilesInv
<1> QED
  BY <1>3, <1>4 DEF Gets

(* Every step of a scan keeps the count of files.                          *)
LEMMA FilesStep ==
    ASSUME ReportAssumption, BaseInv, ~IsUpdate, FilesInv, ScanStep
    PROVE  FilesInv'
<1>0. task' = task /\ Onward
  BY DEF ScanStep
<1>1. CASE Progressed
  <2>1. state' = state /\ child'.at \notin Summed
    BY <1>1 DEF Progressed, ReaderRests, Summed
  <2>2. TellsNo(FileLines)
    <3>1. PICK l \in Messages : l.kind \in ScanTransient /\ Out(l)
      BY <1>1 DEF Progressed
    <3>2. l.kind \notin FileLines
      BY <3>1 DEF FileLines, Counted, ScanTransient, DbProgress, FileProgress
    <3> QED
      BY <3>1, <3>2, OutTellsNo
  <2> QED
    BY <1>0, <2>1, <2>2, FilesQuiet
<1>2. CASE Removed \/ Left \/ Rested
  <2>1. TellsNo(FileLines) /\ state' = state
    BY <1>2, NothingTold DEF Removed, Left, Rested, ReaderRests
  <2>2. child'.at \in Summed => child.at \in Summed
    BY <1>2 DEF Removed, Left, Rested, Summed
  <2> QED
    BY <1>0, <2>1, <2>2, FilesQuiet
<1> QED
  BY <1>0, <1>1, <1>2, FilesHandled, FilesTotals, FilesRead DEF ScanStep

-----------------------------------------------------------------------------
(* Files counted one by one.                                               *)
LEMMA CompletedQuiet ==
    ASSUME ReportAssumption, BaseInv, CompletedInv, task' = task, Onward,
           TellsNo(Counted), state'.completed = state.completed,
           child'.at # "killed" =>
               Cardinality(Scanned \cap Passed') = Cardinality(Scanned \cap Passed)
    PROVE  CompletedInv'
<1>1. outp \in Seq(Messages)
  BY DEF BaseInv, TypeInv
<1>2. Count(outp', Counted) = Count(outp, Counted)
  BY <1>1, TellsNoCount
<1>3. Scanned' = Scanned
  BY TaskStays
<1>4. child'.at # "killed" => child.at # "killed"
  BY DEF Onward
<1> QED
  BY <1>2, <1>3, <1>4 DEF CompletedInv

(* Passing a file keeps the count of results: it is in the pipe.           *)
LEMMA CompletedHandled ==
    ASSUME ReportAssumption, BaseInv, CompletedInv, task' = task, Onward, Handled
    PROVE  CompletedInv'
<1> DEFINE i == child.i
           S == Scanned
<1>0. /\ outp \in Seq(Messages) /\ state'.completed = state.completed
      /\ state.completed \in Nat /\ child.at # "killed"
  BY DEF BaseInv, TypeInv, StateOK, Handled, ReaderRests
<1>1. S \subseteq 1 .. Len(Files)
  BY FilesAre
<1>2. /\ Cardinality(S \cap Passed) \in Nat
      /\ Cardinality(S \cap Passed') = Cardinality(S \cap Passed) + IF i \in S THEN 1 ELSE 0
  BY <1>1, OneMorePassed DEF Handled
<1> SUFFICES ASSUME ~task.infectedOnly
             PROVE  state'.completed + Count(outp', Counted) = Cardinality(S \cap Passed')
  <2>1. Scanned' = Scanned
    BY TaskStays
  <2> QED
    BY <2>1 DEF CompletedInv
<1>3. state.completed + Count(outp, Counted) = Cardinality(S \cap Passed)
  BY <1>0 DEF CompletedInv
<1>4. CASE i \in S
  <2>1. PICK k \in {"found", "ok"} : Out(Named(k, Files[i]))
    BY <1>4, KindsApart DEF Handled, HandledAs, Scanned
  <2> DEFINE l == Named(k, Files[i])
  <2>2. l \in Messages /\ l.kind = k /\ Out(l)
    BY <2>1, HandledLine
  <2>3. l.kind \in Counted
    BY <2>1, <2>2 DEF Counted
  <2> HIDE DEF l
  <2>4. outp' = Append(outp, l)
    BY <2>2 DEF Out
  <2>5. /\ Count(outp, Counted) \in Nat
        /\ Count(Append(outp, l), Counted) = Count(outp, Counted) + 1
    BY <1>0, <2>2, <2>3, CountAppend
  <2>6. Count(outp', Counted) = Count(outp, Counted) + 1
    BY <2>4, <2>5
  <2> QED
    BY <1>0, <1>2, <1>3, <1>4, <2>5, <2>6
<1>5. CASE i \notin S
  <2>1. TellsNo(Counted)
    <3>1. Out(Named("excluded", Files[i])) => TellsNo(Counted)
      BY HandledLine, OutTellsNo DEF Counted
    <3> QED
      BY <1>5, <3>1, NothingTold DEF Handled, HandledAs, Scanned
  <2>2. Count(outp', Counted) = Count(outp, Counted) /\ Count(outp, Counted) \in Nat
    BY <1>0, <2>1, TellsNoCount
  <2> QED
    BY <1>0, <1>2, <1>3, <1>5, <2>2
<1> QED
  BY <1>4, <1>5

(* Reading a line keeps the count of results.                              *)
LEMMA CompletedRead ==
    ASSUME ReportAssumption, BaseInv, ~IsUpdate, CompletedInv, Gets
    PROVE  CompletedInv'
<1>0. /\ outp \in Seq(Messages) /\ StateOK(state) /\ task' = task /\ child' = child
      /\ state.completed \in Nat
  BY DEF BaseInv, TypeInv, StateOK, Gets, RestSame
<1>1. SameButErrors(state, Before)
  BY <1>0, BeforeIs
<1>2. Scanned' = Scanned /\ Passed' = Passed
  BY <1>0, TaskStays DEF Passed
<1>3. CASE onError
  <2>1. PICK e : ErrorRead(errp[1], e)
    BY <1>3, ErrorIsRead
  <2>2. outp' = outp /\ state'.completed = state.completed
    BY <1>1, <2>1 DEF ErrorRead, TakesError, SameButErrors
  <2> QED
    BY <1>0, <1>2, <2>2 DEF CompletedInv
<1>4. CASE onOutput
  <2> DEFINE l == outp[1]
  <2>1. PICK e : LineRead(l, e)
    BY <1>4, LineIsRead
  <2>2. /\ outp # <<>> /\ outp' = Tail(outp)
        /\ state'.completed = IF l.kind \in Counted THEN state.completed + 1
                              ELSE state.completed
    BY <1>1, <2>1 DEF LineRead, TakesLine, ReadsScan, SameButErrors
  <2>3. /\ Count(Tail(outp), Counted) \in Nat
        /\ Count(outp, Counted) =
             Count(Tail(outp), Counted) + IF l.kind \in Counted THEN 1 ELSE 0
    BY <1>0, <2>2, CountTail
  <2> HIDE DEF l
  <2>4. state'.completed + Count(outp', Counted) = state.completed + Count(outp, Counted)
    BY <1>0, <2>2, <2>3
  <2> QED
    BY <1>0, <1>2, <2>4 DEF CompletedInv
<1> QED
  BY <1>3, <1>4 DEF Gets

(* Every step of a scan keeps the count of results.                        *)
LEMMA CompletedStep ==
    ASSUME ReportAssumption, BaseInv, ~IsUpdate, CompletedInv, ScanStep
    PROVE  CompletedInv'
<1>0. task' = task /\ Onward
  BY DEF ScanStep
<1>1. CASE Progressed \/ Totals
  <2>1. state' = state /\ Passed' = Passed
    BY <1>1 DEF Progressed, Totals, ReaderRests, SamePassed
  <2>2. TellsNo(Counted)
    <3>1. CASE Progressed
      <4>1. PICK l \in Messages : l.kind \in ScanTransient /\ Out(l)
        BY <3>1 DEF Progressed
      <4>2. l.kind \notin Counted
        BY <4>1 DEF Counted, ScanTransient, DbProgress, FileProgress
      <4> QED
        BY <4>1, <4>2, OutTellsNo
    <3> QED
      BY <1>1, <3>1, TotalsTellNoFile
  <2> QED
    BY <1>0, <2>1, <2>2, CompletedQuiet
<1>2. CASE Removed \/ Left \/ Rested
  <2>1. TellsNo(Counted) /\ state' = state /\ (child'.at # "killed" => Passed' = Passed)
    BY <1>2, NothingTold DEF Removed, Left, Rested, SamePassed, ReaderRests,
       Passed
  <2>2. TellsNo(Counted) /\ state'.completed = state.completed
        /\ (child'.at # "killed" =>
               Cardinality(Scanned \cap Passed') = Cardinality(Scanned \cap Passed))
    BY <2>1
  <2> QED
    BY <1>0, <2>2, CompletedQuiet
<1> QED
  BY <1>0, <1>1, <1>2, CompletedHandled, CompletedRead DEF ScanStep

(* What was counted beforehand.                                            *)
LEMMA ExpectedStep ==
    ASSUME ReportAssumption, BaseInv, ~IsUpdate, ExpectedInv, ScanStep
    PROVE  ExpectedInv'
<1>0. task' = task
  BY DEF ScanStep
<1>1. Files' = Files /\ enumScanTargets(task)' = enumScanTargets(task)
  BY <1>0, TaskStays
<1>2. /\ state'.expectedFiles = state.expectedFiles
      /\ state'.expectedBytes = state.expectedBytes
  <2>1. CASE Gets
    <3>1. SameButErrors(state, Before)
      BY BeforeIs DEF BaseInv, TypeInv
    <3>2. CASE onError
      <4>1. PICK e : ErrorRead(errp[1], e)
        BY <3>2, ErrorIsRead
      <4> QED
        BY <3>1, <4>1 DEF ErrorRead, SameButErrors
    <3>3. CASE onOutput
      <4>1. PICK e : LineRead(outp[1], e)
        BY <3>3, LineIsRead
      <4> QED
        BY <3>1, <4>1 DEF LineRead, ReadsScan, SameButErrors
    <3> QED
      BY <2>1, <3>2, <3>3 DEF Gets
  <2>2. CASE ~Gets
    BY <2>2 DEF ScanStep, Progressed, Handled, Removed, Totals, Left, Rested,
       ReaderRests
  <2> QED
    BY <2>1, <2>2
<1> QED
  BY <1>1, <1>2 DEF ExpectedInv

-----------------------------------------------------------------------------
(* The bytes of the results that wait in the pipe, as they are now.        *)
Sizes == [m \in Messages |-> IF SizeNow(m) \in Nat THEN SizeNow(m) ELSE 0]
Pending == Total(Mapped(outp, Sizes))

(* The bytes read and in the pipe are of files that were passed; the bar   *)
(* is full only when the bytes expected were read.                         *)
BytesInv ==
    /\ child.at # "killed" =>
          state.bytes + Pending <= SizeOf(Files, Scanned \cap Passed)
    /\ state.ui = 100 /\ state.expectedBytes > 0 => state.bytes >= state.expectedBytes
    /\ verdict = "" /\ task.mode = "scan" => view.bar <= state.ui

(* The bytes that a line stands for when it is read.                       *)
LEMMA SizesAre ==
    /\ Sizes \in [Messages -> Nat]
    /\ \A m \in Messages : SizeNow(m) \in Nat => Sizes[m] = SizeNow(m)
    /\ \A m \in Messages : m.kind \notin Counted => Sizes[m] = 0
BY DEF Sizes, SizeNow

(* They do not change while no file is removed.                            *)
LEMMA SizesSame ==
    ASSUME gone' = gone
    PROVE  Sizes' = Sizes
BY DEF Sizes, SizeNow

(* The bytes in the pipe are a number.                                     *)
LEMMA PendingIsNat ==
    ASSUME outp \in Seq(Messages)
    PROVE  Pending \in Nat
<1>1. Mapped(outp, Sizes) \in Seq(Nat)
  BY SizesAre, MappedIs
<1> QED
  BY <1>1, TotalNat DEF Pending

(* Steps that print no result leave the bytes in the pipe as they are.     *)
LEMMA PendingQuiet ==
    ASSUME outp \in Seq(Messages), gone' = gone, TellsNo(Counted)
    PROVE  Pending' = Pending
<1>1. Sizes' = Sizes
  BY SizesSame
<1>2. CASE outp' = outp
  BY <1>1, <1>2 DEF Pending, Mapped
<1>3. ASSUME NEW l \in Messages, l.kind \notin Counted, outp' = Append(outp, l)
      PROVE  Pending' = Pending
  <2> DEFINE g == Sizes
  <2>1. g \in [Messages -> Nat] /\ g[l] = 0
    BY <1>3, SizesAre
  <2>2. Pending' = Total(Mapped(outp', g))
    BY <1>1 DEF Pending, Mapped
  <2>3. Pending = Total(Mapped(outp, g)) /\ Pending \in Nat
    BY PendingIsNat DEF Pending
  <2> HIDE DEF g
  <2>4. Total(Mapped(Append(outp, l), g)) = Total(Mapped(outp, g)) + g[l]
    BY <1>3, <2>1, MappedAppend
  <2>5. Total(Mapped(outp', g)) = Total(Mapped(Append(outp, l), g))
    BY <1>3
  <2> QED
    BY <2>1, <2>2, <2>3, <2>4, <2>5
<1> QED
  BY <1>2, <1>3 DEF TellsNo

(* A file that is removed takes its bytes with it.                         *)
LEMMA PendingRemoved ==
    ASSUME outp \in Seq(Messages), gone \subseteq gone', outp' = outp
    PROVE  Pending' <= Pending
<1> DEFINE g == Sizes
           h == Sizes'
           v == Mapped(outp, h)
           w == Mapped(outp, g)
<1>1. g \in [Messages -> Nat] /\ h \in [Messages -> Nat]
  BY SizesAre DEF Sizes
<1>2. \A m \in Messages : h[m] <= g[m]
  <2> SUFFICES ASSUME NEW m \in Messages PROVE h[m] <= g[m]
    OBVIOUS
  <2>1. SizeNow(m)' = SizeNow(m) \/ SizeNow(m)' = 0
    BY DEF SizeNow
  <2>2. /\ g[m] = IF SizeNow(m) \in Nat THEN SizeNow(m) ELSE 0
        /\ h[m] = IF SizeNow(m)' \in Nat THEN SizeNow(m)' ELSE 0
    BY DEF Sizes
  <2>3. h[m] = g[m] \/ h[m] = 0
    BY <2>1, <2>2
  <2>4. g[m] \in Nat /\ h[m] \in Nat
    BY <1>1
  <2> HIDE DEF g, h
  <2> QED
    BY <2>3, <2>4
<1>3. Pending = Total(w) /\ Pending' = Total(v)
  BY DEF Pending, Mapped
<1> HIDE DEF g, h
<1>4. /\ v \in Seq(Nat) /\ Len(v) = Len(outp) /\ \A i \in 1 .. Len(outp) : v[i] = h[outp[i]]
      /\ w \in Seq(Nat) /\ Len(w) = Len(outp) /\ \A i \in 1 .. Len(outp) : w[i] = g[outp[i]]
  BY <1>1, MappedIs
<1>5. \A i \in 1 .. Len(outp) : outp[i] \in Messages
  OBVIOUS
<1> HIDE DEF v, w
<1>6. \A i \in 1 .. Len(w) : v[i] <= w[i]
  BY <1>2, <1>4, <1>5
<1>7. Total(v) <= Total(w)
  BY <1>4, <1>6, TotalMono
<1> QED
  BY <1>3, <1>7

(* A file that was scanned adds its bytes to those of the files passed.    *)
LEMMA ScannedBytes ==
    ASSUME ReportAssumption, BaseInv, Handled
    PROVE  /\ SizeOf(Files, Scanned \cap Passed) \in Nat
           /\ SizeOf(Files, Scanned \cap Passed') =
                SizeOf(Files, Scanned \cap Passed)
                  + IF child.i \in Scanned THEN Files[child.i].size ELSE 0
           /\ Files[child.i].size \in Nat
<1> DEFINE i == child.i
<1>1. Files \in Seq(FileSet) /\ Files[i].size \in Nat /\ i \in 1 .. Len(Files)
      /\ i \notin Passed /\ Passed' = Passed \cup {i}
  BY FilesAre DEF Handled
<1>2. SizeOf(Files, Scanned \cap Passed) \in Nat
  BY <1>1, WeightsAre
<1>3. CASE i \in Scanned
  <2>1. Scanned \cap Passed' = (Scanned \cap Passed) \cup {i} /\ i \notin Scanned \cap Passed
    BY <1>1, <1>3
  <2> DEFINE S == Scanned \cap Passed
  <2>2. SizeOf(Files, S \cup {i}) = SizeOf(Files, S) + Files[i].size
    BY <1>1, <2>1, SizeOfOneMore
  <2>3. SizeOf(Files, Scanned \cap Passed') =
          SizeOf(Files, Scanned \cap Passed) + Files[i].size
    BY <2>1, <2>2
  <2> QED
    BY <1>1, <1>2, <1>3, <2>3
<1>4. CASE i \notin Scanned
  <2>1. Scanned \cap Passed' = Scanned \cap Passed
    BY <1>1, <1>4
  <2> DEFINE n == SizeOf(Files, Scanned \cap Passed)
  <2>2. SizeOf(Files, Scanned \cap Passed') = n
    BY <2>1
  <2>3. n \in Nat
    BY <1>2
  <2> HIDE DEF n
  <2>4. n = n + IF i \in Scanned THEN Files[i].size ELSE 0
    BY <1>4, <2>3
  <2> QED
    BY <1>1, <2>2, <2>3, <2>4 DEF n
<1> QED
  BY <1>3, <1>4

(* A smaller part keeps a sum within its bound.                            *)
LEMMA StillAtMost ==
    ASSUME NEW a \in Nat, NEW b \in Nat, NEW c \in Nat, NEW n \in Nat,
           a + b <= n, c <= b
    PROVE  a + c <= n
OBVIOUS

(* A bound stays one when it grows.                                        *)
LEMMA StillMore ==
    ASSUME NEW a \in Int, NEW b \in Int, NEW c \in Int, a <= b, c >= b
    PROVE  a <= c /\ c <= c
OBVIOUS

(* Steps that read nothing and pass no file keep the account of bytes.     *)
LEMMA BytesQuiet ==
    ASSUME ReportAssumption, BaseInv, BytesInv, task' = task, Onward,
           state' = state, Pending' <= Pending, Pending' \in Nat,
           verdict' = "" => verdict = "" /\ view'.bar = view.bar,
           child'.at # "killed" => Passed' = Passed
    PROVE  BytesInv'
<1>1. outp \in Seq(Messages) /\ state.bytes \in Nat
  BY DEF BaseInv, TypeInv, StateOK
<1>2. Pending \in Nat
  BY <1>1, PendingIsNat
<1>3. Scanned' = Scanned /\ Files' = Files
  BY TaskStays
<1>4. child'.at # "killed" => child.at # "killed"
  BY DEF Onward
<1>5. child'.at # "killed" =>
          state'.bytes + Pending' <= SizeOf(Files', Scanned' \cap Passed')
  <2> SUFFICES ASSUME child'.at # "killed"
               PROVE  state.bytes + Pending' <= SizeOf(Files, Scanned \cap Passed)
    BY <1>3
  <2> DEFINE n == SizeOf(Files, Scanned \cap Passed)
  <2>1. state.bytes + Pending <= n
    BY <1>4 DEF BytesInv
  <2>2. n \in Nat
    BY FilesAre, WeightsAre
  <2> HIDE DEF n
  <2>3. state.bytes + Pending' <= n
    BY <1>1, <1>2, <2>1, <2>2, StillAtMost, Zenon
  <2> QED
    BY <2>3 DEF n
<1> QED
  BY <1>5 DEF BytesInv

(* Passing a file keeps the account of bytes: they are in the pipe.        *)
LEMMA BytesHandled ==
    ASSUME ReportAssumption, BaseInv, BytesInv, task' = task, Onward, Handled
    PROVE  BytesInv'
<1> DEFINE i == child.i
           a == SizeOf(Files, Scanned \cap Passed)
           b == SizeOf(Files, Scanned \cap Passed')
           f == Files[i].size
<1>0. /\ outp \in Seq(Messages) /\ state' = state /\ view' = view /\ verdict' = verdict
      /\ gone' = gone /\ state.bytes \in Nat /\ child.at # "killed"
      /\ Pending \in Nat
  BY PendingIsNat DEF BaseInv, TypeInv, StateOK, Handled, ReaderRests
<1>1. a \in Nat /\ f \in Nat /\ b = a + IF i \in Scanned THEN f ELSE 0
  BY ScannedBytes
<1>2. state.bytes + Pending <= a
  BY <1>0 DEF BytesInv
<1>3. Pending' = Pending \/ (i \in Scanned /\ Pending' \in Nat /\ Pending' <= Pending + f)
  <2>1. CASE TellsNo(Counted)
    BY <1>0, <2>1, PendingQuiet
  <2>2. CASE ~TellsNo(Counted)
    <3>1. Out(Named("excluded", Files[i])) => TellsNo(Counted)
      BY HandledLine, OutTellsNo DEF Counted
    <3>2. PICK k \in {"found", "ok"} : Out(Named(k, Files[i])) /\ i \in Scanned
      BY <2>2, <3>1, NothingTold DEF Handled, HandledAs, Scanned
    <3> DEFINE l == Named(k, Files[i])
               g == Sizes
    <3>3. l \in Messages /\ l.kind = k /\ l.name = Files[i] /\ outp' = Append(outp, l)
      BY <3>2, HandledLine DEF Out
    <3>4. g[l] \in Nat /\ g[l] <= f /\ g \in [Messages -> Nat]
      <4>1. SizeNow(l) = f \/ SizeNow(l) = 0
        BY <3>3 DEF SizeNow
      <4>2. SizeNow(l) \in Nat /\ SizeNow(l) <= f
        <5> DEFINE x == SizeNow(l)
        <5>1. x = f \/ x = 0
          BY <4>1
        <5> HIDE DEF x, f
        <5>2. x \in Nat /\ x <= f
          BY <1>1, <5>1
        <5> QED
          BY <5>2 DEF x
      <4>3. g[l] = SizeNow(l)
        BY <3>3, <4>2, SizesAre
      <4> QED
        BY <4>2, <4>3, SizesAre
    <3>5. Pending' = Total(Mapped(outp', g))
      <4>1. Sizes' = Sizes
        BY <1>0, SizesSame
      <4> QED
        BY <4>1 DEF Pending, Mapped
    <3>6. Pending = Total(Mapped(outp, g))
      BY DEF Pending
    <3> HIDE DEF g, l
    <3>7. Total(Mapped(Append(outp, l), g)) = Total(Mapped(outp, g)) + g[l]
      BY <1>0, <3>3, <3>4, MappedAppend
    <3>8. Total(Mapped(outp', g)) = Total(Mapped(Append(outp, l), g))
      BY <3>3
    <3>9. Pending' = Pending + g[l]
      BY <3>5, <3>6, <3>7, <3>8
    <3> HIDE DEF f
    <3>10. Pending' \in Nat /\ Pending' <= Pending + f
      BY <1>0, <1>1, <3>4, <3>9
    <3> QED
      BY <3>2, <3>10
  <2> QED
    BY <2>1, <2>2
<1> HIDE DEF a, b, f
<1>4. state.bytes + Pending' <= b
  BY <1>0, <1>1, <1>2, <1>3
<1>5. Scanned' = Scanned /\ Files' = Files
  BY TaskStays
<1>6. state'.bytes + Pending' <= SizeOf(Files', Scanned' \cap Passed')
  BY <1>0, <1>4, <1>5 DEF b
<1> QED
  BY <1>0, <1>6 DEF BytesInv

(* Reading keeps the account of bytes, and the bar is full only when the   *)
(* bytes expected were read.                                               *)
LEMMA BytesRead ==
    ASSUME ReportAssumption, BaseInv, ~IsUpdate, BytesInv, Gets
    PROVE  BytesInv'
<1>0. /\ outp \in Seq(Messages) /\ StateOK(state) /\ task' = task /\ child' = child
      /\ verdict' = verdict /\ gone' = gone
      /\ state.bytes \in Nat /\ state.expectedBytes \in Nat /\ state.ui \in 0 .. 100
      /\ view.bar \in 0 .. 100
  BY DEF BaseInv, TypeInv, TypeOK, StateOK, Gets, RestSame
<1>6. \A x \in 0 .. 100 : x \in Int
  OBVIOUS
<1>5. state.ui \in Int /\ view.bar \in Int
  BY <1>0, <1>6, Zenon
<1>1. SameButErrors(state, Before)
  BY <1>0, BeforeIs
<1>2. Scanned' = Scanned /\ Passed' = Passed /\ Files' = Files /\ Sizes' = Sizes
  BY <1>0, TaskStays, SizesSame DEF Passed
<1>3. CASE onError
  <2>1. PICK e : ErrorRead(errp[1], e)
    BY <1>3, ErrorIsRead
  <2>2. /\ outp' = outp /\ state' = Before
        /\ e = Effects(TRUE, "", NoBar) /\ view' = Shown(errp[1], TRUE, e)
    BY <2>1 DEF ErrorRead, TakesError
  <2>3. /\ state'.bytes = state.bytes /\ state'.ui = state.ui
        /\ state'.expectedBytes = state.expectedBytes
    BY <1>1, <2>2 DEF SameButErrors
  <2>4. e.bar = NoBar
    BY <2>2 DEF Effects
  <2>5. view'.bar = view.bar
    BY <2>2, <2>4 DEF Shown
  <2>6. Pending' = Pending
    BY <1>2, <2>2 DEF Pending
  <2> QED
    BY <1>0, <1>2, <2>3, <2>5, <2>6 DEF BytesInv
<1>4. CASE onOutput
  <2> DEFINE l == outp[1]
             g == Sizes
             size == SizeNow(l)
  <2>1. PICK e : LineRead(l, e)
    BY <1>4, LineIsRead
  <2>2. /\ outp # <<>> /\ outp' = Tail(outp) /\ l \in Messages /\ size \in Nat
        /\ view' = Shown(l, FALSE, e) /\ ReadsScan(Before, l, size, state', e)
    BY <2>1, HeadLine DEF LineRead, TakesLine
  <2>3. /\ state'.bytes = IF l.kind \in Counted THEN state.bytes + size ELSE state.bytes
        /\ state'.expectedBytes = state.expectedBytes
        /\ state'.ui >= state.ui /\ e.bar = state'.ui /\ StateOK(state')
        /\ state'.ui = 100 /\ state.expectedBytes > 0 =>
              state.ui = 100 \/ state'.bytes >= state.expectedBytes
    BY <1>1, <2>2 DEF ReadsScan, SameButErrors
  <2>4. g \in [Messages -> Nat] /\ g[l] = IF l.kind \in Counted THEN size ELSE 0
    <3>1. g[l] = size /\ (l.kind \notin Counted => g[l] = 0)
      BY <2>2, SizesAre
    <3> QED
      BY <3>1, SizesAre
  <2>5. Pending = g[l] + Total(Mapped(Tail(outp), g))
    <3> HIDE DEF g
    <3>1. Total(Mapped(outp, g)) = g[l] + Total(Mapped(Tail(outp), g))
      BY <1>0, <2>2, <2>4, MappedTail
    <3>2. Pending = Total(Mapped(outp, g))
      BY DEF Pending, g
    <3> QED
      BY <3>1, <3>2
  <2>6. Pending' = Total(Mapped(Tail(outp), g))
    BY <1>2, <2>2 DEF Pending
  <2>7. Pending' \in Nat
    <3>1. Tail(outp) \in Seq(Messages)
      BY <1>0, <2>2
    <3> HIDE DEF g
    <3>2. Mapped(Tail(outp), g) \in Seq(Nat)
      BY <2>4, <3>1, MappedIs
    <3> QED
      BY <2>6, <3>2, TotalNat
  <2>8. state'.bytes + Pending' = state.bytes + Pending /\ state'.bytes >= state.bytes
    <3> DEFINE p == Pending'
               q == Pending
               x == g[l]
    <3>1. q = x + p /\ p \in Nat
      BY <2>5, <2>6, <2>7
    <3>2. x = IF l.kind \in Counted THEN size ELSE 0
      BY <2>4
    <3> HIDE DEF p, q, x, size
    <3>3. state'.bytes + p = state.bytes + q /\ state'.bytes >= state.bytes
      BY <1>0, <2>2, <2>3, <3>1, <3>2
    <3> QED
      BY <3>3 DEF p, q
  <2>9. child'.at # "killed" =>
          state'.bytes + Pending' <= SizeOf(Files', Scanned' \cap Passed')
    <3>1. child.at # "killed" =>
            state.bytes + Pending <= SizeOf(Files, Scanned \cap Passed)
      BY DEF BytesInv
    <3> HIDE DEF l, g, size
    <3> QED
      BY <1>0, <1>2, <2>8, <3>1
  <2>10. state'.ui = 100 /\ state'.expectedBytes > 0 =>
            state'.bytes >= state'.expectedBytes
    <3>1. state.ui = 100 /\ state.expectedBytes > 0 => state.bytes >= state.expectedBytes
      BY DEF BytesInv
    <3>2. state'.bytes \in Nat
      BY <2>3 DEF StateOK
    <3> HIDE DEF l, g, size
    <3> QED
      BY <1>0, <2>3, <2>8, <3>1, <3>2
  <2>11. verdict' = "" /\ task'.mode = "scan" => view'.bar <= state'.ui
    <3> SUFFICES ASSUME verdict = "", task.mode = "scan" PROVE view'.bar <= state'.ui
      BY <1>0
    <3>1. view.bar <= state.ui
      BY DEF BytesInv
    <3>2. view'.bar = view.bar \/ view'.bar = e.bar
      BY <2>2 DEF Shown
    <3>3. state'.ui \in 0 .. 100
      BY <2>3 DEF StateOK
    <3>4. state'.ui \in Int
      BY <1>6, <3>3, Zenon
    <3>5. state'.ui >= state.ui /\ e.bar = state'.ui
      BY <2>3
    <3> HIDE DEF l, g, size
    <3>6. view.bar <= state'.ui /\ state'.ui <= state'.ui
      BY <1>5, <3>1, <3>4, <3>5, StillMore, Zenon
    <3> QED
      BY <3>2, <3>5, <3>6, Zenon
  <2> QED
    BY <2>9, <2>10, <2>11 DEF BytesInv
<1> QED
  BY <1>3, <1>4 DEF Gets

(* Every step of a scan keeps the account of bytes.                        *)
LEMMA BytesStep ==
    ASSUME ReportAssumption, BaseInv, ~IsUpdate, BytesInv, ScanStep
    PROVE  BytesInv'
<1>0. task' = task /\ Onward /\ outp \in Seq(Messages)
  BY DEF ScanStep, BaseInv, TypeInv
<1>n. Pending \in Nat
  BY <1>0, PendingIsNat
<1>1. CASE Progressed \/ Totals
  <2>1. state' = state /\ Passed' = Passed /\ view' = view /\ verdict' = verdict
        /\ gone' = gone
    BY <1>1 DEF Progressed, Totals, ReaderRests, SamePassed
  <2>2. TellsNo(Counted)
    <3>1. CASE Progressed
      <4>1. PICK l \in Messages : l.kind \in ScanTransient /\ Out(l)
        BY <3>1 DEF Progressed
      <4>2. l.kind \notin Counted
        BY <4>1 DEF Counted, ScanTransient, DbProgress, FileProgress
      <4> QED
        BY <4>1, <4>2, OutTellsNo
    <3> QED
      BY <1>1, <3>1, TotalsTellNoFile
  <2>3. Pending' = Pending
    BY <1>0, <2>1, <2>2, PendingQuiet
  <2>4. Pending' \in Nat /\ Pending' <= Pending
    BY <1>n, <2>3
  <2> QED
    BY <1>0, <2>1, <2>4, BytesQuiet
<1>2. CASE Removed \/ Left \/ Rested
  <2>1. /\ outp' = outp /\ errp' = errp /\ state' = state /\ gone \subseteq gone'
        /\ child'.at # "killed" => Passed' = Passed
    BY <1>2 DEF Removed, Left, Rested, SamePassed, ReaderRests, Passed, Silent
  <2>2. verdict' = "" => verdict = "" /\ view'.bar = view.bar
    BY <1>2, VerdictIs DEF Removed, Left, Rested, ReaderRests, Shows
  <2>3. Pending' <= Pending /\ Pending' \in Nat
    <3>1. Mapped(outp, Sizes)' \in Seq(Nat)
      <4>1. Sizes' \in [Messages -> Nat]
        BY DEF Sizes
      <4>2. Mapped(outp, Sizes') \in Seq(Nat)
        BY <1>0, <4>1, MappedIs
      <4> QED
        BY <2>1, <4>2 DEF Mapped
    <3>2. Pending' \in Nat
      BY <3>1, TotalNat DEF Pending
    <3> QED
      BY <1>0, <2>1, <3>2, PendingRemoved
  <2> QED
    BY <1>0, <2>1, <2>2, <2>3, BytesQuiet
<1> QED
  BY <1>0, <1>1, <1>2, BytesHandled, BytesRead DEF ScanStep

-----------------------------------------------------------------------------
(* What was found or failed is on its way to the report or in it.          *)
FoundKept ==
    \A i \in Are("infected") \cap Passed :
        Named("found", Files[i]) \in Range(outp) \cup Range(view.box)
ErrorsKept ==
    \A i \in Are("locked") \cap Passed :
        Named("error", Files[i]) \in Range(errp) \cup Range(view.box)
NoTransient == \A l \in Range(view.box) : l.kind \notin ScanTransient
KeptInv ==
    /\ IsDialog /\ verdict = "" =>
          /\ child.at # "killed" => FoundKept /\ ErrorsKept
          /\ NoTransient
    /\ ReportComplete

(* reformatLog and the lines at the end leave every threat and every       *)
(* error in the report.                                                    *)
LEMMA FinishedKeeps ==
    ASSUME ReportAssumption, BaseInv, ~IsUpdate, KeptInv, task' = task, child' = child,
           onScanFinished, verdict' = Verdict(child.n),
           view'.box = FinalBox(Verdict(child.n))
    PROVE  KeptInv'
<1>1. verdict' # ""
  BY VerdictIs
<1>2. Are("infected")' = Are("infected") /\ Are("locked")' = Are("locked")
      /\ Files' = Files /\ IsUpdate' = IsUpdate
  BY TaskStays
<1> SUFFICES ASSUME Verdict(child.n) = "complete"
             PROVE  LET kept == Range(view'.box) IN
                    /\ \A i \in Are("infected") : Named("found", Files[i]) \in kept
                    /\ \A i \in Are("locked") : Named("error", Files[i]) \in kept
                    /\ \A l \in kept : l.kind \notin ScanTransient \cup {"ok"}
  BY <1>1, <1>2 DEF KeptInv, ReportComplete
<1>3. /\ IsDialog /\ verdict = "" /\ outp = <<>> /\ errp = <<>> /\ child.at \in Ended
      /\ ~cancelled
  BY DEF onScanFinished, ChildReported, Verdict
<1>4. child.at = "ended"
  BY <1>3 DEF BaseInv, ChildInv, ChildOK, ScanPlaces, Summed, Ended
<1>5. child.i > Len(Files)
  BY <1>4 DEF BaseInv, ChildInv, ChildOK, Summed
<1>6. /\ Are("infected") \cap Passed = Are("infected")
      /\ Are("locked") \cap Passed = Are("locked")
  BY <1>5, FilesAre, AllPassed
<1>7. Range(outp) = {} /\ Range(errp) = {}
  <2>1. \A i \in DOMAIN <<>> : FALSE
    OBVIOUS
  <2> QED
    BY <1>3, <2>1 DEF Range
<1>8. /\ \A i \in Are("infected") : Named("found", Files[i]) \in Range(view.box)
      /\ \A i \in Are("locked") : Named("error", Files[i]) \in Range(view.box)
      /\ NoTransient
  BY <1>3, <1>4, <1>6, <1>7 DEF KeptInv, FoundKept, ErrorsKept
<1>9. Range(view'.box) = {m \in Range(view.box) : m.kind # "ok"} \cup Range(Footer("complete"))
  <2> DEFINE p == reformatLog(view.box)
             q == Footer("complete")
  <2>1. view.box \in Seq(Messages)
    BY DEF BaseInv, TypeInv, Views
  <2>2. p \in Seq(Messages) /\ Range(p) = {m \in Range(view.box) : m.kind # "ok"}
    BY <2>1, ReformatKeeps
  <2>3. q \in Seq(Messages)
    <3>1. "complete" \in Outcomes /\ StateOK(state) /\ view \in Views
      BY DEF Outcomes, BaseInv, TypeInv
    <3> QED
      BY <3>1, FooterLines
  <2>4. view'.box = p \o q
    BY DEF FinalBox
  <2> HIDE DEF p, q
  <2>5. Range(p \o q) = Range(p) \cup Range(q)
    BY <2>2, <2>3, RangeOfBoth
  <2> QED
    BY <2>2, <2>4, <2>5 DEF q
<1>10. \A i \in Are("infected") \cup Are("locked") :
          /\ Named("found", Files[i]).kind # "ok" /\ Named("error", Files[i]).kind # "ok"
  BY DEF Named, Line
<1>11. \A l \in Range(Footer("complete")) : l.kind \notin ScanTransient \cup {"ok"}
  <2>1. "complete" \in Outcomes /\ StateOK(state) /\ view \in Views
    BY DEF Outcomes, BaseInv, TypeInv
  <2>2. \A l \in Range(Footer("complete")) : l.kind \in Footers
    BY <2>1, FooterLines
  <2>3. \A k \in Footers : k \notin ScanTransient \cup {"ok"}
    BY DEF Footers, Outcomes, ScanTransient, DbProgress, FileProgress
  <2> QED
    BY <2>2, <2>3
<1> QED
  BY <1>8, <1>9, <1>10, <1>11 DEF NoTransient

(* The tool only adds to its pipes.                                        *)
LEMMA ToolAdds ==
    ASSUME ReportAssumption, BaseInv,
           Progressed \/ Handled \/ Removed \/ Totals \/ Left
    PROVE  Range(outp) \subseteq Range(outp') /\ Range(errp) \subseteq Range(errp')
<1>0. outp \in Seq(Messages) /\ errp \in Seq(Messages)
  BY DEF BaseInv, TypeInv
<1>1. ASSUME NEW l \in Messages, Out(l)
      PROVE  Range(outp) \subseteq Range(outp') /\ Range(errp) \subseteq Range(errp')
  <2>1. Range(Append(outp, l)) = Range(outp) \cup {l}
    BY <1>0, <1>1, RangeAppend
  <2>2. outp' = Append(outp, l) /\ errp' = errp
    BY <1>1 DEF Out
  <2>3. Range(outp') = Range(outp) \cup {l} /\ Range(errp') = Range(errp)
    BY <2>1, <2>2
  <2> QED
    BY <2>3
<1>2. ASSUME NEW l \in Messages, Err(l)
      PROVE  Range(outp) \subseteq Range(outp') /\ Range(errp) \subseteq Range(errp')
  <2>1. Range(Append(errp, l)) = Range(errp) \cup {l}
    BY <1>0, <1>2, RangeAppend
  <2>2. errp' = Append(errp, l) /\ outp' = outp
    BY <1>2 DEF Err
  <2>3. Range(errp') = Range(errp) \cup {l} /\ Range(outp') = Range(outp)
    BY <2>1, <2>2
  <2> QED
    BY <2>3
<1>3. Silent => Range(outp) \subseteq Range(outp') /\ Range(errp) \subseteq Range(errp')
  BY DEF Silent
<1>4. \/ \E l \in Messages : Out(l) \/ Err(l)
      \/ Silent
  <2>1. CASE Handled
    BY <2>1, HandledLine DEF Handled, HandledAs
  <2>2. CASE Totals
    <3>1. NumScanned \in Nat /\ NumInfected \in Nat
      <4>1. IsFiniteSet(Are("infected")) /\ IsFiniteSet(Are("clean") \cup Are("infected"))
        BY FilesAre DEF Scanned
      <4> QED
        BY <4>1, FS_CardinalityType DEF NumScanned, NumInfected
    <3>2. Number("scannedfiles", NumScanned) \in Messages
          /\ Number("infectedfiles", NumInfected) \in Messages
      BY <3>1, LineKinds, MessagesAre
    <3> QED
      BY <2>2, <3>2 DEF Totals
  <2> QED
    BY <2>1, <2>2 DEF Progressed, Removed, Left
<1> QED
  BY <1>1, <1>2, <1>3, <1>4

(* What clamscan says is on its way to the report.                         *)
LEMMA KeptTool ==
    ASSUME ReportAssumption, BaseInv, KeptInv, task' = task, Onward,
           Progressed \/ Handled \/ Removed \/ Totals \/ Left
    PROVE  KeptInv'
<1>0. view' = view /\ verdict' = verdict
  BY DEF Progressed, Handled, Removed, Totals, Left, ReaderRests
<1>1. /\ Files' = Files /\ IsUpdate' = IsUpdate /\ IsDialog' = IsDialog
      /\ Are("infected")' = Are("infected") /\ Are("locked")' = Are("locked")
  BY TaskStays
<1>2. ReportComplete'
  BY <1>0, <1>1 DEF KeptInv, ReportComplete
<1>3. Range(outp) \subseteq Range(outp') /\ Range(errp) \subseteq Range(errp')
  BY ToolAdds
<1>4. ASSUME IsDialog, verdict = "", child'.at # "killed"
      PROVE  FoundKept' /\ ErrorsKept'
  <2>1. child.at # "killed" /\ FoundKept /\ ErrorsKept
    BY <1>4 DEF Onward, KeptInv
  <2>2. CASE Handled
    <3> DEFINE i == child.i
    <3>1. Passed' = Passed \cup {i}
      BY <2>2 DEF Handled
    <3>2. i \in Are("infected") => Named("found", Files[i]) \in Range(outp')
      <4> SUFFICES ASSUME i \in Are("infected")
                   PROVE  Named("found", Files[i]) \in Range(outp')
        OBVIOUS
      <4> DEFINE l == Named("found", Files[i])
      <4>1. Out(l) /\ l \in Messages
        BY <2>2, HandledLine, KindsApart DEF Handled, HandledAs, Scanned
      <4>2. outp' = Append(outp, l) /\ outp \in Seq(Messages)
        BY <4>1 DEF Out, BaseInv, TypeInv
      <4> HIDE DEF l
      <4>3. Range(Append(outp, l)) = Range(outp) \cup {l}
        BY <4>1, <4>2, RangeAppend
      <4>4. Range(outp') = Range(outp) \cup {l}
        BY <4>2, <4>3
      <4>5. l \in Range(outp')
        BY <4>4
      <4> QED
        BY <4>5 DEF l
    <3>3. i \in Are("locked") => Named("error", Files[i]) \in Range(errp')
      <4> SUFFICES ASSUME i \in Are("locked")
                   PROVE  Named("error", Files[i]) \in Range(errp')
        OBVIOUS
      <4> DEFINE l == Named("error", Files[i])
      <4>1. Err(l) /\ l \in Messages
        BY <2>2, HandledLine, KindsApart DEF Handled, HandledAs, Scanned
      <4>2. errp' = Append(errp, l) /\ errp \in Seq(Messages)
        BY <4>1 DEF Err, BaseInv, TypeInv
      <4> HIDE DEF l
      <4>3. Range(Append(errp, l)) = Range(errp) \cup {l}
        BY <4>1, <4>2, RangeAppend
      <4>4. Range(errp') = Range(errp) \cup {l}
        BY <4>2, <4>3
      <4>5. l \in Range(errp')
        BY <4>4
      <4> QED
        BY <4>5 DEF l
    <3> QED
      BY <1>0, <1>1, <1>3, <2>1, <3>1, <3>2, <3>3 DEF FoundKept, ErrorsKept
  <2>3. CASE ~Handled
    <3>1. Passed' = Passed
      BY <1>4, <2>3 DEF Progressed, Removed, Totals, Left, SamePassed
    <3> QED
      BY <1>0, <1>1, <1>3, <2>1, <3>1 DEF FoundKept, ErrorsKept
  <2> QED
    BY <2>2, <2>3
<1>5. ASSUME IsDialog, verdict = "" PROVE NoTransient'
  BY <1>0, <1>5 DEF KeptInv, NoTransient
<1> QED
  BY <1>0, <1>1, <1>2, <1>4, <1>5 DEF KeptInv

(* What a line does to the report of the dialog.                           *)
LEMMA BoxAfter ==
    ASSUME IsDialog, view.box \in Seq(Messages), NEW l \in Messages, NEW e,
           view' = Shown(l, FALSE, e) \/ view' = Shown(l, TRUE, e)
    PROVE  Range(view'.box) = IF e.append THEN Range(view.box) \cup {l} ELSE Range(view.box)
<1>1. view'.box = IF e.append THEN Append(view.box, l) ELSE view.box
  <2> DEFINE box == IF e.append THEN Append(view.box, l) ELSE view.box
  <2>1. ASSUME view' = Shown(l, FALSE, e) PROVE view'.box = box
    BY <2>1 DEF Shown
  <2>2. ASSUME view' = Shown(l, TRUE, e) PROVE view'.box = box
    BY <2>2 DEF Shown
  <2> HIDE DEF box
  <2>3. view'.box = box
    BY <2>1, <2>2, Zenon
  <2> QED
    BY <2>3 DEF box
<1>2. Range(Append(view.box, l)) = Range(view.box) \cup {l}
  BY RangeAppend
<1> QED
  BY <1>1, <1>2

(* What was on its way to the report is in it when it is read.             *)
LEMMA KeptRead ==
    ASSUME ReportAssumption, BaseInv, ~IsUpdate, KeptInv, Gets
    PROVE  KeptInv'
<1>0. /\ outp \in Seq(Messages) /\ errp \in Seq(Messages) /\ view.box \in Seq(Messages)
      /\ task' = task /\ child' = child /\ verdict' = verdict
  BY DEF BaseInv, TypeInv, Views, Gets, RestSame
<1>1. /\ Files' = Files /\ IsUpdate' = IsUpdate /\ IsDialog' = IsDialog
      /\ Are("infected")' = Are("infected") /\ Are("locked")' = Are("locked")
      /\ Passed' = Passed
  BY <1>0, TaskStays DEF Passed
<1>2. verdict = ""
  BY DEF Gets, onOutput, onError, BaseInv, EndInv
<1>3. ReportComplete'
  BY <1>0, <1>2 DEF ReportComplete
<1> SUFFICES ASSUME IsDialog
             PROVE  /\ child.at # "killed" => FoundKept' /\ ErrorsKept'
                    /\ NoTransient'
  BY <1>0, <1>1, <1>3 DEF KeptInv
<1>4. /\ child.at # "killed" => FoundKept /\ ErrorsKept
      /\ NoTransient
  BY <1>2 DEF KeptInv
<1>5. CASE onError
  <2> DEFINE l == errp[1]
  <2>1. PICK e : ErrorRead(l, e)
    BY <1>5, ErrorIsRead
  <2>2. /\ outp' = outp /\ errp # <<>> /\ errp' = Tail(errp)
        /\ e = Effects(TRUE, "", NoBar) /\ view' = Shown(l, TRUE, e)
        /\ l \in Messages /\ l.kind = "error"
    BY <2>1, HeadError DEF ErrorRead, TakesError
  <2>3. Range(view'.box) = Range(view.box) \cup {l}
    <3>1. e.append = TRUE
      BY <2>2 DEF Effects
    <3> QED
      BY <1>0, <2>2, <3>1, BoxAfter
  <2>4. Range(errp) = Range(errp') \cup {l}
    <3>1. Range(errp) = Range(Tail(errp)) \cup {l}
      BY <1>0, <2>2, RangeTail
    <3> QED
      BY <2>2, <3>1
  <2>5. Range(outp') = Range(outp)
    BY <2>2
  <2> HIDE DEF l
  <2>6. ASSUME child.at # "killed" PROVE FoundKept' /\ ErrorsKept'
    BY <1>1, <1>4, <2>3, <2>4, <2>5, <2>6 DEF FoundKept, ErrorsKept
  <2>7. NoTransient'
    <3>1. l.kind \notin ScanTransient
      BY <2>2 DEF ScanTransient, DbProgress, FileProgress
    <3> QED
      BY <1>4, <2>3, <3>1 DEF NoTransient
  <2> QED
    BY <2>6, <2>7
<1>6. CASE onOutput
  <2> DEFINE l == outp[1]
  <2>1. PICK e : LineRead(l, e)
    BY <1>6, LineIsRead
  <2>2. /\ errp' = errp /\ outp # <<>> /\ outp' = Tail(outp)
        /\ view' = Shown(l, FALSE, e) /\ l \in Messages
        /\ e.append = (l.kind \notin ScanTransient)
    BY <2>1, HeadLine DEF LineRead, TakesLine, ReadsScan
  <2>3. Range(view'.box) = IF l.kind \notin ScanTransient
                           THEN Range(view.box) \cup {l} ELSE Range(view.box)
    BY <1>0, <2>2, BoxAfter
  <2>4. Range(outp) = Range(outp') \cup {l}
    <3>1. Range(outp) = Range(Tail(outp)) \cup {l}
      BY <1>0, <2>2, RangeTail
    <3> QED
      BY <2>2, <3>1
  <2>5. Range(errp') = Range(errp)
    BY <2>2
  <2> HIDE DEF l
  <2>6. ASSUME child.at # "killed" PROVE FoundKept' /\ ErrorsKept'
    <3>1. l.kind \in ScanTransient => \A f : Named("found", f) # l
      <4>1. \A f : Named("found", f).kind = "found"
        BY DEF Named, Line
      <4>2. "found" \notin ScanTransient
        BY DEF ScanTransient, DbProgress, FileProgress
      <4> QED
        BY <4>1, <4>2
    <3>2. FoundKept'
      <4>1. \A i \in Are("infected") \cap Passed :
              Named("found", Files[i]) \in Range(outp') \cup Range(view'.box)
        BY <1>4, <2>3, <2>4, <2>6, <3>1 DEF FoundKept
      <4> QED
        BY <1>1, <4>1 DEF FoundKept
    <3>3. ErrorsKept'
      <4>1. Range(view.box) \subseteq Range(view'.box)
        BY <2>3
      <4> QED
        BY <1>1, <1>4, <2>5, <2>6, <4>1 DEF ErrorsKept
    <3> QED
      BY <3>2, <3>3
  <2>7. NoTransient'
    BY <1>4, <2>3 DEF NoTransient
  <2> QED
    BY <2>6, <2>7
<1> QED
  BY <1>5, <1>6 DEF Gets

(* Every step of a scan keeps threats and errors on their way to the       *)
(* report or in it.                                                        *)
LEMMA KeptStep ==
    ASSUME ReportAssumption, BaseInv, ~IsUpdate, KeptInv, ScanStep
    PROVE  KeptInv'
<1>0. task' = task /\ Onward
  BY DEF ScanStep
<1>1. CASE Progressed \/ Handled \/ Removed \/ Totals \/ Left
  BY <1>0, <1>1, KeptTool
<1>2. CASE Gets
  BY <1>2, KeptRead
<1>3. CASE Rested
  <2>1. child' = child /\ outp' = outp /\ errp' = errp
    BY <1>3 DEF Rested, Silent
  <2>2. CASE Shows
    <3>1. /\ Files' = Files /\ IsUpdate' = IsUpdate /\ IsDialog' = IsDialog
          /\ Are("infected")' = Are("infected") /\ Are("locked")' = Are("locked")
          /\ Passed' = Passed /\ verdict' = verdict /\ view'.box = view.box
      BY <1>0, <2>1, <2>2, TaskStays DEF Passed, Shows
    <3> QED
      BY <2>1, <3>1 DEF KeptInv, FoundKept, ErrorsKept, NoTransient,
         ReportComplete
  <2>3. CASE ~Shows
    <3>1. onScanFinished /\ verdict' = Verdict(child.n)
          /\ view'.box = FinalBox(Verdict(child.n))
      BY <1>3, <2>3 DEF Rested
    <3> QED
      BY <1>0, <2>1, <3>1, FinishedKeeps
  <2> QED
    BY <2>2, <2>3
<1> QED
  BY <1>1, <1>2, <1>3 DEF ScanStep

-----------------------------------------------------------------------------
(* All of a scan, and what it says to the user.                            *)
ScanInv ==
    ExpectedInv /\ ThreatsInv /\ FilesInv /\ CompletedInv /\ BytesInv /\ KeptInv

(* The program starts with the accounts of a scan in order.                *)
LEMMA InitScan ==
    ASSUME ReportAssumption, Init, ~IsUpdate
    PROVE  ScanInv
<1>0. /\ outp = <<>> /\ errp = <<>> /\ verdict = "" /\ task \in Tasks
      /\ child.at = "load" /\ child.i = 1 /\ view = NoView
  BY DEF Init, IsUpdate
<1>1. BaseInv
  BY InitBase
<1>2. /\ state.files = 0 /\ state.threats = 0 /\ state.completed = 0
      /\ state.bytes = 0 /\ state.ui = 0
      /\ state.expectedFiles = Cardinality(enumScanTargets(task))
      /\ state.expectedBytes = SizeOf(Files, enumScanTargets(task))
  BY InitState
<1>3. Passed = {}
  <2> DEFINE n == child.i
  <2>1. n = 1 /\ child.at # "remove"
    BY <1>0
  <2> HIDE DEF n
  <2>2. 1 .. (n - 1) = {}
    BY <2>1
  <2>3. Passed = 1 .. (n - 1)
    BY <2>1 DEF Passed, n
  <2> QED
    BY <2>2, <2>3
<1>4. \A S : S \cap Passed = {}
  BY <1>3
<1>5. Cardinality({}) = 0
  BY FS_EmptySet
<1>6. \A K : Count(outp, K) = 0 /\ ~Has(outp, K)
  BY <1>0, CountEmpty, HasEmpty
<1>7. \A k, K, n : NoneAfter(outp, k, K) /\ Says(outp, k, n)
  <2>1. \A i \in DOMAIN <<>> : FALSE
    OBVIOUS
  <2> QED
    BY <1>0, <2>1 DEF NoneAfter, Says
<1>8. child.at \notin Summed \cup Late
  BY <1>0 DEF Summed, Late
<1>9. ExpectedInv
  BY <1>2 DEF ExpectedInv
<1>10. ThreatsInv
  <2>1. NumInfected \in Nat
    <3>1. IsFiniteSet(Are("infected"))
      BY <1>1, FilesAre
    <3> QED
      BY <3>1, FS_CardinalityType DEF NumInfected
  <2>2. Cardinality(Are("infected") \cap Passed) = 0
    BY <1>4, <1>5
  <2> QED
    BY <1>2, <1>6, <1>7, <2>1, <2>2 DEF ThreatsInv
<1>11. FilesInv
  BY <1>6, <1>7, <1>8 DEF FilesInv
<1>12. CompletedInv
  <2>1. Cardinality(Scanned \cap Passed) = 0
    BY <1>4, <1>5
  <2> QED
    BY <1>2, <1>6, <2>1 DEF CompletedInv
<1>13. BytesInv
  <2>1. Pending = 0
    <3>1. Sizes \in [Messages -> Nat]
      BY SizesAre
    <3>2. Total(Mapped(<<>>, Sizes)) = 0
      BY <3>1, MappedEmpty, Zenon
    <3> QED
      BY <1>0, <3>2 DEF Pending
  <2>2. SizeOf(Files, Scanned \cap Passed) \in Nat
    BY <1>1, FilesAre, WeightsAre
  <2>3. view.bar = 0
    BY <1>0 DEF NoView
  <2> QED
    BY <1>2, <2>1, <2>2, <2>3 DEF BytesInv
<1>14. KeptInv
  <2>1. view.box = <<>>
    BY <1>0 DEF NoView
  <2>2. \A i \in DOMAIN view.box : FALSE
    BY <2>1
  <2>3. Range(view.box) = {}
    BY <2>2 DEF Range
  <2>4. FoundKept /\ ErrorsKept
    BY <1>4 DEF FoundKept, ErrorsKept
  <2>5. NoTransient
    BY <2>3 DEF NoTransient
  <2>6. ReportComplete
    BY <1>0 DEF ReportComplete
  <2> QED
    BY <2>4, <2>5, <2>6 DEF KeptInv
<1> QED
  BY <1>9, <1>10, <1>11, <1>12, <1>13, <1>14 DEF ScanInv

(* Every step of a scan keeps its accounts in order.                       *)
LEMMA NextScan ==
    ASSUME ReportAssumption, BaseInv, ~IsUpdate, ScanInv, [Next]_vars
    PROVE  ScanInv' /\ ~IsUpdate'
<1>1. ScanStep
  BY ScanSteps
<1>2. IsUpdate' = IsUpdate
  BY <1>1, TaskStays DEF ScanStep
<1>3. ExpectedInv' /\ ThreatsInv' /\ FilesInv' /\ CompletedInv' /\ BytesInv' /\ KeptInv'
  BY <1>1, ExpectedStep, ThreatsStep, FilesStep, CompletedStep, BytesStep,
     KeptStep DEF ScanInv
<1> QED
  BY <1>2, <1>3 DEF ScanInv

(* All that is scanned is clean, infected or locked.                       *)
LEMMA EachIsOne ==
    ASSUME ReportAssumption, BaseInv
    PROVE  /\ NumScanned \in Nat /\ NumLocked \in Nat /\ NumInfected \in Nat
           /\ NumScanned + NumLocked =
                Cardinality({i \in 1 .. Len(Files) : Scans(task, Files[i])})
<1> DEFINE L == Are("locked")
<1>1. IsFiniteSet(Scanned) /\ IsFiniteSet(L) /\ IsFiniteSet(Are("infected"))
  BY FilesAre
<1>2. Scanned \cap L = {}
  BY KindsApart DEF Scanned
<1>3. Scanned \cup L = {i \in 1 .. Len(Files) : Scans(task, Files[i])}
  <2>1. \A i \in 1 .. Len(Files) : Files[i].is \in {"clean", "infected", "locked"}
    BY FilesAre
  <2>2. DOMAIN Files = 1 .. Len(Files)
    BY FilesAre
  <2> QED
    BY <2>1, <2>2 DEF Scanned, Are
<1>4. NumScanned = Cardinality(Scanned) /\ NumLocked = Cardinality(L)
  BY DEF NumScanned, NumLocked, Scanned
<1>5. NumScanned \in Nat /\ NumLocked \in Nat /\ NumInfected \in Nat
  BY <1>1, FS_CardinalityType DEF NumScanned, NumLocked, NumInfected, Scanned
<1>6. Cardinality(Scanned \cap L) = 0
  BY <1>2, FS_EmptySet
<1>7. Cardinality(Scanned \cup L)
         = Cardinality(Scanned) + Cardinality(L) - Cardinality(Scanned \cap L)
  BY <1>1, FS_Union
<1> DEFINE n == Cardinality(Scanned)
           m == Cardinality(L)
           k == Cardinality(Scanned \cup L)
<1>8. n \in Nat /\ m \in Nat
  BY <1>4, <1>5
<1>9. k = n + m - 0
  BY <1>6, <1>7
<1> HIDE DEF n, m, k
<1>10. k = n + m
  BY <1>8, <1>9
<1>11. NumScanned + NumLocked = k
  BY <1>4, <1>10 DEF n, m
<1> QED
  BY <1>3, <1>5, <1>11 DEF k

(* The counts.                                                             *)
LEMMA CountsAreTrue ==
    ASSUME ReportAssumption, BaseInv, ~IsUpdate, ScanInv
    PROVE  CountsTrue
<1>1. outp \in Seq(Messages) /\ StateOK(state) /\ state.threats \in Nat
  BY DEF BaseInv, TypeInv, StateOK
<1>2. state.threats <= NumInfected
  <2>1. Count(outp, {"found"}) \in Nat
    <3>1. CASE outp = <<>>
      BY <3>1, CountEmpty
    <3>2. CASE outp # <<>>
      <4> DEFINE n == Count(Tail(outp), {"found"})
      <4>1. /\ n \in Nat
            /\ Count(outp, {"found"}) = n + IF outp[1].kind \in {"found"} THEN 1 ELSE 0
        BY <1>1, <3>2, CountTail
      <4> HIDE DEF n
      <4> QED
        BY <4>1
    <3> QED
      BY <3>1, <3>2
  <2>2. state.threats + Count(outp, {"found"}) <= NumInfected /\ NumInfected \in Nat
    BY EachIsOne DEF ScanInv, ThreatsInv
  <2> QED
    BY <1>1, <2>1, <2>2
<1>3. ASSUME AllRead
      PROVE  state.threats = NumInfected /\ state.files = NumScanned
  <2>1. child.at = "ended" /\ outp = <<>>
    BY <1>3 DEF AllRead
  <2>2. child.i > Len(Files)
    BY <2>1 DEF BaseInv, ChildInv, ChildOK, Summed
  <2>3. Are("infected") \cap Passed = Are("infected")
    BY <2>2, FilesAre, AllPassed
  <2>4. Count(outp, {"found"}) = 0 /\ ~Has(outp, {"scannedfiles"})
    BY <2>1, CountEmpty, HasEmpty
  <2>5. state.threats = NumInfected
    <3>1. state.threats + Count(outp, {"found"}) = Cardinality(Are("infected"))
      BY <2>1, <2>3 DEF ScanInv, ThreatsInv
    <3>2. state.threats + Count(outp, {"found"}) = state.threats
      BY <1>1, <2>4
    <3> QED
      BY <3>1, <3>2 DEF NumInfected
  <2>6. state.files = NumScanned
    BY <2>1, <2>4 DEF ScanInv, FilesInv, Summed
  <2> QED
    BY <2>5, <2>6
<1> QED
  BY <1>2, <1>3 DEF CountsTrue

(* A file that the user chose is scanned, whatever the filters say.        *)
LEMMA ChosenIs ==
    ASSUME ReportAssumption, BaseInv, ~IsUpdate, ScanInv
    PROVE  ChosenIsScanned
<1> SUFFICES ASSUME task.mode = "scan", task.target = "file", AllRead
             PROVE  state.files + NumLocked = 1
  BY DEF ChosenIsScanned
<1>1. state.files = NumScanned
  BY CountsAreTrue DEF CountsTrue
<1>2. Len(Files) = 1
  BY TaskFacts DEF BaseInv, TypeInv, TypeOK
<1>3. Filters(task, task.include) = {} /\ Filters(task, task.exclude) = {}
  BY DEF Filters, shouldApplyPreferenceFilters
<1>4. \A f : Scans(task, f)
  <2>1. Options.include = {} /\ Options.exclude = {}
    BY <1>3 DEF Options, buildClamscanCommand
  <2>2. \A f : Visits(f.path, Options.include, Options.exclude) /\ Reaches(task, f)
    BY <2>1 DEF Visits, Reaches
  <2> QED
    BY <2>2 DEF Scans, Options
<1>5. {i \in 1 .. Len(Files) : Scans(task, Files[i])} = {1}
  BY <1>2, <1>4
<1>6. Cardinality({1}) = 1
  BY FS_Singleton
<1> QED
  BY <1>1, <1>5, <1>6, EachIsOne

(* The dialog counts the files that clamscan visits.                       *)
LEMMA FiltersAgree ==
    ASSUME ReportAssumption, BaseInv, task.mode = "scan",
           \A p \in task.include \cup task.exclude : IsMask(p),
           NEW t \in Seq(STRING)
    PROVE  Visits(t, Options.include, Options.exclude) <=>
             shouldCountPath(t, Filters(task, task.include), Filters(task, task.exclude))
<1> DEFINE I == Filters(task, task.include)
           X == Filters(task, task.exclude)
<1>1. I \subseteq task.include /\ X \subseteq task.exclude
  BY DEF Filters
<1>2. task.include \subseteq Patterns /\ task.exclude \subseteq Patterns
  BY TaskFacts DEF BaseInv, TypeInv, TypeOK
<1>3. \A p \in I \cup X : p \in Patterns /\ IsMask(p)
  BY <1>1, <1>2
<1>4. Options.include = {Expression(p) : p \in I} /\ Options.exclude = {Expression(p) : p \in X}
  BY DEF Options, buildClamscanCommand
<1> HIDE DEF I, X
<1>5. \A p \in I \cup X :
         /\ ~p.isRegex
         /\ globMatchNoCase(p.text, FileName(t)) \/ globMatchNoCase(p.text, t)
              <=> RegexMatch(Expression(p), t)
  <2> SUFFICES ASSUME NEW p \in I \cup X
               PROVE  /\ ~p.isRegex
                      /\ globMatchNoCase(p.text, FileName(t)) \/ globMatchNoCase(p.text, t)
                           <=> RegexMatch(Expression(p), t)
    OBVIOUS
  <2>1. p \in Patterns /\ IsMask(p)
    BY <1>3
  <2>2. ~p.isRegex
    BY <2>1 DEF IsMask
  <2> QED
    BY <2>1, <2>2, MasksAgree
<1>6. (\E e \in Options.include : RegexMatch(e, t)) <=> matchesAnyWildcardPattern(I, t)
  BY <1>4, <1>5 DEF matchesAnyWildcardPattern
<1>7. (\E e \in Options.exclude : RegexMatch(e, t)) <=> matchesAnyWildcardPattern(X, t)
  BY <1>4, <1>5 DEF matchesAnyWildcardPattern
<1>8. Options.include = {} <=> I = {}
  BY <1>4
<1>9. Visits(t, Options.include, Options.exclude) <=> shouldCountPath(t, I, X)
  BY <1>6, <1>7, <1>8 DEF Visits, shouldCountPath
<1> QED
  BY <1>9 DEF I, X

(* A file that will be scanned is counted beforehand, and one that is      *)
(* counted will be scanned if the scan is recursive.                       *)
LEMMA CountedIsScanned ==
    ASSUME ReportAssumption, BaseInv, task.mode = "scan", IsDialog,
           \A p \in task.include \cup task.exclude : IsMask(p),
           NEW i \in 1 .. Len(Files)
    PROVE  /\ Scans(task, Files[i]) => i \in enumScanTargets(task)
           /\ task.recursive /\ i \in enumScanTargets(task) => Scans(task, Files[i])
<1>1. Files[i] \in FileSet /\ DOMAIN Files = 1 .. Len(Files)
  BY FilesAre
<1>2. Files[i].path \in Seq(STRING)
  BY <1>1 DEF FileSet
<1>3. Visits(Files[i].path, Options.include, Options.exclude) <=>
        shouldCountPath(Files[i].path, Filters(task, task.include), Filters(task, task.exclude))
  BY <1>2, FiltersAgree
<1>4. i \in enumScanTargets(task) <=>
        shouldCountPath(Files[i].path, Filters(task, task.include), Filters(task, task.exclude))
  BY <1>1 DEF enumScanTargets, Files, IsDialog
<1>5. ~Options.memory /\ (Options.recursive <=> task.recursive)
  BY DEF Options, buildClamscanCommand
<1>6. Scans(task, Files[i]) <=>
        Reaches(task, Files[i]) /\ Visits(Files[i].path, Options.include, Options.exclude)
  BY <1>5 DEF Scans, Options
<1>7. task.recursive => Reaches(task, Files[i])
  BY <1>5 DEF Reaches, Options
<1> QED
  BY <1>3, <1>4, <1>6, <1>7

(* "File scanned: n/m" reaches m.                                          *)
LEMMA CountIsReached ==
    ASSUME ReportAssumption, BaseInv, ~IsUpdate, ScanInv
    PROVE  CountReached
<1> SUFFICES ASSUME task.mode = "scan", IsDialog, AllRead,
                    task.recursive, ~task.infectedOnly,
                    \A p \in task.include \cup task.exclude : IsMask(p)
             PROVE  state.completed + NumLocked = state.expectedFiles
  BY DEF CountReached
<1>1. child.at = "ended" /\ outp = <<>>
  BY DEF AllRead
<1>2. child.i > Len(Files)
  BY <1>1 DEF BaseInv, ChildInv, ChildOK, Summed
<1>3. Scanned \cap Passed = Scanned
  BY <1>2, FilesAre, AllPassed
<1>4. state.completed = NumScanned
  <2>1. Count(outp, Counted) = 0
    BY <1>1, CountEmpty
  <2>2. state.completed \in Nat
    BY DEF BaseInv, TypeInv, StateOK
  <2>3. state.completed + Count(outp, Counted) = Cardinality(Scanned)
    BY <1>1, <1>3 DEF ScanInv, CompletedInv
  <2> QED
    BY <2>1, <2>2, <2>3 DEF NumScanned, Scanned
<1>5. {i \in 1 .. Len(Files) : Scans(task, Files[i])} = enumScanTargets(task)
  <2>1. enumScanTargets(task) \subseteq 1 .. Len(Files)
    BY CountIsNat DEF BaseInv, TypeInv, TypeOK
  <2>2. \A i \in 1 .. Len(Files) : Scans(task, Files[i]) <=> i \in enumScanTargets(task)
    BY CountedIsScanned
  <2> QED
    BY <2>1, <2>2
<1>6. state.expectedFiles = Cardinality(enumScanTargets(task))
  BY DEF ScanInv, ExpectedInv
<1> QED
  BY <1>4, <1>5, <1>6, EachIsOne

(* What was read leaves no room for a file that was not.                   *)
LEMMA NoRoom ==
    ASSUME NEW a \in Nat, NEW b \in Nat, NEW d \in Nat, NEW e \in Nat, NEW s \in Nat,
           s > 0, b <= d, d + e <= a, a + s <= b
    PROVE  FALSE
OBVIOUS

(* A file that is still to come fits into what is counted.                 *)
LEMMA NextFits ==
    ASSUME NEW files \in Seq(FileSet), NEW S, NEW E, NEW i \in 1 .. Len(files),
           i \notin S, S \subseteq E, i \in E
    PROVE  SizeOf(files, S) + files[i].size <= SizeOf(files, E)
<1>1. SizeOf(files, S \cup {i}) = SizeOf(files, S) + files[i].size
  BY SizeOfOneMore
<1>2. SizeOf(files, S \cup {i}) <= SizeOf(files, E)
  BY SizeOfMono
<1> QED
  BY <1>1, <1>2

(* A number that is not below another.                                     *)
LEMMA Beyond ==
    ASSUME NEW i \in Nat, NEW n \in Nat, ~(i < n)
    PROVE  i \notin 1 .. (n - 1)
OBVIOUS

(* The numbers of a range are numbers.                                     *)
LEMMA PartNat ==
    ASSUME NEW n, NEW i \in 1 .. n
    PROVE  i \in Nat
OBVIOUS

(* Only a full bar is full.                                                *)
LEMMA OnlyAll ==
    ASSUME NEW u \in 0 .. 100, 100 <= u
    PROVE  u = 100
OBVIOUS

(* A full bar means that every file that takes time has been read.         *)
LEMMA BarIsTrue ==
    ASSUME ReportAssumption, BaseInv, ~IsUpdate, ScanInv
    PROVE  FullBarIsDone
<1> SUFFICES ASSUME task.mode = "scan", IsDialog, verdict = "",
                    view.bar = 100, state.expectedBytes > 0,
                    \A p \in task.include \cup task.exclude : IsMask(p),
                    NEW i \in DOMAIN Files, Scans(task, Files[i]),
                    Files[i].size > 0, Files[i].is # "locked",
                    ~(i < child.i), child.at \in {"load", "files", "file"}
             PROVE  FALSE
  BY DEF FullBarIsDone
<1> DEFINE S == Scanned \cap Passed
           E == enumScanTargets(task)
           size == Files[i].size
<1>1. /\ i \in 1 .. Len(Files) /\ size \in Nat /\ Files \in Seq(FileSet)
      /\ Files[i].is \in {"clean", "infected", "locked"} /\ Scanned \subseteq 1 .. Len(Files)
  BY FilesAre
<1>2. i \in Scanned
  BY <1>1 DEF Scanned, Are
<1>3. i \notin Passed
  <2>1. child.i \in Nat
    <3>1. child \in Children
      BY DEF BaseInv, TypeInv
    <3> QED
      BY <3>1 DEF Children
  <2>2. child.at # "remove"
    OBVIOUS
  <2> DEFINE n == child.i
  <2>3. Passed = 1 .. (n - 1)
    BY <2>2 DEF Passed
  <2>4. i \in Nat
    BY <1>1, PartNat, Zenon
  <2>5. i \notin 1 .. (n - 1)
    BY <2>1, <2>4, Beyond, Zenon
  <2> QED
    BY <2>3, <2>5
<1>4. Scanned \subseteq E
  <2>1. \A j \in Scanned : Scans(task, Files[j])
    BY DEF Scanned, Are
  <2> QED
    BY <1>1, <2>1, CountedIsScanned
<1>5. state.bytes >= state.expectedBytes /\ state.expectedBytes = SizeOf(Files, E)
  <2>1. state.ui \in 0 .. 100
    BY DEF BaseInv, TypeInv, StateOK
  <2>2. view.bar <= state.ui
    BY DEF ScanInv, BytesInv
  <2> DEFINE u == state.ui
  <2>6. u = 100
    BY <2>1, <2>2, OnlyAll, Zenon
  <2>3. state.ui = 100
    BY <2>6 DEF u
  <2> QED
    BY <2>3 DEF ScanInv, BytesInv, ExpectedInv
<1>6. state.bytes + Pending <= SizeOf(Files, S) /\ Pending \in Nat /\ state.bytes \in Nat
  <2>1. outp \in Seq(Messages) /\ state.bytes \in Nat
    BY DEF BaseInv, TypeInv, StateOK
  <2>2. child.at # "killed"
    OBVIOUS
  <2>3. state.bytes + Pending <= SizeOf(Files, Scanned \cap Passed)
    BY <2>2 DEF ScanInv, BytesInv
  <2> QED
    BY <2>1, <2>3, PendingIsNat
<1>9. SizeOf(Files, S) \in Nat /\ SizeOf(Files, E) \in Nat /\ size > 0
  BY <1>1, WeightsAre
<1>10. SizeOf(Files, S) + size <= SizeOf(Files, E)
  <2>1. i \notin S /\ S \subseteq E /\ i \in E
    BY <1>2, <1>3, <1>4
  <2> HIDE DEF S, E
  <2> QED
    BY <1>1, <2>1, NextFits, Zenon
<1> HIDE DEF S, E, size
<1>11. SizeOf(Files, E) <= state.bytes
  BY <1>5, <1>6, <1>9
<1> QED
  BY <1>1, <1>6, <1>9, <1>10, <1>11, NoRoom

-----------------------------------------------------------------------------
(* The inductive invariant.                                                *)
Told == BaseInv /\ UpdateInv /\ (IsUpdate \/ ScanInv)

(* The program starts in the invariant.                                    *)
LEMMA InitTold ==
    ASSUME ReportAssumption, Init
    PROVE  Told
BY InitBase, InitUpdate, InitScan DEF Told

(* Every step keeps the invariant.                                         *)
LEMMA NextTold ==
    ASSUME ReportAssumption, Told, [Next]_vars
    PROVE  Told'
<1>1. BaseInv' /\ UpdateInv'
  BY NextBase, NextUpdate DEF Told
<1>2. CASE IsUpdate
  <2>1. IsUpdate' = IsUpdate
    BY DEF IsUpdate, Next, Tool, Reader, LoadDatabase, ShowPercent, ScanFile,
       RemoveFile, Summarise,
             CheckDatabase, Download, ServerFails, Install, Refuse, Exit,
             ToolMissing, reader,
             onOutput, onError, Handle, ShowEnumerated, Cancel,
             onScanFinished, vars, Close, onBgTaskFinished
  <2> QED
    BY <1>1, <1>2, <2>1 DEF Told
<1>3. CASE ~IsUpdate
  BY <1>1, <1>3, NextScan DEF Told
<1> QED
  BY <1>2, <1>3

(* The invariant says what the user may rely on.                           *)
LEMMA ToldIsTrue ==
    ASSUME ReportAssumption, Told
    PROVE  ReportInv /\ CountReached /\ FullBarIsDone /\ ToldTrue
<1>1. VerdictTrue /\ BalloonTrue /\ TypeOK
  BY VerdictIsTrue, BalloonIsTrue DEF Told, BaseInv, TypeInv
<1>2. CASE IsUpdate
  <2>1. task.mode = "update"
    BY <1>2 DEF IsUpdate
  <2> QED
    BY <1>1, <1>2, <2>1 DEF ReportInv, CountsTrue, ChosenIsScanned,
       CountReached,
          FullBarIsDone, ToldTrue, ReportComplete
<1>3. CASE ~IsUpdate
  BY <1>1, <1>3, CountsAreTrue, ChosenIs, CountIsReached, BarIsTrue
     DEF Told, ReportInv, ToldTrue, ScanInv, KeptInv
<1> QED
  BY <1>2, <1>3

(* The numbers and the bar the user is shown are true, for every target    *)
(* and filter, and a file the user chose is scanned.                       *)
THEOREM ReportSafe == Spec => []ReportInv
<1>1. Init => Told
  BY ReportAssumption, InitTold
<1>2. Told /\ [Next]_vars => Told'
  BY ReportAssumption, NextTold
<1>3. Told => ReportInv
  BY ReportAssumption, ToldIsTrue
<1> QED
  BY <1>1, <1>2, <1>3, PTL DEF Spec

(* For masks, the files that enumScanTargets counts are those that         *)
(* clamscan scans, so that "n/m" reaches m, for any files and masks.       *)
THEOREM CountSafe == Spec => []CountReached
<1>1. Init => Told
  BY ReportAssumption, InitTold
<1>2. Told /\ [Next]_vars => Told'
  BY ReportAssumption, NextTold
<1>3. Told => CountReached
  BY ReportAssumption, ToldIsTrue
<1> QED
  BY <1>1, <1>2, <1>3, PTL DEF Spec

(* While a scan runs a full bar means that every file that takes time      *)
(* has been read, although files may be gone before they are measured.     *)
THEOREM BarSafe == Spec => []FullBarIsDone
<1>1. Init => Told
  BY ReportAssumption, InitTold
<1>2. Told /\ [Next]_vars => Told'
  BY ReportAssumption, NextTold
<1>3. Told => FullBarIsDone
  BY ReportAssumption, ToldIsTrue
<1> QED
  BY <1>1, <1>2, <1>3, PTL DEF Spec

(* The report, the dialog's verdict and the balloon are what the tool      *)
(* did, for any files, databases, failures and sizes of the pipes.         *)
THEOREM ToldSafe == Spec => []ToldTrue
<1>1. Init => Told
  BY ReportAssumption, InitTold
<1>2. Told /\ [Next]_vars => Told'
  BY ReportAssumption, NextTold
<1>3. Told => ToldTrue
  BY ReportAssumption, ToldIsTrue
<1> QED
  BY <1>1, <1>2, <1>3, PTL DEF Spec

=============================================================================
