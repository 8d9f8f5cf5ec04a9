-------------------------- MODULE PredicatesProofs --------------------------
(***************************************************************************)
(* Both wildcard matchers answer what a pattern means, for patterns and    *)
(* actions of any length; a comparison and its opposite exclude each       *)
(* other.                                                                  *)
(***************************************************************************)
EXTENDS Predicates, WellFoundedInduction, TLAPS

-------------------------------------------------------------------------------
(* Induction and recursion over an interval. *)

(* The order of the naturals is well founded.                                *)
LEMMA LessIsWellFounded ==
  \E R : IsWellFoundedOn(R, Nat) /\ \A x, y \in Nat : x < y => <<x, y>> \in R
<1>1. \A x, y \in Nat : x < y => <<x, y>> \in OpToRel(<, Nat)
  BY DEF OpToRel
<1> QED
  BY <1>1, NatLessThanWellFounded

(* Every set of naturals that is not empty has a least member.               *)
LEMMA LeastOf ==
  ASSUME NEW T, T \subseteq Nat, T # {}
  PROVE  \E x \in T : \A y \in T : x <= y
<1>1. PICK R : IsWellFoundedOn(R, Nat) /\ \A x, y \in Nat : x < y => <<x, y>> \in R
  BY LessIsWellFounded
<1>0. IsWellFoundedOn(R, Nat)
  BY <1>1
<1>2. \E x \in T : \A y \in T : ~(<<y, x>> \in R)
  BY ONLY <1>0, T \subseteq Nat, T # {}, WFMin
<1>3. PICK x \in T : \A y \in T : ~(<<y, x>> \in R)
  BY <1>2
<1>4. \A y \in T : ~(y < x)
  BY <1>1, <1>3
<1> QED
  BY <1>4

(* Induction over an interval, for the set of the numbers it holds of.       *)
LEMMA UpTo ==
  ASSUME NEW lo \in Nat, NEW hi \in Nat, NEW T,
         lo \in T, \A n \in lo .. hi - 1 : n \in T => n + 1 \in T
  PROVE  lo .. hi \subseteq T
<1> DEFINE Not == (lo .. hi) \ T
<1> SUFFICES ASSUME Not # {} PROVE FALSE
  OBVIOUS
<1>0. Not \subseteq Nat
  OBVIOUS
<1>1. PICK n \in Not : \A m \in Not : n <= m
  <2> HIDE DEF Not
  <2> QED
    BY <1>0, LeastOf
<1>2. n # lo /\ n - 1 \in lo .. hi - 1 /\ n - 1 \notin Not
  BY <1>1
<1> QED
  BY <1>1, <1>2

\* N steps among the members of S.
Steps(N, S) == [1 .. N -> [S -> S]]

\* Where they lead from the start.
Leads(w, start, step, N) ==
  w[0] = start /\ \A n \in 1 .. N : w[n] = step[n][w[n - 1]]

(* Steps can be taken one after the other, as often as one likes.            *)
LEMMA Iterate ==
  ASSUME NEW S, NEW start \in S, NEW N \in Nat, NEW step \in Steps(N, S)
  PROVE  \E w \in [0 .. N -> S] : Leads(w, start, step, N)
<1> USE DEF Steps
<1> DEFINE Is(w, k) == w[0] = start /\ \A n \in 1 .. k : w[n] = step[n][w[n - 1]]
           T == {k \in 0 .. N : \E w \in [0 .. k -> S] : Is(w, k)}
<1>1. 0 \in T
  <2> DEFINE v == [n \in 0 .. 0 |-> start]
  <2>1. v \in [0 .. 0 -> S] /\ Is(v, 0)
    OBVIOUS
  <2> HIDE DEF v, Is
  <2> QED
    BY <2>1
<1>2. ASSUME NEW k \in 0 .. N - 1, k \in T PROVE k + 1 \in T
  <2>1. PICK w \in [0 .. k -> S] : Is(w, k)
    BY <1>2
  <2> DEFINE next == step[k + 1][w[k]]
             v == [n \in 0 .. k + 1 |-> IF n = k + 1 THEN next ELSE w[n]]
  <2>2. next \in S
    BY <2>1
  <2> HIDE DEF next
  <2>3. v \in [0 .. k + 1 -> S]
    BY <2>1, <2>2
  <2>4. v[0] = start
    BY <2>1
  <2>5. ASSUME NEW n \in 1 .. k + 1 PROVE v[n] = step[n][v[n - 1]]
    <3>1. CASE n = k + 1
      BY <3>1 DEF next
    <3>2. CASE n # k + 1
      BY <2>1, <3>2
    <3> QED
      BY <3>1, <3>2
  <2>6. Is(v, k + 1)
    BY <2>4, <2>5
  <2> HIDE DEF v, Is
  <2> QED
    BY <2>3, <2>6
<1> HIDE DEF T
<1>3. 0 .. N \subseteq T
  BY <1>1, <1>2, UpTo
<1> QED
  BY <1>3 DEF T, Leads

-------------------------------------------------------------------------------
(* Laying a pattern along a subject. *)

\* The first n of the pattern, and as much of the subject as f says.
LaysTo(f, n, p, s, any) ==
  /\ f[0] = 0
  /\ \A i \in 1 .. n :
       IF p[i] = "*" THEN f[i - 1] <= f[i]
       ELSE /\ f[i] = f[i - 1] + 1
            /\ p[i] = s[f[i]] \/ p[i] \in any

\* The first n of the pattern can be laid along the first t of the subject.
Reaches(n, t, p, s, any) ==
  \E f \in [0 .. n -> 0 .. Len(s)] : f[n] = t /\ LaysTo(f, n, p, s, any)

\* f lays all of the pattern along all of the subject.
Whole(f, p, s, any) ==
  /\ f \in [0 .. Len(p) -> 0 .. Len(s)]
  /\ f[Len(p)] = Len(s)
  /\ Lays(f, p, s, any)

(* To match is to reach both ends.                                           *)
LEMMA MatchesReaches ==
  ASSUME NEW p, NEW s, NEW any
  PROVE  /\ Matches(p, s, any) <=> Reaches(Len(p), Len(s), p, s, any)
         /\ Matches(p, s, any) <=> \E f : Whole(f, p, s, any)
BY DEF Matches, Reaches, Whole, Lays, LaysTo

(* Nothing of the pattern takes up nothing.                                  *)
LEMMA ReachesNothing ==
  ASSUME NEW C, NEW p \in Seq(C), NEW s \in Seq(C), NEW any
  PROVE  Reaches(0, 0, p, s, any)
<1> DEFINE f == [i \in 0 .. 0 |-> 0]
<1>1. f \in [0 .. 0 -> 0 .. Len(s)] /\ f[0] = 0 /\ LaysTo(f, 0, p, s, any)
  BY DEF LaysTo
<1> HIDE DEF f
<1> QED
  BY <1>1 DEF Reaches

(* One more of the pattern: a star takes up any run, another character one.  *)
LEMMA ReachesMore ==
  ASSUME NEW C, NEW p \in Seq(C), NEW s \in Seq(C), NEW any,
         NEW n \in 0 .. Len(p) - 1, NEW t \in 0 .. Len(s), NEW u \in 0 .. Len(s),
         Reaches(n, t, p, s, any),
         IF p[n + 1] = "*" THEN t <= u
         ELSE u = t + 1 /\ (p[n + 1] = s[u] \/ p[n + 1] \in any)
  PROVE  Reaches(n + 1, u, p, s, any)
<1>1. PICK f \in [0 .. n -> 0 .. Len(s)] : f[n] = t /\ LaysTo(f, n, p, s, any)
  BY DEF Reaches
<1> DEFINE g == [i \in 0 .. n + 1 |-> IF i = n + 1 THEN u ELSE f[i]]
<1>2. g \in [0 .. n + 1 -> 0 .. Len(s)]
  BY <1>1
<1>3. \A i \in 0 .. n : g[i] = f[i]
  OBVIOUS
<1>4. g[n + 1] = u
  OBVIOUS
<1> HIDE DEF g
<1>5. ASSUME NEW i \in 1 .. n + 1
      PROVE  IF p[i] = "*" THEN g[i - 1] <= g[i]
             ELSE g[i] = g[i - 1] + 1 /\ (p[i] = s[g[i]] \/ p[i] \in any)
  <2>1. CASE i = n + 1
    <3>1. g[i - 1] = t /\ g[i] = u
      BY <1>1, <1>3, <1>4, <2>1
    <3> QED
      BY <2>1, <3>1
  <2>2. CASE i # n + 1
    <3>1. i \in 1 .. n /\ g[i - 1] = f[i - 1] /\ g[i] = f[i]
      BY <1>3, <2>2
    <3> QED
      BY <1>1, <3>1 DEF LaysTo
  <2> QED
    BY <2>1, <2>2
<1>6. g[0] = 0
  BY <1>1, <1>3 DEF LaysTo
<1> QED
  BY <1>2, <1>4, <1>5, <1>6 DEF Reaches, LaysTo

(* A star that is the last can take up more.                                 *)
LEMMA StarTakesMore ==
  ASSUME NEW C, NEW p \in Seq(C), NEW s \in Seq(C), NEW any,
         NEW n \in 1 .. Len(p), NEW t \in 0 .. Len(s), NEW u \in t .. Len(s),
         p[n] = "*", Reaches(n, t, p, s, any)
  PROVE  Reaches(n, u, p, s, any)
<1>1. PICK f \in [0 .. n -> 0 .. Len(s)] : f[n] = t /\ LaysTo(f, n, p, s, any)
  BY DEF Reaches
<1>2. f[n - 1] \in 0 .. Len(s) /\ f[n - 1] <= u
  BY <1>1 DEF LaysTo
<1> DEFINE g == [i \in 0 .. n - 1 |-> f[i]]
<1>3. g \in [0 .. n - 1 -> 0 .. Len(s)] /\ \A i \in 0 .. n - 1 : g[i] = f[i]
  BY <1>1
<1> HIDE DEF g
<1>4. LaysTo(g, n - 1, p, s, any)
  BY <1>1, <1>3 DEF LaysTo
<1> DEFINE m == n - 1
<1>5. g \in [0 .. m -> 0 .. Len(s)] /\ g[m] = f[m] /\ LaysTo(g, m, p, s, any)
  <2>1. m \in 0 .. m
    OBVIOUS
  <2> QED
    BY <1>3, <1>4, <2>1
<1>6. m \in 0 .. Len(p) - 1 /\ m + 1 = n /\ u \in 0 .. Len(s)
  OBVIOUS
<1>7. Reaches(m + 1, u, p, s, any)
  <2>1. f[m] \in 0 .. Len(s) /\ f[m] <= u /\ p[m + 1] = "*"
    BY <1>2, <1>6
  <2> HIDE DEF m
  <2>2. Reaches(m, f[m], p, s, any)
    BY <1>5 DEF Reaches
  <2> QED
    BY <1>6, <2>1, <2>2, ReachesMore
<1> QED
  BY <1>6, <1>7

(* A run without a star takes up as much as it has.                          *)
LEMMA ReachesRun ==
  ASSUME NEW C, NEW p \in Seq(C), NEW s \in Seq(C), NEW any,
         NEW n \in 0 .. Len(p), NEW t \in 0 .. Len(s), NEW k \in Nat,
         n + k <= Len(p), t + k <= Len(s), Reaches(n, t, p, s, any),
         \A i \in 1 .. k : p[n + i] # "*" /\ (p[n + i] = s[t + i] \/ p[n + i] \in any)
  PROVE  Reaches(n + k, t + k, p, s, any)
<1> DEFINE T == {i \in 0 .. k : Reaches(n + i, t + i, p, s, any)}
<1>1. 0 \in T
  OBVIOUS
<1>2. ASSUME NEW i \in 0 .. k - 1, i \in T PROVE i + 1 \in T
  <2> DEFINE m == n + i
             v == t + i + 1
  <2>0. /\ m \in 0 .. Len(p) - 1 /\ t + i \in 0 .. Len(s) /\ v \in 0 .. Len(s)
        /\ m + 1 = n + (i + 1) /\ v = t + (i + 1) /\ v = (t + i) + 1
        /\ i + 1 \in 1 .. k
    OBVIOUS
  <2>1. p[m + 1] # "*" /\ (p[m + 1] = s[v] \/ p[m + 1] \in any)
    <3> HIDE DEF m, v, T
    <3> QED
      BY <2>0
  <2>2. Reaches(m, t + i, p, s, any)
    BY <1>2
  <2>3. Reaches(m + 1, v, p, s, any)
    <3> HIDE DEF m, T
    <3> QED
      BY <2>0, <2>1, <2>2, ReachesMore
  <2> QED
    BY <2>0, <2>3
<1> HIDE DEF T
<1>3. 0 .. k \subseteq T
  BY <1>1, <1>2, UpTo
<1> QED
  BY <1>3 DEF T

\* k of the pattern behind the first i without a star.
Starless(i, k, p) == \A m \in 1 .. k : p[i + m] # "*"

(* However the pattern is laid, what a run without a star takes up is fixed. *)
LEMMA RunIsFixed ==
  ASSUME NEW C, NEW p \in Seq(C), NEW s \in Seq(C), NEW any, NEW f,
         Whole(f, p, s, any), NEW i \in 0 .. Len(p), NEW k \in Nat,
         i + k <= Len(p), Starless(i, k, p)
  PROVE  \A m \in 0 .. k : f[i + m] = f[i] + m
<1> DEFINE T == {m \in 0 .. k : f[i + m] = f[i] + m}
<1>0. f[i] \in Nat
  BY DEF Whole
<1>1. 0 \in T
  BY <1>0
<1>2. ASSUME NEW m \in 0 .. k - 1, m \in T PROVE m + 1 \in T
  <2> DEFINE j == i + (m + 1)
  <2>1. j \in 1 .. Len(p) /\ j - 1 = i + m /\ m + 1 \in 1 .. k
    OBVIOUS
  <2>2. f[j] = f[j - 1] + 1
    <3> HIDE DEF T
    <3>1. p[j] # "*"
      BY <2>1 DEF Starless
    <3> QED
      BY <2>1, <3>1 DEF Whole, Lays
  <2> QED
    BY <1>0, <1>2, <2>1, <2>2
<1> HIDE DEF T
<1>3. 0 .. k \subseteq T
  BY <1>1, <1>2, UpTo
<1> QED
  BY <1>3 DEF T

(* More of the pattern takes up no less of the subject.                      *)
LEMMA LaidInOrder ==
  ASSUME NEW C, NEW p \in Seq(C), NEW s \in Seq(C), NEW any, NEW f,
         Whole(f, p, s, any), NEW i \in 0 .. Len(p)
  PROVE  \A j \in i .. Len(p) : f[i] <= f[j]
<1> DEFINE T == {j \in i .. Len(p) : f[i] <= f[j]}
<1>0. \A j \in 0 .. Len(p) : f[j] \in Nat
  BY DEF Whole
<1>1. i \in T
  BY <1>0
<1>2. ASSUME NEW j \in i .. Len(p) - 1, j \in T PROVE j + 1 \in T
  <2>1. j + 1 \in 1 .. Len(p) /\ f[j] \in Nat /\ f[j + 1] \in Nat
    BY <1>0
  <2>2. f[j] <= f[j + 1]
    <3> DEFINE n == j + 1
    <3>1. n \in 1 .. Len(p) /\ n - 1 = j
      OBVIOUS
    <3>2. f[n - 1] <= f[n] \/ f[n] = f[n - 1] + 1
      <4> HIDE DEF n, T
      <4> QED
        BY <3>1 DEF Whole, Lays
    <3> QED
      BY <2>1, <3>1, <3>2
  <2> QED
    BY <1>0, <1>2, <2>1, <2>2
<1> HIDE DEF T
<1>3. i .. Len(p) \subseteq T
  <2>1. i \in Nat /\ Len(p) \in Nat
    OBVIOUS
  <2> QED
    BY <1>1, <1>2, <2>1, UpTo
<1> QED
  BY <1>3 DEF T

-------------------------------------------------------------------------------
(* globMatch. *)

\* What `?` stands for: the one character more a pattern may have.
One == {"?"}

\* Since the last star every character of the pattern was compared with one of
\* the subject, from the mark on.
Compares(pi, si, star, mark, p, s) ==
  /\ pi \in 1 .. Len(p) + 1
  /\ star \in 0 .. pi - 1
  /\ mark \in 1 .. Len(s) + 1
  /\ si \in mark .. Len(s) + 1
  /\ si - mark = pi - star - 1
  /\ star = 0 => mark = 1
  /\ star > 0 => p[star] = "*"
  /\ \A k \in 1 .. si - mark :
       p[star + k] # "*" /\ p[star + k] \in {"?", s[mark - 1 + k]}

\* The pattern up to the star can be laid along what is before the mark, and
\* however the whole is laid, the star ends there or later.
Holds(pi, si, star, mark, p, s) ==
  /\ Compares(pi, si, star, mark, p, s)
  /\ Reaches(star, mark - 1, p, s, One)
  /\ \A f : Whole(f, p, s, One) => f[star] >= mark - 1

(* The loop starts as it goes on.                                            *)
LEMMA LoopStarts ==
  ASSUME NEW C, NEW p \in Seq(C), NEW s \in Seq(C)
  PROVE  Holds(1, 1, 0, 1, p, s)
<1>1. Compares(1, 1, 0, 1, p, s)
  BY DEF Compares
<1>2. Reaches(0, 1 - 1, p, s, One)
  BY ReachesNothing
<1>3. \A f : Whole(f, p, s, One) => f[0] >= 1 - 1
  BY DEF Whole, Lays
<1> QED
  BY <1>1, <1>2, <1>3 DEF Holds

(* What was compared, however the whole is laid.                             *)
LEMMA ComparedIsFixed ==
  ASSUME NEW C, NEW p \in Seq(C), NEW s \in Seq(C),
         NEW pi \in Nat, NEW si \in Nat, NEW star \in Nat, NEW mark \in Nat,
         Holds(pi, si, star, mark, p, s), NEW f, Whole(f, p, s, One)
  PROVE  /\ f[star] \in mark - 1 .. Len(s)
         /\ f[pi - 1] = f[star] + (si - mark)
         /\ star = 0 => f[star] = mark - 1
<1>1. Compares(pi, si, star, mark, p, s)
  BY DEF Holds
<1> DEFINE k == si - mark
<1>2. /\ k \in Nat /\ star \in 0 .. Len(p) /\ star + k = pi - 1
      /\ star + k <= Len(p)
  BY <1>1 DEF Compares
<1>3. Starless(star, k, p)
  BY <1>1 DEF Compares, Starless
<1>4. f[star + k] = f[star] + k
  <2> HIDE DEF k
  <2>1. \A m \in 0 .. k : f[star + m] = f[star] + m
    BY <1>2, <1>3, RunIsFixed
  <2> QED
    BY <1>2, <2>1
<1>7. f[pi - 1] = f[star] + k
  <2> HIDE DEF k
  <2> QED
    BY <1>2, <1>4
<1>5. f[star] \in 0 .. Len(s) /\ f[star] >= mark - 1
  BY <1>2 DEF Whole, Holds
<1>6. star = 0 => f[star] = 0 /\ mark = 1
  BY <1>1 DEF Whole, Lays, Compares
<1> QED
  BY <1>5, <1>6, <1>7

(* What was compared can be laid.                                            *)
LEMMA ComparedReaches ==
  ASSUME NEW C, NEW p \in Seq(C), NEW s \in Seq(C),
         NEW pi \in Nat, NEW si \in Nat, NEW star \in Nat, NEW mark \in Nat,
         Holds(pi, si, star, mark, p, s)
  PROVE  Reaches(pi - 1, si - 1, p, s, One)
<1>1. Compares(pi, si, star, mark, p, s)
  BY DEF Holds
<1> DEFINE k == si - mark
           t == mark - 1
<1>2. /\ k \in Nat /\ star \in 0 .. Len(p) /\ t \in 0 .. Len(s)
      /\ star + k = pi - 1 /\ t + k = si - 1
      /\ star + k <= Len(p) /\ t + k <= Len(s)
  BY <1>1 DEF Compares
<1>3. Reaches(star, t, p, s, One)
  BY DEF Holds
<1>4. \A i \in 1 .. k :
        p[star + i] # "*" /\ (p[star + i] = s[t + i] \/ p[star + i] \in One)
  BY <1>1 DEF Compares, One
<1>5. Reaches(star + k, t + k, p, s, One)
  <2> HIDE DEF k, t
  <2> QED
    BY <1>2, <1>3, <1>4, ReachesRun
<1> QED
  BY <1>2, <1>5

(* The next characters fit.                                                  *)
LEMMA FitHolds ==
  ASSUME NEW C, NEW p \in Seq(C), NEW s \in Seq(C),
         NEW pi \in Nat, NEW si \in Nat, NEW star \in Nat, NEW mark \in Nat,
         Holds(pi, si, star, mark, p, s),
         si <= Len(s), pi <= Len(p), p[pi] \in {"?", s[si]}, s[si] # "*"
  PROVE  Holds(pi + 1, si + 1, star, mark, p, s)
<1>1. Compares(pi, si, star, mark, p, s)
  BY DEF Holds
<1>2. /\ pi + 1 \in 1 .. Len(p) + 1 /\ star \in 0 .. (pi + 1) - 1
      /\ mark \in 1 .. Len(s) + 1 /\ si + 1 \in mark .. Len(s) + 1
      /\ (si + 1) - mark = (pi + 1) - star - 1
      /\ star = 0 => mark = 1
      /\ star > 0 => p[star] = "*"
  BY <1>1 DEF Compares
<1>3. ASSUME NEW k \in 1 .. (si + 1) - mark
      PROVE  p[star + k] # "*" /\ p[star + k] \in {"?", s[mark - 1 + k]}
  <2>1. CASE k \in 1 .. si - mark
    BY <1>1, <2>1 DEF Compares
  <2>2. CASE k \notin 1 .. si - mark
    <3>1. star + k = pi /\ mark - 1 + k = si
      BY <1>1, <2>2 DEF Compares
    <3>2. p[pi] # "*"
      OBVIOUS
    <3> QED
      BY <3>1, <3>2
  <2> QED
    BY <2>1, <2>2
<1>4. Compares(pi + 1, si + 1, star, mark, p, s)
  BY <1>2, <1>3 DEF Compares
<1> QED
  BY <1>4 DEF Holds

(* The pattern goes on with a star.                                          *)
LEMMA StarHolds ==
  ASSUME NEW C, NEW p \in Seq(C), NEW s \in Seq(C),
         NEW pi \in Nat, NEW si \in Nat, NEW star \in Nat, NEW mark \in Nat,
         Holds(pi, si, star, mark, p, s),
         si <= Len(s), pi <= Len(p), p[pi] = "*"
  PROVE  Holds(pi + 1, si, pi, si, p, s)
<1>1. Compares(pi, si, star, mark, p, s)
  BY DEF Holds
<1>2. Compares(pi + 1, si, pi, si, p, s)
  BY <1>1 DEF Compares
<1>3. Reaches(pi, si - 1, p, s, One)
  <2> DEFINE n == pi - 1
             t == si - 1
  <2>1. Reaches(n, t, p, s, One)
    BY ComparedReaches
  <2>2. n \in 0 .. Len(p) - 1 /\ t \in 0 .. Len(s) /\ n + 1 = pi /\ t <= t
    BY <1>1 DEF Compares
  <2>3. p[n + 1] = "*"
    BY <2>2
  <2>4. Reaches(n + 1, t, p, s, One)
    <3> HIDE DEF n, t
    <3> QED
      BY <2>1, <2>2, <2>3, ReachesMore
  <2> QED
    BY <2>2, <2>4
<1>4. ASSUME NEW f, Whole(f, p, s, One) PROVE f[pi] >= si - 1
  <2>1. /\ f[star] \in mark - 1 .. Len(s)
        /\ f[pi - 1] = f[star] + (si - mark)
    BY <1>4, ComparedIsFixed
  <2>2. pi \in 1 .. Len(p) /\ pi \in 0 .. Len(p) /\ f[pi] \in Nat
    BY <1>1, <1>4 DEF Compares, Whole
  <2>3. f[pi - 1] <= f[pi]
    BY <1>4, <2>2 DEF Whole, Lays
  <2> QED
    BY <2>1, <2>2, <2>3
<1> QED
  BY <1>2, <1>3, <1>4 DEF Holds

\* The loop has come to characters that do not fit.
Differs(pi, si, p, s) ==
  pi <= Len(p) => p[pi] # "*" /\ p[pi] \notin {"?", s[si]}

(* At a mismatch the star, or the beginning, cannot end at the mark.         *)
LEMMA NotAtTheMark ==
  ASSUME NEW C, NEW p \in Seq(C), NEW s \in Seq(C),
         NEW pi \in Nat, NEW si \in Nat, NEW star \in Nat, NEW mark \in Nat,
         Holds(pi, si, star, mark, p, s), si <= Len(s), Differs(pi, si, p, s),
         NEW f, Whole(f, p, s, One)
  PROVE  f[star] # mark - 1
<1> SUFFICES ASSUME f[star] = mark - 1 PROVE FALSE
  OBVIOUS
<1>1. Compares(pi, si, star, mark, p, s)
  BY DEF Holds
<1>2. f[pi - 1] = si - 1
  BY ComparedIsFixed
<1>3. CASE pi <= Len(p)
  <2>1. pi \in 1 .. Len(p)
    BY <1>1, <1>3 DEF Compares
  <2>2. f[pi] = f[pi - 1] + 1 /\ (p[pi] = s[f[pi]] \/ p[pi] \in One)
    BY <1>3, <2>1 DEF Whole, Lays, Differs
  <2>3. f[pi] = si
    BY <1>2, <2>2
  <2> QED
    BY <1>3, <2>2, <2>3 DEF Differs, One
<1>4. CASE pi > Len(p)
  <2>1. pi - 1 = Len(p)
    BY <1>1, <1>4 DEF Compares
  <2> QED
    BY <1>2, <2>1 DEF Whole
<1> QED
  BY <1>3, <1>4

(* Back to the star, which takes up one more.                                *)
LEMMA BackHolds ==
  ASSUME NEW C, NEW p \in Seq(C), NEW s \in Seq(C),
         NEW pi \in Nat, NEW si \in Nat, NEW star \in Nat, NEW mark \in Nat,
         Holds(pi, si, star, mark, p, s), si <= Len(s), Differs(pi, si, p, s),
         star > 0
  PROVE  Holds(star + 1, mark + 1, star, mark + 1, p, s)
<1>1. Compares(pi, si, star, mark, p, s)
  BY DEF Holds
<1>2. Compares(star + 1, mark + 1, star, mark + 1, p, s)
  BY <1>1 DEF Compares
<1>3. Reaches(star, mark, p, s, One)
  <2> DEFINE t == mark - 1
  <2>1. /\ star \in 1 .. Len(p) /\ t \in 0 .. Len(s) /\ mark \in t .. Len(s)
        /\ p[star] = "*"
    BY <1>1 DEF Compares
  <2>2. Reaches(star, t, p, s, One)
    BY DEF Holds
  <2> HIDE DEF t
  <2> QED
    BY <2>1, <2>2, StarTakesMore
<1>4. ASSUME NEW f, Whole(f, p, s, One) PROVE f[star] >= mark
  <2>1. f[star] \in mark - 1 .. Len(s)
    BY <1>4, ComparedIsFixed
  <2>2. f[star] # mark - 1
    BY <1>4, NotAtTheMark
  <2> QED
    BY <2>1, <2>2
<1>5. (mark + 1) - 1 = mark
  OBVIOUS
<1> QED
  BY <1>2, <1>3, <1>4, <1>5 DEF Holds

(* No star to go back to: the pattern does not match.                        *)
LEMMA NothingToGoBackTo ==
  ASSUME NEW C, NEW p \in Seq(C), NEW s \in Seq(C),
         NEW pi \in Nat, NEW si \in Nat, NEW mark \in Nat,
         Holds(pi, si, 0, mark, p, s), si <= Len(s), Differs(pi, si, p, s)
  PROVE  ~Matches(p, s, One)
<1> SUFFICES ASSUME NEW f, Whole(f, p, s, One) PROVE FALSE
  BY MatchesReaches
<1> QED
  BY ComparedIsFixed, NotAtTheMark

(* At the end of the subject the rest of the pattern decides.                *)
LEMMA TheRestDecides ==
  ASSUME NEW C, NEW p \in Seq(C), NEW s \in Seq(C),
         NEW pi \in Nat, NEW si \in Nat, NEW star \in Nat, NEW mark \in Nat,
         Holds(pi, si, star, mark, p, s), si > Len(s)
  PROVE  OnlyStars(p, pi) <=> Matches(p, s, One)
<1>1. Compares(pi, si, star, mark, p, s)
  BY DEF Holds
<1>2. si - 1 = Len(s) /\ pi \in 1 .. Len(p) + 1 /\ Len(s) \in 0 .. Len(s)
  BY <1>1 DEF Compares
<1>3. ASSUME OnlyStars(p, pi) PROVE Matches(p, s, One)
  <2> DEFINE lo == pi - 1
             T == {n \in lo .. Len(p) : Reaches(n, Len(s), p, s, One)}
  <2>0. lo \in Nat /\ Len(p) \in Nat /\ lo <= Len(p)
    BY <1>2
  <2>1. lo \in T
    <3>1. Reaches(pi - 1, si - 1, p, s, One)
      BY ComparedReaches
    <3>2. Reaches(lo, Len(s), p, s, One)
      BY <1>2, <3>1
    <3> QED
      BY <2>0, <3>2
  <2>2. ASSUME NEW n \in lo .. Len(p) - 1, n \in T PROVE n + 1 \in T
    <3>1. p[n + 1] = "*"
      BY <1>3, <2>0 DEF OnlyStars
    <3>2. n \in 0 .. Len(p) - 1 /\ n + 1 \in lo .. Len(p)
      BY <2>0
    <3>3. Reaches(n, Len(s), p, s, One)
      BY <2>2
    <3>4. Len(s) <= Len(s)
      OBVIOUS
    <3>5. Reaches(n + 1, Len(s), p, s, One)
      <4> HIDE DEF lo, T
      <4> QED
        BY <1>2, <3>1, <3>2, <3>3, <3>4, ReachesMore
    <3> QED
      BY <3>2, <3>5
  <2> HIDE DEF T
  <2>3. lo .. Len(p) \subseteq T
    BY <2>0, <2>1, <2>2, UpTo
  <2>4. Len(p) \in lo .. Len(p)
    BY <2>0
  <2>5. Reaches(Len(p), Len(s), p, s, One)
    BY <2>3, <2>4 DEF T
  <2> QED
    BY <2>5, MatchesReaches
<1>4. ASSUME NEW f, Whole(f, p, s, One), NEW i \in pi .. Len(p), p[i] # "*" PROVE FALSE
  <2>1. f[pi - 1] >= Len(s)
    <3>1. /\ f[star] \in mark - 1 .. Len(s)
          /\ f[pi - 1] = f[star] + (si - mark)
      BY <1>4, ComparedIsFixed
    <3> QED
      BY <1>2, <3>1
  <2> DEFINE lo == pi - 1
             j == i - 1
  <2>2. lo \in 0 .. Len(p) /\ j \in lo .. Len(p) /\ i \in 1 .. Len(p)
    BY <1>2
  <2>3. f[lo] <= f[j]
    <3> HIDE DEF lo, j
    <3> QED
      BY <1>4, <2>2, LaidInOrder
  <2>4. f[i] = f[i - 1] + 1
    BY <1>4, <2>2 DEF Whole, Lays
  <2>5. i \in 0 .. Len(p) /\ j \in 0 .. Len(p)
    BY <2>2
  <2>6. f[i] \in 0 .. Len(s) /\ f[j] \in 0 .. Len(s) /\ f[lo] \in 0 .. Len(s)
    <3> HIDE DEF lo, j
    <3> QED
      BY <1>4, <2>2, <2>5 DEF Whole
  <2> QED
    BY <2>1, <2>3, <2>4, <2>6
<1> QED
  BY <1>3, <1>4, MatchesReaches DEF OnlyStars

\* The variables of the loop.
Loops == [pi : Nat, si : Nat, star : Nat, mark : Nat]

InLoop(p, s, at) ==
  at \in Loops /\ Holds(at.pi, at.si, at.star, at.mark, p, s)

\* The rounds make it larger.
Weight(p, at) == (at.star + at.mark) * (Len(p) + 2) + at.pi

(* The leading figure decides.                                               *)
LEMMA Heavier ==
  ASSUME NEW a \in Nat, NEW b \in Nat, NEW c \in Nat, NEW x \in Nat, NEW y \in Nat,
         a < b, x < c
  PROVE  a * c + x < b * c + y
<1>1. PICK d \in Nat : b = a + 1 + d
  <2>1. b - a - 1 \in Nat /\ b = a + 1 + (b - a - 1)
    OBVIOUS
  <2> QED
    BY <2>1
<1>2. b * c = a * c + c + d * c
  BY <1>1
<1>3. d * c \in Nat /\ a * c \in Nat
  OBVIOUS
<1> QED
  BY <1>2, <1>3

(* A round of globMatch keeps what the loop holds; unless the loop is over   *)
(* it makes it heavier.                                                      *)
LEMMA RoundHolds ==
  ASSUME NEW C, NEW p \in Seq(C), NEW s \in Seq(C),
         \A i \in 1 .. Len(s) : s[i] # "*",
         NEW at, InLoop(p, s, at)
  PROVE  /\ InLoop(p, s, Round(p, s, at))
         /\ Round(p, s, at) # at => Weight(p, Round(p, s, at)) > Weight(p, at)
<1> DEFINE to == Round(p, s, at)
           pi == at.pi
           si == at.si
           star == at.star
           mark == at.mark
<1>0. at \in Loops /\ pi \in Nat /\ si \in Nat /\ star \in Nat /\ mark \in Nat
      /\ Holds(pi, si, star, mark, p, s)
  BY DEF InLoop, Loops
<1>1. at = [pi |-> pi, si |-> si, star |-> star, mark |-> mark]
  BY <1>0 DEF Loops
<1>2. /\ Len(p) \in Nat /\ 1 <= pi /\ pi <= Len(p) + 1 /\ 1 <= si
      /\ star < pi /\ mark <= si
  BY <1>0 DEF Holds, Compares
<1> SUFFICES ASSUME to # at
             PROVE  InLoop(p, s, to) /\ Weight(p, to) > Weight(p, at)
  OBVIOUS
<1>3. si <= Len(s)
  <2>1. at.si > Len(s) => to = at
    BY DEF Round
  <2> QED
    BY <1>0, <2>1
<1>4. CASE Fits(p, s, at)
  <2>1. to = [pi |-> pi + 1, si |-> si + 1, star |-> star, mark |-> mark]
    BY <1>1, <1>3, <1>4 DEF Round
  <2>2. pi <= Len(p) /\ p[pi] \in {"?", s[si]} /\ s[si] # "*"
    BY <1>0, <1>2, <1>3, <1>4 DEF Fits
  <2>3. Holds(pi + 1, si + 1, star, mark, p, s)
    <3> HIDE DEF pi, si, star, mark
    <3> QED
      BY <1>0, <1>3, <2>2, FitHolds
  <2>4. InLoop(p, s, to)
    <3> HIDE DEF to, pi, si, star, mark
    <3> QED
      BY <1>0, <2>1, <2>3 DEF InLoop, Loops
  <2>5. Weight(p, to) = Weight(p, at) + 1
    <3>1. Weight(p, to) = (star + mark) * (Len(p) + 2) + (pi + 1)
      <4> HIDE DEF to, pi, si, star, mark
      <4> QED
        BY <2>1 DEF Weight
    <3>2. (star + mark) * (Len(p) + 2) \in Nat
      BY <1>0, <1>2
    <3> QED
      BY <1>0, <3>1, <3>2 DEF Weight
  <2>6. Weight(p, at) \in Nat
    <3>1. (star + mark) * (Len(p) + 2) \in Nat
      BY <1>0, <1>2
    <3>2. (star + mark) * (Len(p) + 2) + pi \in Nat
      <4> HIDE DEF star, mark, pi
      <4> QED
        BY <1>0, <3>1
    <3> QED
      BY <3>2 DEF Weight
  <2> QED
    BY <2>4, <2>5, <2>6
<1>5. CASE ~Fits(p, s, at) /\ OnStar(p, at)
  <2>1. to = [pi |-> pi + 1, si |-> si, star |-> pi, mark |-> si]
    BY <1>1, <1>3, <1>5 DEF Round
  <2>2. pi <= Len(p) /\ p[pi] = "*"
    BY <1>5 DEF OnStar
  <2>3. Holds(pi + 1, si, pi, si, p, s)
    <3> HIDE DEF pi, si, star, mark
    <3> QED
      BY <1>0, <1>3, <2>2, StarHolds
  <2>4. InLoop(p, s, to)
    <3> HIDE DEF to, pi, si, star, mark
    <3> QED
      BY <1>0, <2>1, <2>3 DEF InLoop, Loops
  <2>5. (star + mark) * (Len(p) + 2) + pi < (pi + si) * (Len(p) + 2) + (pi + 1)
    <3>1. /\ star + mark \in Nat /\ pi + si \in Nat /\ Len(p) + 2 \in Nat
          /\ pi + 1 \in Nat /\ star + mark < pi + si /\ pi < Len(p) + 2
      BY <1>0, <1>2
    <3> HIDE DEF pi, si, star, mark
    <3> QED
      BY <1>0, <3>1, Heavier
  <2>6. Weight(p, to) = (pi + si) * (Len(p) + 2) + (pi + 1)
    <3> HIDE DEF to, pi, si, star, mark
    <3> QED
      BY <2>1 DEF Weight
  <2> QED
    BY <2>4, <2>5, <2>6 DEF Weight
<1>6. CASE ~Fits(p, s, at) /\ ~OnStar(p, at)
  <2>0. star > 0
    BY <1>0, <1>3, <1>6 DEF Round
  <2>1. to = [pi |-> star + 1, si |-> mark + 1, star |-> star, mark |-> mark + 1]
    BY <1>1, <1>3, <1>6, <2>0 DEF Round
  <2>2. Differs(pi, si, p, s)
    BY <1>6 DEF Fits, OnStar, Differs
  <2>3. Holds(star + 1, mark + 1, star, mark + 1, p, s)
    <3> HIDE DEF pi, si, star, mark
    <3> QED
      BY <1>0, <1>3, <2>0, <2>2, BackHolds
  <2>4. InLoop(p, s, to)
    <3> HIDE DEF to, pi, si, star, mark
    <3> QED
      BY <1>0, <2>1, <2>3 DEF InLoop, Loops
  <2>5. (star + mark) * (Len(p) + 2) + pi
          < (star + (mark + 1)) * (Len(p) + 2) + (star + 1)
    <3>1. /\ star + mark \in Nat /\ star + (mark + 1) \in Nat /\ Len(p) + 2 \in Nat
          /\ star + 1 \in Nat /\ star + mark < star + (mark + 1) /\ pi < Len(p) + 2
      BY <1>0, <1>2
    <3> HIDE DEF pi, si, star, mark
    <3> QED
      BY <1>0, <3>1, Heavier
  <2>6. Weight(p, to) = (star + (mark + 1)) * (Len(p) + 2) + (star + 1)
    <3> HIDE DEF to, pi, si, star, mark
    <3> QED
      BY <2>1 DEF Weight
  <2> QED
    BY <2>4, <2>5, <2>6 DEF Weight
<1> QED
  BY <1>4, <1>5, <1>6

(* It is a number.                                                           *)
LEMMA WeightNat ==
  ASSUME NEW C, NEW p \in Seq(C), NEW s, NEW at, InLoop(p, s, at)
  PROVE  Weight(p, at) \in Nat
<1> DEFINE a == at.star + at.mark
           c == Len(p) + 2
<1>1. a \in Nat /\ c \in Nat /\ at.pi \in Nat
  BY DEF InLoop, Loops
<1>2. a * c + at.pi \in Nat
  <2> HIDE DEF a, c
  <2>1. a * c \in Nat
    BY <1>1
  <2> QED
    BY <1>1, <2>1
<1> QED
  BY <1>2 DEF Weight

\* The equation of the loop in globMatch.
Walks(w, p, s) ==
  w = [n \in 0 .. Rounds(p, s) |->
         IF n = 0 THEN LoopStart ELSE Round(p, s, w[n - 1])]

(* Glob looks at the last value of a loop that satisfies the equation.       *)
LEMMA GlobWalks ==
  ASSUME NEW p, NEW s
  PROVE  LET w == CHOOSE w : Walks(w, p, s)
         IN  Glob(p, s) <=> /\ w[Rounds(p, s)].si > Len(s)
                            /\ OnlyStars(p, w[Rounds(p, s)].pi)
  BY DEF Glob, Walks

(* The number of rounds is one.                                              *)
LEMMA RoundsNat ==
  ASSUME NEW C, NEW p \in Seq(C), NEW s \in Seq(C)
  PROVE  Rounds(p, s) \in Nat
<1> DEFINE a == Len(p) + Len(s) + 1
           b == Len(p) + 2
<1>1. a \in Nat /\ b \in Nat
  OBVIOUS
<1>2. a * b \in Nat
  <2> HIDE DEF a, b
  <2> QED
    BY <1>1
<1> QED
  BY <1>2 DEF Rounds

(* There is one.                                                             *)
LEMMA SomeWalk ==
  ASSUME NEW C, NEW p \in Seq(C), NEW s \in Seq(C)
  PROVE  \E w : Walks(w, p, s)
<1> DEFINE N == Rounds(p, s)
           step == [n \in 1 .. N |-> [at \in Loops |-> Round(p, s, at)]]
<1>1. N \in Nat
  BY RoundsNat
<1>2. LoopStart \in Loops
  BY DEF LoopStart, Loops
<1>3. ASSUME NEW at \in Loops PROVE Round(p, s, at) \in Loops
  <2>2. /\ at.pi \in Nat /\ at.si \in Nat /\ at.star \in Nat /\ at.mark \in Nat
        /\ at = [pi |-> at.pi, si |-> at.si, star |-> at.star, mark |-> at.mark]
    BY DEF Loops
  <2>3. \/ Round(p, s, at) = at
        \/ Round(p, s, at) = [pi |-> at.pi + 1, si |-> at.si + 1,
                              star |-> at.star, mark |-> at.mark]
        \/ Round(p, s, at) = [pi |-> at.pi + 1, si |-> at.si,
                              star |-> at.pi, mark |-> at.si]
        \/ Round(p, s, at) = [pi |-> at.star + 1, si |-> at.mark + 1,
                              star |-> at.star, mark |-> at.mark + 1]
    BY <2>2 DEF Round
  <2> QED
    BY <2>2, <2>3 DEF Loops
<1>4. step \in Steps(N, Loops)
  BY <1>3 DEF Steps
<1>5. \A n \in 1 .. N, at \in Loops : step[n][at] = Round(p, s, at)
  OBVIOUS
<1> HIDE DEF N, step
<1>6. PICK w \in [0 .. N -> Loops] : Leads(w, LoopStart, step, N)
  BY <1>1, <1>2, <1>4, Iterate
<1> DEFINE v == [n \in 0 .. N |-> IF n = 0 THEN LoopStart ELSE Round(p, s, w[n - 1])]
<1>7. ASSUME NEW n \in 0 .. N PROVE w[n] = v[n]
  <2>1. CASE n = 0
    BY <1>6, <2>1 DEF Leads
  <2>2. CASE n # 0
    <3>1. n \in 1 .. N /\ n - 1 \in 0 .. N
      BY <2>2, <1>1
    <3>2. w[n] = step[n][w[n - 1]]
      BY <1>6, <3>1 DEF Leads
    <3>3. w[n - 1] \in Loops
      BY <1>6, <3>1
    <3>4. w[n] = Round(p, s, w[n - 1])
      BY <1>5, <3>1, <3>2, <3>3
    <3> QED
      BY <2>2, <3>4
  <2> QED
    BY <2>1, <2>2
<1>8. w = v
  <2>1. v = [n \in 0 .. N |-> v[n]] /\ w = [n \in 0 .. N |-> w[n]]
    BY <1>6
  <2> HIDE DEF v
  <2> QED
    BY <1>7, <2>1
<1> QED
  BY <1>8 DEF Walks, N

(* Where the loop is after so many rounds, it is over or has grown as heavy. *)
LEMMA WalkHolds ==
  ASSUME NEW C, NEW p \in Seq(C), NEW s \in Seq(C),
         \A i \in 1 .. Len(s) : s[i] # "*",
         NEW w, Walks(w, p, s)
  PROVE  \A n \in 0 .. Rounds(p, s) :
           /\ InLoop(p, s, w[n])
           /\ Round(p, s, w[n]) = w[n] \/ Weight(p, w[n]) >= n
<1> DEFINE N == Rounds(p, s)
           Q(n) == /\ InLoop(p, s, w[n])
                   /\ Round(p, s, w[n]) = w[n] \/ Weight(p, w[n]) >= n
           T == {n \in 0 .. N : Q(n)}
<1>0. N \in Nat
  BY RoundsNat
<1>1. 0 \in T
  <2>1. w[0] = LoopStart
    BY <1>0 DEF Walks
  <2>2. InLoop(p, s, LoopStart)
    BY LoopStarts DEF InLoop, LoopStart, Loops
  <2>3. Weight(p, LoopStart) >= 0
    BY DEF Weight, LoopStart
  <2> QED
    BY <1>0, <2>1, <2>2, <2>3
<1>2. ASSUME NEW n \in 0 .. N - 1, n \in T PROVE n + 1 \in T
  <2> DEFINE m == n + 1
             at == w[n]
  <2>1. m \in 0 .. N /\ m # 0 /\ m - 1 = n
    BY <1>0
  <2>2. w[m] = Round(p, s, at)
    BY <2>1 DEF Walks
  <2>3. InLoop(p, s, at) /\ (Round(p, s, at) = at \/ Weight(p, at) >= n)
    BY <1>2
  <2>4. /\ InLoop(p, s, w[m])
        /\ w[m] # at => Weight(p, w[m]) > Weight(p, at)
    <3> HIDE DEF at, m
    <3> QED
      BY <2>2, <2>3, RoundHolds
  <2>5. Weight(p, at) \in Nat /\ Weight(p, w[m]) \in Nat
    BY <2>3, <2>4, WeightNat
  <2>6. Round(p, s, w[m]) = w[m] \/ Weight(p, w[m]) >= m
    <3>1. CASE w[m] = at
      BY <2>2, <3>1
    <3>2. CASE w[m] # at
      <4>1. Weight(p, w[m]) > Weight(p, at) /\ Weight(p, at) >= n
        BY <2>2, <2>3, <2>4, <3>2
      <4> QED
        BY <2>5, <4>1
    <3> QED
      BY <3>1, <3>2
  <2> QED
    BY <2>1, <2>4, <2>6
<1> HIDE DEF T, Q
<1>3. 0 .. N \subseteq T
  BY <1>0, <1>1, <1>2, UpTo
<1> QED
  BY <1>3 DEF T, Q

(* Glob matches what the pattern means, if the subject has no star.          *)
LEMMA GlobMatches ==
  ASSUME NEW C, NEW p \in Seq(C), NEW s \in Seq(C),
         \A i \in 1 .. Len(s) : s[i] # "*"
  PROVE  Glob(p, s) <=> Matches(p, s, One)
<1> DEFINE w == CHOOSE w : Walks(w, p, s)
           N == Rounds(p, s)
           at == w[N]
           pi == at.pi
           si == at.si
           star == at.star
           mark == at.mark
<1>1. N \in Nat /\ N \in 0 .. N
  BY RoundsNat
<1>2. Walks(w, p, s)
  BY SomeWalk
<1>3. Glob(p, s) <=> at.si > Len(s) /\ OnlyStars(p, at.pi)
  BY GlobWalks
<1> HIDE DEF w
<1>4. InLoop(p, s, at) /\ (Round(p, s, at) = at \/ Weight(p, at) >= N)
  BY <1>1, <1>2, WalkHolds
<1> HIDE DEF at
<1>5. at \in Loops /\ Holds(pi, si, star, mark, p, s)
  BY <1>4 DEF InLoop
<1>6. pi \in Nat /\ si \in Nat /\ star \in Nat /\ mark \in Nat
  BY <1>5 DEF Loops
<1>7. /\ Len(p) \in Nat /\ Len(s) \in Nat /\ pi <= Len(p) + 1 /\ star <= Len(p)
      /\ mark <= si
  <2> HIDE DEF pi, si, star, mark
  <2> QED
    BY <1>5, <1>6 DEF Holds, Compares
<1> HIDE DEF N
<1>8. CASE si > Len(s)
  <2> HIDE DEF pi, si, star, mark
  <2>1. OnlyStars(p, pi) <=> Matches(p, s, One)
    BY <1>5, <1>6, <1>8, TheRestDecides
  <2> QED
    BY <1>3, <1>8, <2>1 DEF pi, si
<1>9. CASE si <= Len(s)
  <2>0. ~(at.si > Len(s))
    BY <1>6, <1>7, <1>9
  <2>1. Weight(p, at) < Rounds(p, s)
    <3> DEFINE a == star + mark
               b == Len(p) + Len(s) + 1
               c == Len(p) + 2
    <3>1. a \in Nat /\ b \in Nat /\ c \in Nat /\ 0 \in Nat /\ a < b /\ pi < c
      BY <1>6, <1>7, <1>9
    <3>2. a * c + pi < b * c + 0
      <4> HIDE DEF a, b, c, pi
      <4> QED
        BY <1>6, <3>1, Heavier
    <3>3. b * c \in Nat
      <4> HIDE DEF a, b, c, pi
      <4> QED
        BY <3>1
    <3>4. a * c + pi < b * c
      <4> HIDE DEF a, b, c, pi
      <4> QED
        BY <3>2, <3>3
    <3> QED
      BY <3>4 DEF Weight, Rounds
  <2>2. Round(p, s, at) = at
    <3>1. Weight(p, at) \in Nat
      BY <1>4, WeightNat
    <3> QED
      BY <1>1, <1>4, <2>1, <3>1 DEF N
  <2>3. ~Fits(p, s, at)
    <3> SUFFICES ASSUME Fits(p, s, at) PROVE FALSE
      OBVIOUS
    <3>1. Round(p, s, at) = [at EXCEPT !.pi = @ + 1, !.si = @ + 1]
      BY <2>0 DEF Round
    <3>2. Round(p, s, at).pi = pi + 1
      BY <1>5, <3>1 DEF Loops
    <3> QED
      BY <1>6, <2>2, <3>2
  <2>4. ~OnStar(p, at)
    <3> SUFFICES ASSUME OnStar(p, at) PROVE FALSE
      OBVIOUS
    <3>1. Round(p, s, at) = [at EXCEPT !.pi = @ + 1, !.star = at.pi, !.mark = at.si]
      BY <2>0, <2>3 DEF Round
    <3>2. Round(p, s, at).pi = pi + 1
      BY <1>5, <3>1 DEF Loops
    <3> QED
      BY <1>6, <2>2, <3>2
  <2>5. star = 0
    <3> SUFFICES ASSUME at.star > 0 PROVE FALSE
      BY <1>6
    <3>1. Round(p, s, at)
            = [at EXCEPT !.pi = at.star + 1, !.si = at.mark + 1, !.mark = @ + 1]
      BY <2>0, <2>3, <2>4 DEF Round
    <3>2. Round(p, s, at).mark = mark + 1
      BY <1>5, <3>1 DEF Loops
    <3> QED
      BY <1>6, <2>2, <3>2
  <2>6. Differs(pi, si, p, s)
    BY <2>3, <2>4 DEF Differs, Fits, OnStar
  <2>7. ~Matches(p, s, One)
    <3> HIDE DEF pi, si, star, mark
    <3> QED
      BY <1>5, <1>6, <1>9, <2>5, <2>6, NothingToGoBackTo
  <2> QED
    BY <1>3, <1>6, <1>7, <1>9, <2>7
<1> QED
  BY <1>6, <1>7, <1>8, <1>9

-------------------------------------------------------------------------------
(* actionMatches. *)

\* `?` stands for itself.
Itself == {}

\* k of the pattern behind the first i are those behind the first t of a.
Occurs(i, k, t, p, a) == \A j \in 1 .. k : p[i + j] = a[t + j]

(* However the pattern is laid, a run without a star occurs in the subject.  *)
LEMMA RunOccurs ==
  ASSUME NEW C, NEW p \in Seq(C), NEW a \in Seq(C), NEW f, Whole(f, p, a, Itself),
         NEW i \in 0 .. Len(p), NEW k \in Nat, i + k <= Len(p), Starless(i, k, p)
  PROVE  /\ f[i] \in Nat
         /\ f[i + k] = f[i] + k
         /\ f[i] + k <= Len(a)
         /\ Occurs(i, k, f[i], p, a)
<1>1. \A m \in 0 .. k : f[i + m] = f[i] + m
  BY RunIsFixed
<1>2. f[i] \in Nat
  BY DEF Whole
<1>3. f[i + k] = f[i] + k
  BY <1>1
<1>4. f[i + k] <= Len(a)
  <2> DEFINE n == i + k
  <2>1. n \in 0 .. Len(p)
    OBVIOUS
  <2> HIDE DEF n
  <2>2. f[n] <= Len(a)
    BY <2>1 DEF Whole
  <2> QED
    BY <2>2 DEF n
<1>5. ASSUME NEW j \in 1 .. k PROVE p[i + j] = a[f[i] + j]
  <2> DEFINE n == i + j
  <2>0. n \in 1 .. Len(p) /\ j \in 0 .. k /\ j \in 1 .. k
    OBVIOUS
  <2>3. p[n] # "*"
    BY <2>0 DEF Starless
  <2>4. f[n] = f[i] + j
    BY <1>1, <2>0
  <2>1. n \in 1 .. Len(p) /\ p[n] # "*" /\ f[n] = f[i] + j
    BY <2>0, <2>3, <2>4
  <2>2. p[n] = a[f[n]]
    <3> HIDE DEF n
    <3> QED
      BY <2>1 DEF Whole, Lays, Itself
  <2> QED
    BY <2>1, <2>2
<1> QED
  BY <1>2, <1>3, <1>4, <1>5 DEF Occurs

(* A run without a star can be laid where it occurs.                         *)
LEMMA OccursReaches ==
  ASSUME NEW C, NEW p \in Seq(C), NEW a \in Seq(C),
         NEW i \in 0 .. Len(p), NEW k \in Nat, NEW t \in 0 .. Len(a),
         i + k <= Len(p), t + k <= Len(a), Starless(i, k, p),
         Occurs(i, k, t, p, a), Reaches(i, t, p, a, Itself)
  PROVE  Reaches(i + k, t + k, p, a, Itself)
<1>1. \A j \in 1 .. k :
        p[i + j] # "*" /\ (p[i + j] = a[t + j] \/ p[i + j] \in Itself)
  BY DEF Starless, Occurs
<1> QED
  BY <1>1, ReachesRun

\* k of the pattern behind the first i, as actionMatches has them.
Part(i, k, p) == SubSeq(p, i + 1, i + k)

(* The part is those k.                                                      *)
LEMMA PartIs ==
  ASSUME NEW C, NEW p \in Seq(C),
         NEW i \in 0 .. Len(p), NEW k \in Nat, i + k <= Len(p)
  PROVE  /\ Part(i, k, p) \in Seq(C)
         /\ Len(Part(i, k, p)) = k
         /\ \A j \in 1 .. k : Part(i, k, p)[j] = p[i + j]
BY DEF Part

(* Sequences of one length with the same members are the same.               *)
LEMMA SameSequence ==
  ASSUME NEW C, NEW s \in Seq(C), NEW t \in Seq(C), Len(s) = Len(t),
         \A j \in 1 .. Len(s) : s[j] = t[j]
  PROVE  s = t
OBVIOUS

(* Being a prefix, a place, a suffix: to occur there.                        *)
LEMMA PartPlaces ==
  ASSUME NEW C, NEW p \in Seq(C), NEW a \in Seq(C), NEW t \in 0 .. Len(a),
         NEW i \in 0 .. Len(p), NEW k \in Nat, i + k <= Len(p), NEW g \in Nat
  PROVE  t + 1 \in Places(Part(i, k, p), a, g)
           <=> g <= t /\ t + k <= Len(a) /\ Occurs(i, k, t, p, a)
<1> DEFINE part == Part(i, k, p)
           n == t + 1
<1>1. part \in Seq(C) /\ Len(part) = k /\ \A j \in 1 .. k : part[j] = p[i + j]
  BY PartIs
<1> HIDE DEF part
<1>2. n \in Places(part, a, g)
        <=> g <= t /\ t + k <= Len(a) /\ SubSeq(a, n, n + k - 1) = part
  BY <1>1 DEF Places
<1>3. ASSUME t + k <= Len(a)
      PROVE  SubSeq(a, n, n + k - 1) = part <=> Occurs(i, k, t, p, a)
  <2> DEFINE there == SubSeq(a, n, n + k - 1)
  <2>0. n + k - 1 = t + k /\ there = Part(t, k, a)
    <3>1. n + k - 1 = t + k
      OBVIOUS
    <3> QED
      BY <3>1 DEF Part
  <2>1. /\ there \in Seq(C) /\ Len(there) = k
        /\ \A j \in 1 .. k : there[j] = a[t + j]
    <3> HIDE DEF there
    <3> QED
      BY <1>3, <2>0, PartIs
  <2> HIDE DEF there
  <2>2. there = part <=> \A j \in 1 .. k : there[j] = part[j]
    BY <1>1, <2>1, SameSequence
  <2> QED
    BY <1>1, <2>1, <2>2 DEF Occurs, there
<1> QED
  BY <1>2, <1>3 DEF part

LEMMA PartPrefix ==
  ASSUME NEW C, NEW p \in Seq(C), NEW a \in Seq(C),
         NEW i \in 0 .. Len(p), NEW k \in Nat, i + k <= Len(p)
  PROVE  IsPrefix(Part(i, k, p), a) <=> k <= Len(a) /\ Occurs(i, k, 0, p, a)
<1> DEFINE part == Part(i, k, p)
<1>1. part \in Seq(C) /\ Len(part) = k /\ \A j \in 1 .. k : part[j] = p[i + j]
  BY PartIs
<1> HIDE DEF part
<1>2. ASSUME k <= Len(a)
      PROVE  SubSeq(part, 1, k) = SubSeq(a, 1, k) <=> Occurs(i, k, 0, p, a)
  <2> DEFINE there == SubSeq(a, 1, k)
  <2>1. /\ there \in Seq(C) /\ Len(there) = k
        /\ \A j \in 1 .. k : there[j] = a[0 + j]
    BY <1>2
  <2>2. SubSeq(part, 1, k) = part
    BY <1>1
  <2> HIDE DEF there
  <2>3. there = part <=> \A j \in 1 .. k : there[j] = part[j]
    BY <1>1, <2>1, SameSequence
  <2> QED
    BY <1>1, <2>1, <2>2, <2>3 DEF Occurs, there
<1> QED
  BY <1>1, <1>2 DEF part, IsPrefix

LEMMA PartSuffix ==
  ASSUME NEW C, NEW p \in Seq(C), NEW a \in Seq(C),
         NEW i \in 0 .. Len(p), NEW k \in Nat, i + k <= Len(p),
         NEW g \in 0 .. Len(a)
  PROVE  IsSuffix(Part(i, k, p), Rest(a, g))
           <=> g + k <= Len(a) /\ Occurs(i, k, Len(a) - k, p, a)
<1> DEFINE part == Part(i, k, p)
           rest == Rest(a, g)
           n == Len(a) - g
<1>1. part \in Seq(C) /\ Len(part) = k /\ \A j \in 1 .. k : part[j] = p[i + j]
  BY PartIs
<1>2. /\ rest \in Seq(C) /\ n \in Nat /\ Len(rest) = n
      /\ \A j \in 1 .. n : rest[j] = a[g + j]
  BY DEF Rest
<1> HIDE DEF part, rest, n
<1> DEFINE tr == Reverse(part)
           rr == Reverse(rest)
<1>3. tr \in Seq(C) /\ Len(tr) = k /\ \A j \in 1 .. k : tr[j] = part[k - j + 1]
  BY <1>1 DEF Reverse
<1>4. rr \in Seq(C) /\ Len(rr) = n /\ \A j \in 1 .. n : rr[j] = rest[n - j + 1]
  BY <1>2 DEF Reverse
<1> HIDE DEF tr, rr
<1>5. IsSuffix(part, rest)
        <=> k <= n /\ SubSeq(tr, 1, k) = SubSeq(rr, 1, k)
  BY <1>3, <1>4 DEF IsSuffix, IsPrefix, tr, rr
<1>6. ASSUME k <= n
      PROVE  SubSeq(tr, 1, k) = SubSeq(rr, 1, k)
               <=> Occurs(i, k, Len(a) - k, p, a)
  <2> DEFINE there == SubSeq(rr, 1, k)
  <2>1. /\ there \in Seq(C) /\ Len(there) = k
        /\ \A j \in 1 .. k : there[j] = rr[j]
    BY <1>2, <1>4, <1>6
  <2>2. SubSeq(tr, 1, k) = tr
    BY <1>3
  <2> HIDE DEF there
  <2>3. there = tr <=> \A j \in 1 .. k : there[j] = tr[j]
    BY <1>3, <2>1, SameSequence
  <2>4. \A j \in 1 .. k : rr[j] = a[Len(a) - j + 1] /\ tr[j] = p[i + (k - j + 1)]
    <3> SUFFICES ASSUME NEW j \in 1 .. k
                 PROVE  rr[j] = a[Len(a) - j + 1] /\ tr[j] = p[i + (k - j + 1)]
      OBVIOUS
    <3>1. n - j + 1 \in 1 .. n /\ k - j + 1 \in 1 .. k
      BY <1>2, <1>6
    <3>2. g + (n - j + 1) = Len(a) - j + 1
      BY DEF n
    <3>3. j \in 1 .. n
      BY <1>2, <1>6
    <3>4. tr[j] = p[i + (k - j + 1)]
      BY <1>1, <1>3, <3>1
    <3>5. rr[j] = a[g + (n - j + 1)]
      BY <1>2, <1>4, <3>1, <3>3
    <3> QED
      BY <3>2, <3>4, <3>5
  <2>5. (\A j \in 1 .. k : a[Len(a) - j + 1] = p[i + (k - j + 1)])
          <=> Occurs(i, k, Len(a) - k, p, a)
    <3>1. ASSUME \A j \in 1 .. k : a[Len(a) - j + 1] = p[i + (k - j + 1)],
                 NEW j \in 1 .. k
          PROVE  p[i + j] = a[(Len(a) - k) + j]
      <4> DEFINE h == k - j + 1
      <4>1. h \in 1 .. k /\ Len(a) - h + 1 = (Len(a) - k) + j /\ k - h + 1 = j
        OBVIOUS
      <4>2. a[Len(a) - h + 1] = p[i + (k - h + 1)]
        <5> HIDE DEF h
        <5> QED
          BY <3>1, <4>1
      <4> QED
        BY <4>1, <4>2
    <3>2. ASSUME \A j \in 1 .. k : p[i + j] = a[(Len(a) - k) + j],
                 NEW j \in 1 .. k
          PROVE  a[Len(a) - j + 1] = p[i + (k - j + 1)]
      <4> DEFINE h == k - j + 1
      <4>1. h \in 1 .. k /\ (Len(a) - k) + h = Len(a) - j + 1
        OBVIOUS
      <4>2. p[i + h] = a[(Len(a) - k) + h]
        <5> HIDE DEF h
        <5> QED
          BY <3>2, <4>1
      <4> QED
        BY <4>1, <4>2
    <3> QED
      BY <3>1, <3>2 DEF Occurs
  <2>6. (\A j \in 1 .. k : there[j] = tr[j])
          <=> \A j \in 1 .. k : a[Len(a) - j + 1] = p[i + (k - j + 1)]
    <3>1. ASSUME NEW j \in 1 .. k
          PROVE  there[j] = tr[j] <=> a[Len(a) - j + 1] = p[i + (k - j + 1)]
      <4>1. there[j] = rr[j]
        BY ONLY <2>1, j \in 1 .. k
      <4>2. rr[j] = a[Len(a) - j + 1] /\ tr[j] = p[i + (k - j + 1)]
        BY ONLY <2>4, j \in 1 .. k
      <4> QED
        BY ONLY <4>1, <4>2
    <3> QED
      BY ONLY <3>1
  <2> QED
    BY <2>2, <2>3, <2>5, <2>6 DEF there
<1>7. k <= n <=> g + k <= Len(a)
  BY DEF n
<1> QED
  BY <1>5, <1>6, <1>7 DEF part, rest

\* The equation of the cuts.
Cutting(w, p) ==
  w = [n \in 0 .. Len(p) |->
         IF n = 0 THEN <<0>>
         ELSE IF p[n] = "*" THEN Append(w[n - 1], n) ELSE w[n - 1]]

(* The cuts are the last value of a function that satisfies the equation.    *)
LEMMA CutsCut ==
  ASSUME NEW p
  PROVE  LET w == CHOOSE w : Cutting(w, p)
         IN  Cuts(p) = Append(w[Len(p)], Len(p) + 1)
  BY DEF Cuts, Cutting

(* There is one.                                                             *)
LEMMA SomeCutting ==
  ASSUME NEW C, NEW p \in Seq(C)
  PROVE  \E w : Cutting(w, p)
<1> DEFINE N == Len(p)
           S == Seq(Nat)
           Grown(n, c) == IF p[n] = "*" THEN Append(c, n) ELSE c
           step == [n \in 1 .. N |-> [c \in S |-> Grown(n, c)]]
<1>1. N \in Nat
  OBVIOUS
<1>2. <<0>> \in S
  OBVIOUS
<1>3. \A n \in 1 .. N, c \in S : Grown(n, c) \in S
  OBVIOUS
<1> HIDE DEF N, S
<1>4. step \in Steps(N, S)
  <2> HIDE DEF Grown
  <2> QED
    BY <1>3 DEF Steps
<1>5. \A n \in 1 .. N, c \in S : step[n][c] = Grown(n, c)
  OBVIOUS
<1> HIDE DEF step
<1>6. PICK w \in [0 .. N -> S] : Leads(w, <<0>>, step, N)
  BY <1>1, <1>2, <1>4, Iterate
<1> DEFINE v == [n \in 0 .. N |-> IF n = 0 THEN <<0>> ELSE Grown(n, w[n - 1])]
<1>7. ASSUME NEW n \in 0 .. N PROVE w[n] = v[n]
  <2>1. CASE n = 0
    BY <1>6, <2>1 DEF Leads
  <2>2. CASE n # 0
    <3>1. n \in 1 .. N /\ n - 1 \in 0 .. N
      BY <2>2, <1>1
    <3>2. w[n] = step[n][w[n - 1]]
      BY <1>6, <3>1 DEF Leads
    <3>3. w[n - 1] \in S
      BY <1>6, <3>1
    <3> HIDE DEF Grown
    <3>4. w[n] = Grown(n, w[n - 1])
      BY <1>5, <3>1, <3>2, <3>3
    <3> QED
      BY <2>2, <3>4
  <2> QED
    BY <2>1, <2>2
<1>8. w = v
  <2>1. v = [n \in 0 .. N |-> v[n]] /\ w = [n \in 0 .. N |-> w[n]]
    BY <1>6
  <2> HIDE DEF v
  <2> QED
    BY <1>7, <2>1
<1> QED
  BY <1>8 DEF Cutting, N

\* c cuts the first n of the pattern at its stars, and nowhere else.
CutUpTo(c, n, p) ==
  /\ c \in Seq(Nat)
  /\ Len(c) >= 1
  /\ c[1] = 0
  /\ \A k \in 1 .. Len(c) : c[k] \in 0 .. n /\ (k >= 2 => p[c[k]] = "*")
  /\ \A k \in 1 .. Len(c) - 1 :
       c[k] < c[k + 1] /\ Starless(c[k], c[k + 1] - c[k] - 1, p)
  /\ Starless(c[Len(c)], n - c[Len(c)], p)

(* One more of the pattern.                                                  *)
LEMMA CutMore ==
  ASSUME NEW C, NEW p \in Seq(C), NEW n \in 0 .. Len(p) - 1, NEW c,
         CutUpTo(c, n, p)
  PROVE  CutUpTo(IF p[n + 1] = "*" THEN Append(c, n + 1) ELSE c, n + 1, p)
<1> DEFINE m == Len(c)
           h == n + 1
<1>1. c \in Seq(Nat) /\ m \in Nat /\ m >= 1 /\ c[m] \in 0 .. n /\ h \in Nat
  BY DEF CutUpTo
<1>2. CASE p[h] = "*"
  <2> DEFINE d == Append(c, h)
  <2>1. /\ d \in Seq(Nat) /\ Len(d) = m + 1 /\ d[m + 1] = h
        /\ \A k \in 1 .. m : d[k] = c[k]
    BY <1>1
  <2> HIDE DEF d
  <2>2. d[1] = 0
    BY <1>1, <2>1 DEF CutUpTo
  <2>3. ASSUME NEW k \in 1 .. Len(d)
        PROVE  d[k] \in 0 .. h /\ (k >= 2 => p[d[k]] = "*")
    <3>1. CASE k = m + 1
      BY <1>2, <2>1, <3>1
    <3>2. CASE k # m + 1
      <4>1. k \in 1 .. m /\ d[k] = c[k]
        BY <1>1, <2>1, <3>2
      <4> QED
        BY <4>1 DEF CutUpTo
    <3> QED
      BY <3>1, <3>2
  <2>4. ASSUME NEW k \in 1 .. Len(d) - 1
        PROVE  d[k] < d[k + 1] /\ Starless(d[k], d[k + 1] - d[k] - 1, p)
    <3>1. CASE k = m
      <4>1. d[k] = c[m] /\ d[k + 1] = h
        BY <1>1, <2>1, <3>1
      <4>2. h - c[m] - 1 = n - c[m]
        BY <1>1
      <4>3. Starless(c[m], n - c[m], p)
        BY DEF CutUpTo
      <4> QED
        BY <1>1, <4>1, <4>2, <4>3
    <3>2. CASE k # m
      <4>1. k \in 1 .. m - 1 /\ k \in 1 .. m /\ k + 1 \in 1 .. m
        BY <1>1, <2>1, <3>2
      <4>2. d[k] = c[k] /\ d[k + 1] = c[k + 1]
        BY <2>1, <4>1
      <4> QED
        BY <4>1, <4>2 DEF CutUpTo
    <3> QED
      BY <3>1, <3>2
  <2>5. Starless(d[m + 1], h - d[m + 1], p)
    BY <1>1, <2>1 DEF Starless
  <2>6. CutUpTo(d, h, p)
    BY <1>1, <2>1, <2>2, <2>3, <2>4, <2>5 DEF CutUpTo
  <2> QED
    BY <1>2, <2>6 DEF d
<1>3. CASE p[h] # "*"
  <2>1. Starless(c[m], h - c[m], p)
    <3> SUFFICES ASSUME NEW k \in 1 .. h - c[m] PROVE p[c[m] + k] # "*"
      BY DEF Starless
    <3>1. CASE k = h - c[m]
      BY <1>1, <1>3, <3>1
    <3>2. CASE k # h - c[m]
      <4>1. k \in 1 .. n - c[m]
        BY <1>1, <3>2
      <4> QED
        BY <4>1 DEF CutUpTo, Starless
    <3> QED
      BY <3>1, <3>2
  <2>2. \A k \in 1 .. Len(c) : c[k] \in 0 .. h
    BY DEF CutUpTo
  <2>3. CutUpTo(c, h, p)
    BY <2>1, <2>2 DEF CutUpTo
  <2> QED
    BY <1>3, <2>3
<1> QED
  BY <1>2, <1>3

\* c cuts the pattern at all of its stars.
IsCuts(c, p) ==
  /\ c \in Seq(Nat)
  /\ Len(c) >= 2
  /\ c[1] = 0
  /\ c[Len(c)] = Len(p) + 1
  /\ \A k \in 1 .. Len(c) - 1 :
       /\ c[k] \in 0 .. Len(p)
       /\ c[k] < c[k + 1]
       /\ Starless(c[k], c[k + 1] - c[k] - 1, p)
       /\ k >= 2 => p[c[k]] = "*"

(* Cuts does.                                                                *)
LEMMA CutsAreCuts ==
  ASSUME NEW C, NEW p \in Seq(C)
  PROVE  IsCuts(Cuts(p), p)
<1> DEFINE w == CHOOSE w : Cutting(w, p)
           N == Len(p)
           T == {n \in 0 .. N : CutUpTo(w[n], n, p)}
<1>1. Cutting(w, p)
  BY SomeCutting
<1>2. Cuts(p) = Append(w[N], N + 1)
  BY CutsCut
<1>3. N \in Nat
  OBVIOUS
<1> HIDE DEF w
<1>4. 0 \in T
  <2>1. w[0] = <<0>>
    BY <1>1 DEF Cutting
  <2>2. CutUpTo(<<0>>, 0, p)
    BY DEF CutUpTo, Starless
  <2> QED
    BY <1>3, <2>1, <2>2
<1>5. ASSUME NEW n \in 0 .. N - 1, n \in T PROVE n + 1 \in T
  <2> DEFINE h == n + 1
             d == IF p[h] = "*" THEN Append(w[n], h) ELSE w[n]
  <2>1. h \in 0 .. N /\ h # 0 /\ h - 1 = n
    OBVIOUS
  <2>2. w[h] = d
    <3> HIDE DEF h
    <3> QED
      BY <1>1, <2>1 DEF Cutting
  <2>3. CutUpTo(w[n], n, p)
    BY <1>5
  <2>4. CutUpTo(d, h, p)
    BY <2>3, CutMore
  <2> QED
    BY <2>1, <2>2, <2>4
<1> HIDE DEF T
<1>6. 0 .. N \subseteq T
  BY <1>3, <1>4, <1>5, UpTo
<1>7. CutUpTo(w[N], N, p)
  BY <1>3, <1>6 DEF T
<1> DEFINE c == w[N]
           m == Len(c)
           d == Append(c, N + 1)
<1>8. c \in Seq(Nat) /\ m \in Nat /\ m >= 1 /\ c[m] \in 0 .. N
  BY <1>7 DEF CutUpTo
<1>9. /\ d \in Seq(Nat) /\ Len(d) = m + 1 /\ d[m + 1] = N + 1
      /\ \A k \in 1 .. m : d[k] = c[k]
  <2> HIDE DEF c, N
  <2> QED
    BY <1>3, <1>8
<1>10. CutUpTo(c, N, p)
  BY <1>7
<1> HIDE DEF c, d, N
<1>11. ASSUME NEW k \in 1 .. m
       PROVE  /\ d[k] \in 0 .. N
              /\ d[k] < d[k + 1]
              /\ Starless(d[k], d[k + 1] - d[k] - 1, p)
              /\ k >= 2 => p[d[k]] = "*"
  <2>1. d[k] = c[k] /\ c[k] \in 0 .. N /\ (k >= 2 => p[c[k]] = "*")
    BY <1>9, <1>10 DEF CutUpTo
  <2>2. CASE k = m
    <3>1. d[k + 1] = N + 1 /\ d[k] = c[m]
      BY <1>9, <2>2
    <3>2. (N + 1) - c[m] - 1 = N - c[m]
      BY <1>3, <1>8
    <3>3. Starless(c[m], N - c[m], p)
      BY <1>10 DEF CutUpTo
    <3>4. c[m] < N + 1
      BY <1>3, <1>8
    <3> QED
      BY <2>1, <3>1, <3>2, <3>3, <3>4
  <2>3. CASE k # m
    <3>1. k \in 1 .. m - 1 /\ k + 1 \in 1 .. m
      BY <1>8, <2>3
    <3>2. d[k + 1] = c[k + 1]
      BY <1>9, <3>1
    <3>3. c[k] < c[k + 1] /\ Starless(c[k], c[k + 1] - c[k] - 1, p)
      BY <1>10, <3>1 DEF CutUpTo
    <3> QED
      BY <2>1, <3>2, <3>3
  <2> QED
    BY <2>2, <2>3
<1>12. d[1] = 0
  BY <1>8, <1>9, <1>10 DEF CutUpTo
<1>13. Len(d) - 1 = m
  BY <1>8, <1>9
<1>14. IsCuts(d, p)
  <2>1. \A k \in 1 .. Len(d) - 1 :
          /\ d[k] \in 0 .. Len(p)
          /\ d[k] < d[k + 1]
          /\ Starless(d[k], d[k + 1] - d[k] - 1, p)
          /\ k >= 2 => p[d[k]] = "*"
    BY <1>11, <1>13 DEF N
  <2>2. d[Len(d)] = Len(p) + 1
    BY <1>9 DEF N
  <2> QED
    BY <1>8, <1>9, <1>12, <2>1, <2>2 DEF IsCuts
<1> QED
  BY <1>2, <1>14 DEF c, d, N

-------------------------------------------------------------------------------
(* The parts, found one after the other. *)

(* The least of a set of naturals.                                           *)
LEMMA MinIsLeast ==
  ASSUME NEW T, T \subseteq Nat, T # {}
  PROVE  Min(T) \in T /\ \A y \in T : Min(T) <= y
<1>1. \E x \in T : \A y \in T : x <= y
  BY LeastOf
<1> QED
  BY <1>1 DEF Min

\* The first e of the pattern can be laid along the first g of the action, and
\* never along less; or there is no way to lay the whole.
Found(e, g, p, a) ==
  \/ /\ g <= Len(a)
     /\ Reaches(e, g, p, a, Itself)
     /\ \A f : Whole(f, p, a, Itself) => f[e] >= g
  \/ /\ g > Len(a)
     /\ \A f : ~Whole(f, p, a, Itself)

\* What is gone with the first part.
GoneFirst(part, a) == IF IsPrefix(part, a) THEN Len(part) ELSE Len(a) + 1

(* The first part is where the action begins.                                *)
LEMMA FirstFound ==
  ASSUME NEW C, NEW p \in Seq(C), NEW a \in Seq(C),
         NEW k \in 0 .. Len(p), Starless(0, k, p)
  PROVE  /\ GoneFirst(Part(0, k, p), a) \in Nat
         /\ Found(k, GoneFirst(Part(0, k, p), a), p, a)
<1> DEFINE part == Part(0, k, p)
<1>1. k \in Nat /\ 0 \in 0 .. Len(p) /\ 0 + k <= Len(p) /\ 0 + k = k /\ 0 \in 0 .. Len(a)
  OBVIOUS
<1>2. Len(part) = k
  BY <1>1, PartIs
<1>3. IsPrefix(part, a) <=> k <= Len(a) /\ Occurs(0, k, 0, p, a)
  BY <1>1, PartPrefix
<1>4. ASSUME NEW f, Whole(f, p, a, Itself)
      PROVE  f[k] = k /\ k <= Len(a) /\ Occurs(0, k, 0, p, a)
  <2>1. f[0] = 0
    BY <1>4 DEF Whole, Lays
  <2>2. f[0 + k] = f[0] + k /\ f[0] + k <= Len(a) /\ Occurs(0, k, f[0], p, a)
    BY <1>1, <1>4, RunOccurs
  <2> QED
    BY <1>1, <2>1, <2>2
<1> HIDE DEF part
<1>5. CASE IsPrefix(part, a)
  <2>1. Reaches(0, 0, p, a, Itself)
    BY ReachesNothing
  <2>2. Reaches(0 + k, 0 + k, p, a, Itself)
    BY <1>1, <1>3, <1>5, <2>1, OccursReaches
  <2>3. Found(k, k, p, a)
    BY <1>1, <1>3, <1>4, <1>5, <2>2 DEF Found
  <2> QED
    BY <1>1, <1>2, <1>5, <2>3 DEF GoneFirst, part
<1>6. CASE ~IsPrefix(part, a)
  <2>1. \A f : ~Whole(f, p, a, Itself)
    BY <1>3, <1>4, <1>6
  <2>2. Found(k, Len(a) + 1, p, a)
    BY <2>1 DEF Found
  <2> QED
    BY <1>6, <2>2 DEF GoneFirst, part
<1> QED
  BY <1>5, <1>6

(* However the whole is laid, a part behind a star occurs behind what is gone. *)
LEMMA OccursBehind ==
  ASSUME NEW C, NEW p \in Seq(C), NEW a \in Seq(C),
         NEW e \in 0 .. Len(p) - 1, p[e + 1] = "*",
         NEW k \in Nat, e + 1 + k <= Len(p), Starless(e + 1, k, p),
         NEW g \in Nat, Found(e, g, p, a), NEW f, Whole(f, p, a, Itself)
  PROVE  /\ g <= Len(a)
         /\ f[e + 1] \in g .. Len(a)
         /\ f[e + 1 + k] = f[e + 1] + k
         /\ f[e + 1] + k <= Len(a)
         /\ Occurs(e + 1, k, f[e + 1], p, a)
<1> DEFINE i == e + 1
<1>1. i \in 1 .. Len(p) /\ i \in 0 .. Len(p) /\ i - 1 = e /\ e \in 0 .. Len(p)
  OBVIOUS
<1>2. g <= Len(a) /\ f[e] >= g
  BY DEF Found
<1>3. f[i] \in 0 .. Len(a) /\ f[e] \in Nat /\ f[i - 1] <= f[i]
  <2> HIDE DEF i
  <2>1. p[i] = "*"
    BY DEF i
  <2>2. f \in [0 .. Len(p) -> 0 .. Len(a)]
    BY ONLY Whole(f, p, a, Itself) DEF Whole
  <2>3. f[i] \in 0 .. Len(a) /\ f[e] \in 0 .. Len(a)
    BY ONLY <1>1, <2>2
  <2>4. f[e] \in Nat
    BY ONLY <2>3
  <2>5. f[i - 1] <= f[i]
    BY ONLY Whole(f, p, a, Itself), <1>1, <2>1 DEF Whole, Lays
  <2> QED
    BY ONLY <2>3, <2>4, <2>5
<1>4. /\ f[i + k] = f[i] + k
      /\ f[i] + k <= Len(a)
      /\ Occurs(i, k, f[i], p, a)
  <2>1. i \in 0 .. Len(p) /\ i + k <= Len(p) /\ Starless(i, k, p)
    OBVIOUS
  <2> HIDE DEF i
  <2> QED
    BY ONLY p \in Seq(C), a \in Seq(C), k \in Nat, Whole(f, p, a, Itself), <2>1,
            RunOccurs
<1>5. f[i] \in g .. Len(a)
  <2> HIDE DEF i
  <2> QED
    BY <1>1, <1>2, <1>3
<1> QED
  BY <1>2, <1>4, <1>5

(* A part behind a star is found leftmost.                                   *)
LEMMA NextFound ==
  ASSUME NEW C, NEW p \in Seq(C), NEW a \in Seq(C),
         NEW e \in 0 .. Len(p) - 1, p[e + 1] = "*",
         NEW k \in Nat, e + 1 + k <= Len(p), Starless(e + 1, k, p),
         NEW g \in Nat, Found(e, g, p, a)
  PROVE  Found(e + 1 + k, GoneWith(Part(e + 1, k, p), a, g), p, a)
<1> DEFINE i == e + 1
           part == Part(i, k, p)
           at == Places(part, a, g)
<1>1. i \in 0 .. Len(p) /\ i + k <= Len(p) /\ Starless(i, k, p)
  OBVIOUS
<1>2. Len(part) = k
  BY <1>1, PartIs
<1>3. \A t \in 0 .. Len(a) :
        t + 1 \in at <=> g <= t /\ t + k <= Len(a) /\ Occurs(i, k, t, p, a)
  <2> HIDE DEF i
  <2> QED
    BY <1>1, PartPlaces
<1>4. ASSUME NEW f, Whole(f, p, a, Itself)
      PROVE  /\ g <= Len(a)
             /\ f[i] \in g .. Len(a)
             /\ f[i + k] = f[i] + k
             /\ f[i] + 1 \in at
  <2>1. /\ g <= Len(a)
        /\ f[i] \in g .. Len(a)
        /\ f[i + k] = f[i] + k
        /\ f[i] + k <= Len(a)
        /\ Occurs(i, k, f[i], p, a)
    BY <1>4, OccursBehind
  <2> HIDE DEF at, i
  <2>2. f[i] \in 0 .. Len(a) /\ g <= f[i]
    BY <2>1
  <2> QED
    BY <1>3, <2>1, <2>2
<1>5. at \subseteq Nat /\ at \subseteq 1 .. Len(a) + 1
  BY DEF Places
<1>6. GoneWith(part, a, g) = IF at = {} THEN Len(a) + 1 ELSE Min(at) + k - 1
  BY <1>2 DEF GoneWith
<1> HIDE DEF at, part
<1>7. CASE at = {}
  <2>1. \A f : ~Whole(f, p, a, Itself)
    BY <1>4, <1>7
  <2>2. Found(i + k, Len(a) + 1, p, a)
    BY <2>1 DEF Found
  <2> QED
    BY <1>6, <1>7, <2>2 DEF part
<1>8. CASE at # {}
  <2> DEFINE n == Min(at)
             t == n - 1
  <2>1. n \in at /\ \A y \in at : n <= y
    BY <1>5, <1>8, MinIsLeast
  <2> HIDE DEF n
  <2>2. n \in 1 .. Len(a) + 1
    BY <1>5, <2>1
  <2>3. t \in 0 .. Len(a) /\ t + 1 = n /\ n + k - 1 = t + k
    BY <2>2
  <2> HIDE DEF t
  <2>4. g <= t /\ t + k <= Len(a) /\ Occurs(i, k, t, p, a)
    BY <1>3, <2>1, <2>3
  <2>5. g \in 0 .. Len(a) /\ Reaches(e, g, p, a, Itself)
    BY <2>3, <2>4 DEF Found
  <2>6. Reaches(i, t, p, a, Itself)
    BY <2>3, <2>4, <2>5, ReachesMore
  <2> HIDE DEF i
  <2>7. Reaches(i + k, t + k, p, a, Itself)
    BY <1>1, <2>3, <2>4, <2>6, OccursReaches
  <2>8. ASSUME NEW f, Whole(f, p, a, Itself) PROVE f[i + k] >= t + k
    <3>1. f[i] \in g .. Len(a) /\ f[i + k] = f[i] + k /\ f[i] + 1 \in at
      BY <1>4, <2>8
    <3>2. n <= f[i] + 1
      BY <2>1, <3>1
    <3> QED
      BY <2>3, <3>1, <3>2
  <2>9. Found(i + k, t + k, p, a)
    BY <2>4, <2>7, <2>8 DEF Found
  <2> QED
    BY <1>6, <1>8, <2>3, <2>9 DEF part, n, i
<1> QED
  BY <1>7, <1>8

(* The last part, behind a star, is where the action ends.                   *)
LEMMA LastFound ==
  ASSUME NEW C, NEW p \in Seq(C), NEW a \in Seq(C),
         NEW e \in 0 .. Len(p) - 1, p[e + 1] = "*",
         NEW k \in Nat, e + 1 + k = Len(p), Starless(e + 1, k, p),
         NEW g \in Nat, Found(e, g, p, a)
  PROVE  g <= Len(a) /\ IsSuffix(Part(e + 1, k, p), Rest(a, g))
           <=> Matches(p, a, Itself)
<1> DEFINE i == e + 1
           t == Len(a) - k
<1>1. i \in 0 .. Len(p) /\ i + k <= Len(p) /\ i + k = Len(p) /\ Starless(i, k, p)
  OBVIOUS
<1>2. g <= Len(a) => (IsSuffix(Part(i, k, p), Rest(a, g))
                        <=> g + k <= Len(a) /\ Occurs(i, k, t, p, a))
  <2> HIDE DEF i
  <2> QED
    BY <1>1, PartSuffix
<1>3. ASSUME g <= Len(a), g + k <= Len(a), Occurs(i, k, t, p, a)
      PROVE  Matches(p, a, Itself)
  <2>1. t \in 0 .. Len(a) /\ g <= t /\ t + k = Len(a) /\ g \in 0 .. Len(a)
    BY <1>3
  <2>2. Reaches(e, g, p, a, Itself)
    BY <1>3 DEF Found
  <2>4. Occurs(i, k, t, p, a)
    BY <1>3
  <2> HIDE DEF t
  <2>3. Reaches(i, t, p, a, Itself)
    BY <2>1, <2>2, ReachesMore
  <2> HIDE DEF i
  <2>5. Reaches(i + k, t + k, p, a, Itself)
    BY <1>1, <2>1, <2>3, <2>4, OccursReaches
  <2> QED
    BY <1>1, <2>1, <2>5, MatchesReaches
<1>4. ASSUME NEW f, Whole(f, p, a, Itself)
      PROVE  g <= Len(a) /\ g + k <= Len(a) /\ Occurs(i, k, t, p, a)
  <2>1. /\ g <= Len(a)
        /\ f[i] \in g .. Len(a)
        /\ f[i + k] = f[i] + k
        /\ Occurs(i, k, f[i], p, a)
    BY <1>4, OccursBehind
  <2>2. f[i + k] = Len(a)
    <3> HIDE DEF i
    <3> QED
      BY <1>1, <1>4 DEF Whole
  <2>3. f[i] = t /\ g + k <= Len(a)
    <3> HIDE DEF i
    <3> QED
      BY <2>1, <2>2
  <2> QED
    BY <2>1, <2>3
<1>5. Matches(p, a, Itself) <=> \E f : Whole(f, p, a, Itself)
  BY MatchesReaches
<1> HIDE DEF t, i
<1>6. g <= Len(a) /\ IsSuffix(Part(i, k, p), Rest(a, g)) <=> Matches(p, a, Itself)
  BY <1>2, <1>3, <1>4, <1>5
<1> QED
  BY <1>6 DEF i

(* A pattern without a star is the action itself.                            *)
LEMMA OnePart ==
  ASSUME NEW C, NEW p \in Seq(C), NEW a \in Seq(C), Starless(0, Len(p), p)
  PROVE  p = a <=> Matches(p, a, Itself)
<1> DEFINE k == Len(p)
<1>1. k \in Nat /\ 0 \in 0 .. Len(p) /\ 0 + k <= Len(p) /\ 0 + k = k /\ 0 \in 0 .. Len(a)
  OBVIOUS
<1>2. ASSUME p = a PROVE Matches(p, a, Itself)
  <2>1. Occurs(0, k, 0, p, a) /\ 0 + k <= Len(a)
    BY <1>2 DEF Occurs
  <2>2. Reaches(0, 0, p, a, Itself)
    BY ReachesNothing
  <2>3. Starless(0, k, p)
    OBVIOUS
  <2>4. k = Len(a)
    BY <1>2
  <2> HIDE DEF k
  <2>5. Reaches(0 + k, 0 + k, p, a, Itself)
    BY <1>1, <2>1, <2>2, <2>3, OccursReaches
  <2> QED
    BY <1>1, <2>4, <2>5, MatchesReaches DEF k
<1>3. ASSUME NEW f, Whole(f, p, a, Itself) PROVE p = a
  <2>1. f[0] = 0 /\ f[k] = Len(a)
    BY <1>3 DEF Whole, Lays
  <2>2. Starless(0, k, p)
    OBVIOUS
  <2>3. f[0 + k] = f[0] + k /\ Occurs(0, k, f[0], p, a)
    <3> HIDE DEF k
    <3> QED
      BY <1>1, <1>3, <2>2, RunOccurs
  <2>4. Len(a) = Len(p)
    BY <2>1, <2>3
  <2>5. \A j \in 1 .. Len(p) : p[j] = a[j]
    BY <2>1, <2>3 DEF Occurs
  <2> QED
    BY <2>4, <2>5, SameSequence
<1> QED
  BY <1>2, <1>3, MatchesReaches

\* How long part k is.
PartLength(c, k) == c[k + 1] - c[k] - 1

(* The parts lie between the cuts.                                           *)
LEMMA PartsLie ==
  ASSUME NEW C, NEW p \in Seq(C), NEW c, IsCuts(c, p), NEW k \in 1 .. Len(c) - 1
  PROVE  /\ c[k] \in 0 .. Len(p)
         /\ PartLength(c, k) \in Nat
         /\ c[k] + PartLength(c, k) = c[k + 1] - 1
         /\ c[k] + PartLength(c, k) <= Len(p)
         /\ Starless(c[k], PartLength(c, k), p)
         /\ k >= 2 => c[k] >= 1 /\ p[c[k]] = "*"
<1> DEFINE h == k + 1
<1>1. /\ c \in Seq(Nat) /\ Len(c) \in Nat /\ c[Len(c)] = Len(p) + 1
      /\ \A j \in 1 .. Len(c) - 1 : c[j] \in 0 .. Len(p) /\ c[j] < c[j + 1]
  BY DEF IsCuts
<1>2. /\ c[k] \in 0 .. Len(p) /\ c[k] < c[h]
      /\ Starless(c[k], c[h] - c[k] - 1, p)
      /\ k >= 2 => p[c[k]] = "*"
  BY DEF IsCuts
<1>3. c[h] \in 0 .. Len(p) + 1
  <2>1. h = Len(c) \/ h \in 1 .. Len(c) - 1
    BY <1>1
  <2> HIDE DEF h
  <2> QED
    BY <1>1, <2>1
<1>4. k >= 2 => c[k] >= 1
  <2> SUFFICES ASSUME k >= 2 PROVE c[k] >= 1
    OBVIOUS
  <2> DEFINE j == k - 1
  <2>1. j \in 1 .. Len(c) - 1 /\ j + 1 = k
    BY <1>1
  <2> HIDE DEF j
  <2>2. c[j] \in 0 .. Len(p) /\ c[j] < c[k]
    BY <1>1, <2>1
  <2> QED
    BY <1>2, <2>2
<1>5. PartLength(c, k) = c[h] - c[k] - 1
  BY DEF PartLength
<1> DEFINE x == c[k]
           y == c[h]
           N == Len(p)
<1>6. x \in Nat /\ y \in Nat /\ N \in Nat /\ x <= N /\ x < y /\ y <= N + 1
  BY <1>2, <1>3
<1>7. y - x - 1 \in Nat /\ x + (y - x - 1) = y - 1 /\ x + (y - x - 1) <= N
  <2> HIDE DEF x, y, N
  <2> QED
    BY <1>6
<1> QED
  BY <1>2, <1>4, <1>5, <1>7

(* They are what Split returns.                                              *)
LEMMA SplitIs ==
  ASSUME NEW C, NEW p \in Seq(C)
  PROVE  LET c == Cuts(p)
         IN  /\ Len(Split(p)) = Len(c) - 1
             /\ Len(c) - 1 \in Nat \ {0}
             /\ DOMAIN Split(p) = 1 .. Len(c) - 1
             /\ \A k \in 1 .. Len(c) - 1 :
                  /\ Split(p)[k] = Part(c[k], PartLength(c, k), p)
                  /\ Split(p)[k] \in Seq(C)
<1> DEFINE c == Cuts(p)
           m == Len(c) - 1
           Between(k) == SubSeq(p, c[k] + 1, c[k + 1] - 1)
<1>1. IsCuts(c, p)
  BY CutsAreCuts
<1>2. m \in Nat \ {0}
  BY <1>1 DEF IsCuts
<1>3. Split(p) = [k \in 1 .. m |-> Between(k)]
  BY DEF Split
<1> HIDE DEF c
<1>4. ASSUME NEW k \in 1 .. m
      PROVE  Between(k) = Part(c[k], PartLength(c, k), p) /\ Between(k) \in Seq(C)
  <2>1. /\ c[k] \in 0 .. Len(p) /\ PartLength(c, k) \in Nat
        /\ c[k] + PartLength(c, k) = c[k + 1] - 1
        /\ c[k] + PartLength(c, k) <= Len(p)
    BY <1>1, PartsLie
  <2>2. Part(c[k], PartLength(c, k), p) = Between(k)
    BY <2>1 DEF Part
  <2>3. Part(c[k], PartLength(c, k), p) \in Seq(C)
    BY <2>1, PartIs
  <2> QED
    BY <2>2, <2>3
<1> HIDE DEF m, Between
<1>5. DOMAIN Split(p) = 1 .. m /\ \A k \in 1 .. m : Split(p)[k] = Between(k)
  BY <1>3
<1>6. Split(p) \in Seq({Between(k) : k \in 1 .. m}) /\ Len(Split(p)) = m
  BY <1>2, <1>3
<1> QED
  BY <1>2, <1>4, <1>5, <1>6 DEF c, m

\* The equation of the loop in actionMatches.
Going(w, p, a) ==
  w = [k \in 0 .. Len(Split(p)) - 2 |->
         IF k > 0 THEN GoneWith(Split(p)[k + 1], a, w[k - 1])
         ELSE IF IsPrefix(Split(p)[1], a) THEN Len(Split(p)[1])
         ELSE Len(a) + 1]

(* ActionMatches looks at the last value of a loop that satisfies it.        *)
LEMMA ActionGoes ==
  ASSUME NEW p, NEW a
  PROVE  LET w == CHOOSE w : Going(w, p, a)
             all == w[Len(Split(p)) - 2]
         IN  ActionMatches(p, a)
               <=> IF Len(Split(p)) = 1 THEN p = a
                   ELSE all <= Len(a) /\ IsSuffix(Last(Split(p)), Rest(a, all))
  BY DEF ActionMatches, Going

(* What is gone is a number.                                                 *)
LEMMA GoneWithNat ==
  ASSUME NEW C, NEW part \in Seq(C), NEW a \in Seq(C), NEW g \in Nat
  PROVE  GoneWith(part, a, g) \in Nat
<1> DEFINE at == Places(part, a, g)
<1>1. at \subseteq Nat \ {0}
  BY DEF Places
<1>2. GoneWith(part, a, g) = IF at = {} THEN Len(a) + 1 ELSE Min(at) + Len(part) - 1
  BY DEF GoneWith
<1> HIDE DEF at
<1>3. at # {} => Min(at) \in Nat \ {0}
  BY <1>1, MinIsLeast
<1> QED
  BY <1>2, <1>3

(* There is a loop that satisfies the equation.                              *)
LEMMA SomeGoing ==
  ASSUME NEW C, NEW p \in Seq(C), NEW a \in Seq(C), Len(Split(p)) >= 2
  PROVE  \E w : Going(w, p, a)
<1> DEFINE parts == Split(p)
           N == Len(parts) - 2
           first == GoneFirst(parts[1], a)
           After(k, g) == GoneWith(parts[k + 1], a, g)
           step == [k \in 1 .. N |-> [g \in Nat |-> After(k, g)]]
<1>1. N \in Nat /\ \A k \in 0 .. N : parts[k + 1] \in Seq(C)
  <2>1. Len(parts) \in Nat /\ \A k \in 1 .. Len(parts) : parts[k] \in Seq(C)
    BY SplitIs
  <2> HIDE DEF parts
  <2>2. \A k \in 0 .. N : k + 1 \in 1 .. Len(parts)
    BY <2>1
  <2> QED
    BY <2>1, <2>2 DEF parts
<1> HIDE DEF parts
<1>2. first \in Nat
  <2>1. parts[1] \in Seq(C)
    BY <1>1
  <2> QED
    BY <2>1 DEF GoneFirst
<1> HIDE DEF N
<1>3. \A k \in 1 .. N, g \in Nat : After(k, g) \in Nat
  <2> SUFFICES ASSUME NEW k \in 1 .. N, NEW g \in Nat PROVE After(k, g) \in Nat
    OBVIOUS
  <2>1. parts[k + 1] \in Seq(C)
    BY <1>1
  <2> QED
    BY <2>1, GoneWithNat
<1>4. step \in Steps(N, Nat)
  <2> HIDE DEF After
  <2> QED
    BY <1>3 DEF Steps
<1>5. \A k \in 1 .. N, g \in Nat : step[k][g] = After(k, g)
  OBVIOUS
<1> HIDE DEF step, first
<1>6. PICK w \in [0 .. N -> Nat] : Leads(w, first, step, N)
  BY <1>1, <1>2, <1>4, Iterate
<1> DEFINE v == [k \in 0 .. N |-> IF k > 0 THEN After(k, w[k - 1]) ELSE first]
<1>7. ASSUME NEW k \in 0 .. N PROVE w[k] = v[k]
  <2>1. CASE k = 0
    BY <1>6, <2>1 DEF Leads
  <2>2. CASE k # 0
    <3>1. k \in 1 .. N /\ k > 0 /\ k - 1 \in 0 .. N
      BY <2>2, <1>1
    <3>2. w[k] = step[k][w[k - 1]]
      BY <1>6, <3>1 DEF Leads
    <3>3. w[k - 1] \in Nat
      BY <1>6, <3>1
    <3> HIDE DEF After
    <3>4. w[k] = After(k, w[k - 1])
      BY <1>5, <3>1, <3>2, <3>3
    <3> QED
      BY <3>1, <3>4
  <2> QED
    BY <2>1, <2>2
<1>8. w = v
  <2>1. v = [k \in 0 .. N |-> v[k]] /\ w = [k \in 0 .. N |-> w[k]]
    BY <1>6
  <2> HIDE DEF v
  <2> QED
    BY <1>7, <2>1
<1> QED
  BY <1>8 DEF Going, GoneFirst, N, first, parts

(* Part after part is found leftmost.                                        *)
LEMMA GoingFinds ==
  ASSUME NEW C, NEW p \in Seq(C), NEW a \in Seq(C), NEW w, Going(w, p, a),
         Len(Split(p)) >= 2
  PROVE  \A k \in 0 .. Len(Split(p)) - 2 :
           w[k] \in Nat /\ Found(Cuts(p)[k + 2] - 1, w[k], p, a)
<1> DEFINE c == Cuts(p)
           m == Len(c) - 1
           N == m - 2
           Length(k) == PartLength(c, k)
           Q(k) == w[k] \in Nat /\ Found(c[k + 2] - 1, w[k], p, a)
           T == {k \in 0 .. N : Q(k)}
<1>1. /\ Len(Split(p)) = m /\ m \in Nat \ {0}
      /\ \A k \in 1 .. m : /\ Split(p)[k] = Part(c[k], Length(k), p)
                           /\ Split(p)[k] \in Seq(C)
  BY SplitIs
<1>2. N \in Nat
  BY <1>1
<1>3. IsCuts(c, p)
  BY CutsAreCuts
<1>4. w = [k \in 0 .. N |->
             IF k > 0 THEN GoneWith(Split(p)[k + 1], a, w[k - 1])
             ELSE GoneFirst(Split(p)[1], a)]
  BY <1>1 DEF Going, GoneFirst
<1> HIDE DEF c
<1>5. \A k \in 1 .. m :
        /\ c[k] \in 0 .. Len(p)
        /\ Length(k) \in Nat
        /\ c[k] + Length(k) = c[k + 1] - 1
        /\ c[k] + Length(k) <= Len(p)
        /\ Starless(c[k], Length(k), p)
        /\ k >= 2 => c[k] >= 1 /\ p[c[k]] = "*"
  BY <1>3, PartsLie
<1>6. c[1] = 0
  BY <1>3 DEF IsCuts
<1> HIDE DEF Length, m
<1>7. 0 \in T
  <2> DEFINE k == Length(1)
  <2>1. 1 \in 1 .. m /\ 1 + 1 = 2 /\ 0 + 2 = 2
    BY <1>1
  <2>2. k \in Nat /\ 0 + k = c[2] - 1 /\ 0 + k <= Len(p) /\ Starless(0, k, p)
    BY <1>5, <1>6, <2>1
  <2>3. w[0] = GoneFirst(Part(0, k, p), a)
    <3>1. Split(p)[1] = Part(0, k, p)
      BY <1>1, <1>6, <2>1
    <3>2. 0 \in 0 .. N /\ ~(0 > 0)
      BY <1>2
    <3> HIDE DEF k, N
    <3> QED
      BY <1>4, <3>1, <3>2
  <2> HIDE DEF k
  <2>4. k \in 0 .. Len(p) /\ k = c[2] - 1
    BY <2>2
  <2>5. w[0] \in Nat /\ Found(k, w[0], p, a)
    BY <2>2, <2>3, <2>4, FirstFound
  <2> QED
    BY <1>2, <2>1, <2>4, <2>5
<1>8. ASSUME NEW k \in 0 .. N - 1, k \in T PROVE k + 1 \in T
  <2> DEFINE j == k + 2
             e == c[j] - 1
             l == Length(j)
             h == k + 1
             g == w[k]
  <2>1. /\ j \in 1 .. m /\ j >= 2 /\ j + 1 = h + 2 /\ h + 1 = j
        /\ h \in 0 .. N /\ h > 0 /\ h - 1 = k
    BY <1>1, <1>2
  <2>2. g \in Nat /\ Found(e, g, p, a)
    BY <1>8
  <2>3. /\ c[j] \in 0 .. Len(p) /\ l \in Nat /\ c[j] + l = c[h + 2] - 1
        /\ c[j] + l <= Len(p) /\ Starless(c[j], l, p)
        /\ c[j] >= 1 /\ p[c[j]] = "*"
    <3> HIDE DEF j, h
    <3> QED
      BY <1>5, <2>1
  <2>4. e \in 0 .. Len(p) - 1 /\ e + 1 = c[j]
    <3> HIDE DEF j, h
    <3> QED
      BY <2>3
  <2>5. w[h] = GoneWith(Part(c[j], l, p), a, g)
    <3>1. Split(p)[j] = Part(c[j], l, p)
      BY <1>1, <2>1
    <3> HIDE DEF j, h, N
    <3> QED
      BY <1>4, <2>1, <3>1
  <2>6. Part(c[j], l, p) \in Seq(C)
    BY <1>1, <2>1
  <2> HIDE DEF e, g, l, j
  <2>7. w[h] \in Nat
    BY <2>2, <2>5, <2>6, GoneWithNat
  <2>8. Found(e + 1 + l, GoneWith(Part(e + 1, l, p), a, g), p, a)
    BY <2>2, <2>3, <2>4, NextFound
  <2>9. Found(c[h + 2] - 1, w[h], p, a)
    BY <2>3, <2>4, <2>5, <2>8
  <2> QED
    BY <2>1, <2>7, <2>9
<1> HIDE DEF T
<1>9. 0 .. N \subseteq T
  BY <1>2, <1>7, <1>8, UpTo
<1> QED
  BY <1>1, <1>9 DEF T, N, c

(* actionMatches matches what the pattern means if `?` is itself.            *)
LEMMA ActionMatchesMatches ==
  ASSUME NEW C, NEW p \in Seq(C), NEW a \in Seq(C)
  PROVE  ActionMatches(p, a) <=> Matches(p, a, Itself)
<1> DEFINE w == CHOOSE w : Going(w, p, a)
           c == Cuts(p)
           m == Len(c) - 1
           Length(k) == PartLength(c, k)
           all == w[Len(Split(p)) - 2]
<1>1. ActionMatches(p, a)
        <=> IF Len(Split(p)) = 1 THEN p = a
            ELSE all <= Len(a) /\ IsSuffix(Last(Split(p)), Rest(a, all))
  BY ActionGoes
<1>0. /\ Len(Split(p)) = m /\ m \in Nat \ {0}
      /\ \A k \in 1 .. m : Split(p)[k] = Part(c[k], Length(k), p)
  BY SplitIs
<1>2. /\ Len(Split(p)) = m /\ m \in Nat \ {0} /\ m \in 1 .. m
      /\ \A k \in 1 .. m : Split(p)[k] = Part(c[k], Length(k), p)
  <2> HIDE DEF m, c
  <2> QED
    BY <1>0
<1>3. IsCuts(c, p)
  BY CutsAreCuts
<1>4. c[1] = 0 /\ c[m + 1] = Len(p) + 1 /\ Len(c) = m + 1
  <2>1. Len(c) \in Nat /\ c[1] = 0 /\ c[Len(c)] = Len(p) + 1
    BY <1>3 DEF IsCuts
  <2>2. m + 1 = Len(c)
    BY <2>1
  <2> HIDE DEF c, m
  <2> QED
    BY <2>1, <2>2
<1>5. /\ c[m] \in 0 .. Len(p)
      /\ Length(m) \in Nat
      /\ c[m] + Length(m) = c[m + 1] - 1
      /\ Starless(c[m], Length(m), p)
      /\ m >= 2 => c[m] >= 1 /\ p[c[m]] = "*"
  <2>1. IsCuts(c, p)
    BY <1>3
  <2>2. m \in 1 .. Len(c) - 1
    BY <1>2
  <2> HIDE DEF c, m
  <2> QED
    BY ONLY p \in Seq(C), <2>1, <2>2, PartsLie
<1> HIDE DEF Length, c
<1>6. c[m] + Length(m) = Len(p)
  <2> HIDE DEF m
  <2>1. c[m] + Length(m) = c[m + 1] - 1
    BY ONLY <1>5
  <2>2. c[m + 1] - 1 = Len(p)
    <3>1. c[m + 1] = Len(p) + 1 /\ Len(p) \in Nat
      BY <1>4
    <3> QED
      BY ONLY <3>1
  <2> QED
    BY ONLY <2>1, <2>2
<1>7. CASE m = 1
  <2>1. Length(m) = Len(p) /\ Starless(0, Len(p), p)
    <3>1. c[m] = 0 /\ 0 + Length(m) = Len(p)
      BY <1>4, <1>6, <1>7
    <3> HIDE DEF m
    <3> QED
      BY <1>5, <3>1
  <2>2. p = a <=> Matches(p, a, Itself)
    BY <2>1, OnePart
  <2> QED
    BY <1>1, <1>2, <1>7, <2>2
<1>8. CASE m # 1
  <2> DEFINE e == c[m] - 1
             l == Length(m)
  <2>0. m >= 2 /\ (m - 2) \in 0 .. m - 2 /\ (m - 2) + 2 = m /\ m \in Nat
    BY <1>2, <1>8
  <2>1. Going(w, p, a)
    BY <1>2, <2>0, SomeGoing
  <2> HIDE DEF w
  <2>2. all \in Nat /\ Found(e, all, p, a)
    <3>1. \A k \in 0 .. m - 2 : w[k] \in Nat /\ Found(c[k + 2] - 1, w[k], p, a)
      BY <1>2, <2>0, <2>1, GoingFinds DEF c
    <3>2. all = w[m - 2]
      BY <1>2
    <3> HIDE DEF m
    <3> QED
      BY <2>0, <3>1, <3>2
  <2>3. Last(Split(p)) = Part(c[m], l, p)
    BY <1>2 DEF Last
  <2> HIDE DEF m, all
  <2>4. e \in 0 .. Len(p) - 1 /\ e + 1 = c[m] /\ p[e + 1] = "*"
    BY <1>5, <2>0
  <2>5. l \in Nat /\ e + 1 + l = Len(p) /\ Starless(e + 1, l, p)
    BY <1>5, <1>6, <2>4
  <2> HIDE DEF e, l
  <2>6. all <= Len(a) /\ IsSuffix(Part(e + 1, l, p), Rest(a, all))
          <=> Matches(p, a, Itself)
    BY <2>2, <2>4, <2>5, LastFound
  <2>7. Len(Split(p)) # 1
    BY <1>2, <1>8
  <2> QED
    BY <1>1, <2>3, <2>4, <2>6, <2>7
<1> QED
  BY <1>7, <1>8

-------------------------------------------------------------------------------
(* The questions, and the answers to them. *)

\* What is asked: text of the characters, a comparison there is.
Asked ==
  /\ question \in [pattern : Seq(Chars), action : Seq(Chars)]
  /\ comparison = NoComparison \/ comparison \in [node : Compared, request : Requests]

(* Only such questions are asked.                                            *)
THEOREM AlwaysAsked == PredicateSpec => []Asked
<1>1. PredicateInit => Asked
  BY DEF PredicateInit, Asked, NoQuestion
<1>2. Asked /\ [PredicateNext]_predicateVars => Asked'
  <2> SUFFICES ASSUME Asked, [PredicateNext]_predicateVars PROVE Asked'
    OBVIOUS
  <2> USE DEF Asked
  <2>1. ASSUME NEW c \in Chars, AskPattern(c) PROVE Asked'
    <3>1. Append(question.pattern, c) \in Seq(Chars)
      OBVIOUS
    <3> QED
      BY <2>1, <3>1 DEF AskPattern
  <2>2. ASSUME NEW c \in Chars, AskAction(c) PROVE Asked'
    <3>1. Append(question.action, c) \in Seq(Chars)
      OBVIOUS
    <3> QED
      BY <2>2, <3>1 DEF AskAction
  <2>3. ASSUME NEW n \in Compared, NEW ctx \in Requests, AskComparison(n, ctx)
        PROVE  Asked'
    BY <2>3 DEF AskComparison
  <2>4. CASE AskAnew
    BY <2>4 DEF AskAnew, NoQuestion
  <2>5. CASE UNCHANGED predicateVars
    BY <2>5 DEF predicateVars
  <2> QED
    BY <2>1, <2>2, <2>3, <2>4, <2>5 DEF PredicateNext
<1> QED
  BY <1>1, <1>2, PTL DEF PredicateSpec

(* Whatever the pattern, Glob is the wildcard language of `*` and `?` on     *)
(* actions without a star: globMatch goes back where it has to, and no more. *)
THEOREM GlobAlwaysWildcards == PredicateSpec => []GlobIsWildcards
<1>1. Asked => GlobIsWildcards
  <2> SUFFICES ASSUME Asked,
                      \A i \in DOMAIN question.action : question.action[i] # "*"
               PROVE  Glob(question.pattern, question.action)
                        <=> Matches(question.pattern, question.action, {"?"})
    BY DEF GlobIsWildcards
  <2> DEFINE p == question.pattern
             s == question.action
  <2>1. p \in Seq(Chars) /\ s \in Seq(Chars)
    BY DEF Asked
  <2>2. \A i \in 1 .. Len(s) : s[i] # "*"
    BY <2>1
  <2> HIDE DEF p, s
  <2>3. Glob(p, s) <=> Matches(p, s, One)
    BY <2>1, <2>2, GlobMatches
  <2> QED
    BY <2>3 DEF One, p, s
<1> QED
  BY <1>1, AlwaysAsked, PTL

(* actionMatches is the wildcard language of `*` alone: to find each part    *)
(* between the stars leftmost misses no action the pattern means.            *)
THEOREM DenyPatternsAlwaysWildcards == PredicateSpec => []DenyPatternsAreWildcards
<1>1. Asked => DenyPatternsAreWildcards
  <2> SUFFICES ASSUME Asked PROVE DenyPatternsAreWildcards
    OBVIOUS
  <2> DEFINE p == question.pattern
             s == question.action
  <2>1. p \in Seq(Chars) /\ s \in Seq(Chars)
    BY DEF Asked
  <2> HIDE DEF p, s
  <2>2. ActionMatches(p, s) <=> Matches(p, s, Itself)
    BY <2>1, ActionMatchesMatches
  <2> QED
    BY <2>2 DEF DenyPatternsAreWildcards, Itself, p, s
<1> QED
  BY <1>1, AlwaysAsked, PTL

\* Value i of the attribute compares with literal j.
Hits(n, vals, i, j) == Compare(n.op, vals[i], n.values[j])

(* What each quantifier asks of an attribute that has values.                *)
LEMMA EvalCompareIs ==
  ASSUME NEW n, NEW ctx
  PROVE  LET vals == Lookup(ctx, n.attr)
         IN  /\ vals = <<>> => ~EvalCompare(n, ctx)
             /\ n.quant = "none" /\ vals # <<>> =>
                  (EvalCompare(n, ctx) <=> Len(vals) = 1 /\ Hits(n, vals, 1, 1))
             /\ n.quant = "anyOfAny" /\ vals # <<>> =>
                  (EvalCompare(n, ctx) <=>
                     \E i \in DOMAIN vals : \E j \in DOMAIN n.values : Hits(n, vals, i, j))
             /\ n.quant = "allOfAny" /\ vals # <<>> =>
                  (EvalCompare(n, ctx) <=>
                     \A i \in DOMAIN vals : \E j \in DOMAIN n.values : Hits(n, vals, i, j))
             /\ n.quant = "anyOfAll" /\ vals # <<>> =>
                  (EvalCompare(n, ctx) <=>
                     \E i \in DOMAIN vals : \A j \in DOMAIN n.values : Hits(n, vals, i, j))
             /\ n.quant = "allOfAll" /\ vals # <<>> =>
                  (EvalCompare(n, ctx) <=>
                     \A i \in DOMAIN vals : \A j \in DOMAIN n.values : Hits(n, vals, i, j))
BY DEF EvalCompare, SomeOf, AllOf, Hits

(* It asks of the same attribute, with the opposite operator.                *)
LEMMA OppositeIs ==
  ASSUME NEW n \in Compared
  PROVE  /\ OppositeOf(n).attr = n.attr
         /\ OppositeOf(n).values = n.values
         /\ OppositeOf(n).quant = Opposite[n.quant]
         /\ OppositeOf(n).op = OppositeOperator(n.op)
<1> DEFINE a == n.attr
           q == n.quant
           op == n.op
           vs == n.values
           y == Opposite[q]
           x == OppositeOperator(op)
<1>1. n = [node |-> "compare", attr |-> a, quant |-> q, op |-> op, values |-> vs]
  BY ComparedAssumption
<1>2. OppositeOf(n) = [n EXCEPT !.quant = y, !.op = x]
  BY DEF OppositeOf
<1> HIDE DEF a, q, op, vs, y, x
<1> DEFINE m == [n EXCEPT !.quant = y]
<1>3. [n EXCEPT !.quant = y, !.op = x] = [m EXCEPT !.op = x]
  OBVIOUS
<1>4. m = [node |-> "compare", attr |-> a, quant |-> y, op |-> op, values |-> vs]
  BY <1>1
<1> HIDE DEF m
<1>5. [m EXCEPT !.op = x]
        = [node |-> "compare", attr |-> a, quant |-> y, op |-> x, values |-> vs]
  BY <1>4
<1>6. OppositeOf(n)
        = [node |-> "compare", attr |-> a, quant |-> y, op |-> x, values |-> vs]
  BY <1>2, <1>3, <1>5
<1> QED
  BY <1>6 DEF a, q, op, vs, y, x

(* An order's opposite is the other order, of the same type; another         *)
(* operator's is its negation.                                               *)
LEMMA OppositeOperatorIs ==
  ASSUME NEW n \in Compared
  PROVE  LET op == n.op
             po == OppositeOperator(n.op)
         IN  /\ po.type = op.type
             /\ op.relation \in Orders =>
                  po.relation = OppositeOrder[op.relation] /\ po.negated = op.negated
             /\ op.relation \notin Orders =>
                  po.relation = op.relation /\ po.negated = ~op.negated
<1> DEFINE t == n.op.type
           r == n.op.relation
           b == n.op.negated
           o == OppositeOrder[r]
           z == ~b
           op == n.op
<1>1. op = [type |-> t, relation |-> r, negated |-> b]
  BY ComparedAssumption
<1>2. OppositeOperator(n.op)
        = IF r \in Orders THEN [op EXCEPT !.relation = o] ELSE [op EXCEPT !.negated = z]
  BY DEF OppositeOperator
<1> HIDE DEF op, t, r, b, o, z
<1>3. [op EXCEPT !.relation = o] = [type |-> t, relation |-> o, negated |-> b]
  BY <1>1
<1>4. [op EXCEPT !.negated = z] = [type |-> t, relation |-> r, negated |-> z]
  BY <1>1
<1> DEFINE po == OppositeOperator(n.op)
<1>5. /\ r \in Orders => po = [type |-> t, relation |-> o, negated |-> b]
      /\ r \notin Orders => po = [type |-> t, relation |-> r, negated |-> z]
  BY <1>2, <1>3, <1>4
<1> HIDE DEF po
<1>6. /\ po.type = t
      /\ r \in Orders => po.relation = o /\ po.negated = b
      /\ r \notin Orders => po.relation = r /\ po.negated = z
  BY <1>5
<1> QED
  BY <1>6 DEF po, t, r, b, o, z

(* Of a number and its opposite orders to an integer one holds, and only one;*)
(* of NaN neither.                                                           *)
LEMMA OppositeOrders ==
  ASSUME NEW relation \in Orders, NEW a \in Int \cup {NaN}, NEW b \in Int
  PROVE  /\ ~(InOrder(relation, a, b) /\ InOrder(OppositeOrder[relation], a, b))
         /\ (a # NaN) <=>
              InOrder(relation, a, b) \/ InOrder(OppositeOrder[relation], a, b)
<1>1. CASE a = NaN
  BY <1>1 DEF InOrder
<1>2. CASE a # NaN
  <2>1. a \in Int
    BY <1>2
  <2>2. CASE relation = "less"
    BY <1>2, <2>1, <2>2 DEF InOrder, OppositeOrder
  <2>3. CASE relation = "lessOrEquals"
    BY <1>2, <2>1, <2>3 DEF InOrder, OppositeOrder
  <2>4. CASE relation = "greater"
    BY <1>2, <2>1, <2>4 DEF InOrder, OppositeOrder
  <2>5. CASE relation = "greaterOrEquals"
    BY <1>2, <2>1, <2>5 DEF InOrder, OppositeOrder
  <2> QED
    BY <2>2, <2>3, <2>4, <2>5 DEF Orders
<1> QED
  BY <1>1, <1>2

\* What can be put in order: by an operator of numbers or times, a value of its
\* type, NaN or not, with an integer.
Orderable(op, v, l) ==
  op.relation \in Orders /\ Comparable(op, v, l) =>
    v.as[op.type] \in Int \cup {NaN} /\ l.value.as[op.type] \in Int

(* Every value of a request with every literal.                              *)
LEMMA AllOrderable ==
  ASSUME NEW n \in Compared, NEW ctx \in Requests,
         NEW i \in DOMAIN Lookup(ctx, n.attr), NEW j \in DOMAIN n.values
  PROVE  Orderable(n.op, Lookup(ctx, n.attr)[i], n.values[j])
<1> DEFINE v == Lookup(ctx, n.attr)[i]
           l == n.values[j]
           t == n.op.type
<1>1. SUFFICES ASSUME n.op.relation \in Orders, t \in v.reads, t \in l.value.reads
               PROVE  v.as[t] \in Int \cup {NaN} /\ l.value.as[t] \in Int
  BY DEF Orderable, Comparable
<1>2. t \in {"number", "time"} /\ l.value.as[t] \in Int
  BY <1>1, ComparedAssumption
<1>3. n.attr \in {m.attr : m \in Compared}
  OBVIOUS
<1>4. v.as[t] \in Int \cup {NaN}
  BY <1>1, <1>2, <1>3, RequestsAssumption
<1> QED
  BY <1>2, <1>4

(* A value hits a literal for one of the two exactly if it is decided, and   *)
(* never for both.                                                           *)
LEMMA OppositeHits ==
  ASSUME NEW n \in Compared, NEW vals, NEW i, NEW j,
         Orderable(n.op, vals[i], n.values[j])
  PROVE  /\ ~(Hits(n, vals, i, j) /\ Hits(OppositeOf(n), vals, i, j))
         /\ Decided(n.op, vals[i], n.values[j]) <=>
              Hits(n, vals, i, j) \/ Hits(OppositeOf(n), vals, i, j)
<1> DEFINE op == n.op
           po == OppositeOf(n).op
           v == vals[i]
           l == n.values[j]
<1>1. /\ po.type = op.type
      /\ op.relation \in Orders =>
           po.relation = OppositeOrder[op.relation] /\ po.negated = op.negated
      /\ op.relation \notin Orders =>
           po.relation = op.relation /\ po.negated = ~op.negated
      /\ OppositeOf(n).values = n.values
  BY OppositeIs, OppositeOperatorIs
<1>2. op.relation \in Orders => ~op.negated
  BY ComparedAssumption
<1>3. Hits(n, vals, i, j) <=> Compare(op, v, l)
  BY DEF Hits
<1>4. Hits(OppositeOf(n), vals, i, j) <=> Compare(po, v, l)
  BY <1>1 DEF Hits
<1>5. Orderable(op, v, l)
  OBVIOUS
<1> HIDE DEF op, po, v, l
<1>6. Comparable(po, v, l) <=> Comparable(op, v, l)
  BY <1>1 DEF Comparable
<1>7. CASE op.relation \in Orders
  <2> DEFINE a == v.as[op.type]
             b == l.value.as[op.type]
             q == OppositeOrder[op.relation]
  <2>1. q \in Orders
    BY <1>7 DEF Orders, OppositeOrder
  <2>2. Relates(op, v, l) <=> InOrder(op.relation, a, b)
    BY <1>7 DEF Relates, Orders
  <2>3. Relates(po, v, l) <=> InOrder(q, a, b)
    BY <1>1, <1>7, <2>1 DEF Relates, Orders
  <2>4. Comparable(op, v, l) => a \in Int \cup {NaN} /\ b \in Int
    BY <1>5, <1>7 DEF Orderable
  <2>5. Comparable(op, v, l) =>
          /\ ~(InOrder(op.relation, a, b) /\ InOrder(q, a, b))
          /\ (a # NaN) <=> InOrder(op.relation, a, b) \/ InOrder(q, a, b)
    <3> HIDE DEF a, b
    <3> QED
      BY <1>7, <2>4, OppositeOrders
  <2>6. Decided(op, v, l) <=> Comparable(op, v, l) /\ a # NaN
    BY <1>7 DEF Decided
  <2>7. /\ Compare(op, v, l) <=> Comparable(op, v, l) /\ InOrder(op.relation, a, b)
        /\ Compare(po, v, l) <=> Comparable(op, v, l) /\ InOrder(q, a, b)
    BY <1>1, <1>2, <1>6, <1>7, <2>2, <2>3 DEF Compare
  <2> QED
    BY <1>3, <1>4, <2>5, <2>6, <2>7 DEF op, v, l
<1>8. CASE op.relation \notin Orders
  <2>1. Relates(po, v, l) = Relates(op, v, l)
    BY <1>1, <1>8 DEF Relates
  <2>2. po.negated <=> ~op.negated
    BY <1>1, <1>8
  <2>3. Decided(op, v, l) <=> Comparable(op, v, l)
    BY <1>8 DEF Decided
  <2>4. /\ ~(Compare(op, v, l) /\ Compare(po, v, l))
        /\ Comparable(op, v, l) <=> Compare(op, v, l) \/ Compare(po, v, l)
    BY <1>6, <2>1, <2>2 DEF Compare
  <2> QED
    BY <1>3, <1>4, <2>3, <2>4 DEF op, v, l
<1> QED
  BY <1>7, <1>8

(* For every comparison and request: the opposite comparisons never both     *)
(* hold, one does if every value of the attribute is decided, and neither if *)
(* none is, be it of another type or NaN.                                    *)
THEOREM OppositesAlwaysExclude == PredicateSpec => []OppositesExclude
<1>1. Asked => OppositesExclude
  <2> SUFFICES ASSUME Asked, comparison # NoComparison PROVE OppositesExclude
    BY DEF OppositesExclude
  <2> DEFINE n == comparison.node
             ctx == comparison.request
             o == OppositeOf(n)
             vals == Lookup(ctx, n.attr)
             H(i, j) == Hits(n, vals, i, j)
             G(i, j) == Hits(o, vals, i, j)
             D(i, j) == Decided(n.op, vals[i], n.values[j])
             usable == /\ vals # <<>>
                       /\ n.quant = "none" => Len(vals) = 1
                       /\ \A i \in DOMAIN vals, j \in DOMAIN n.values : D(i, j)
             useless == \A i \in DOMAIN vals, j \in DOMAIN n.values : ~D(i, j)
  <2>1. n \in Compared /\ ctx \in Requests
    BY DEF Asked
  <2> HIDE DEF n, ctx
  <2>2. o.attr = n.attr /\ o.values = n.values /\ o.quant = Opposite[n.quant]
    BY <2>1, OppositeIs
  <2>3. /\ n.quant \in Quantifiers
        /\ 1 \in DOMAIN n.values
        /\ vals # <<>> => 1 \in DOMAIN vals
    <3>1. n.quant \in Quantifiers /\ 1 \in DOMAIN n.values
      <4>1. /\ n.quant \in Quantifiers
            /\ Len(n.values) \in Nat \ {0} /\ DOMAIN n.values = 1 .. Len(n.values)
        BY <2>1, ComparedAssumption
      <4> DEFINE B == DOMAIN n.values
                 h == Len(n.values)
      <4>2. h \in Nat \ {0} /\ B = 1 .. h
        BY <4>1
      <4> HIDE DEF B, h
      <4>3. 1 \in B
        BY <4>2
      <4> QED
        BY <4>1, <4>3 DEF B
    <3>2. n.attr \in {m.attr : m \in Compared}
      BY <2>1
    <3>3. vals # <<>> => Len(vals) \in Nat \ {0} /\ DOMAIN vals = 1 .. Len(vals)
      BY <2>1, <3>2, RequestsAssumption
    <3> HIDE DEF vals
    <3>4. vals # <<>> => 1 \in DOMAIN vals
      BY <3>3
    <3> QED
      BY <3>1, <3>4
  <2>4. \A i \in DOMAIN vals, j \in DOMAIN n.values :
          ~(H(i, j) /\ G(i, j)) /\ (D(i, j) <=> H(i, j) \/ G(i, j))
    BY <2>1, AllOrderable, OppositeHits
  <2>5. Lookup(ctx, o.attr) = vals
    BY <2>2
  <2> DEFINE x == EvalCompare(n, ctx)
             y == EvalCompare(o, ctx)
             A == DOMAIN vals
             B == DOMAIN n.values
             one == Len(vals) = 1
             some == vals # <<>>
  <2>6. /\ ~some => ~x
        /\ n.quant = "none" /\ some => (x <=> one /\ H(1, 1))
        /\ n.quant = "anyOfAny" /\ some => (x <=> \E i \in A : \E j \in B : H(i, j))
        /\ n.quant = "allOfAny" /\ some => (x <=> \A i \in A : \E j \in B : H(i, j))
        /\ n.quant = "anyOfAll" /\ some => (x <=> \E i \in A : \A j \in B : H(i, j))
        /\ n.quant = "allOfAll" /\ some => (x <=> \A i \in A : \A j \in B : H(i, j))
    BY EvalCompareIs
  <2>7. /\ ~some => ~y
        /\ o.quant = "none" /\ some => (y <=> one /\ G(1, 1))
        /\ o.quant = "anyOfAny" /\ some => (y <=> \E i \in A : \E j \in B : G(i, j))
        /\ o.quant = "allOfAny" /\ some => (y <=> \A i \in A : \E j \in B : G(i, j))
        /\ o.quant = "anyOfAll" /\ some => (y <=> \E i \in A : \A j \in B : G(i, j))
        /\ o.quant = "allOfAll" /\ some => (y <=> \A i \in A : \A j \in B : G(i, j))
    <3> HIDE DEF o
    <3> QED
      BY <2>2, <2>5, EvalCompareIs
  <2>8. /\ n.quant = "none" => o.quant = "none"
        /\ n.quant = "anyOfAny" => o.quant = "allOfAll"
        /\ n.quant = "allOfAll" => o.quant = "anyOfAny"
        /\ n.quant = "allOfAny" => o.quant = "anyOfAll"
        /\ n.quant = "anyOfAll" => o.quant = "allOfAny"
    BY <2>2 DEF Opposite
  <2>9. \A i \in A, j \in B :
          /\ ~(H(i, j) /\ G(i, j))
          /\ usable => H(i, j) \/ G(i, j)
          /\ useless => ~H(i, j) /\ ~G(i, j)
    BY <2>4
  <2>10. usable => some /\ (n.quant = "none" => one)
    OBVIOUS
  <2>11. 1 \in B /\ (some => 1 \in A)
    BY <2>3
  <2> HIDE DEF x, y, A, B, H, G, one, some, usable, useless, o
  <2>12. ~(x /\ y)
    <3>1. CASE n.quant = "none"
      BY <2>6, <2>7, <2>8, <2>9, <2>11, <3>1
    <3>2. CASE n.quant = "anyOfAny"
      BY <2>6, <2>7, <2>8, <2>9, <3>2
    <3>3. CASE n.quant = "allOfAny"
      BY <2>6, <2>7, <2>8, <2>9, <3>3
    <3>4. CASE n.quant = "anyOfAll"
      BY <2>6, <2>7, <2>8, <2>9, <3>4
    <3>5. CASE n.quant = "allOfAll"
      BY <2>6, <2>7, <2>8, <2>9, <3>5
    <3> QED
      BY <2>3, <3>1, <3>2, <3>3, <3>4, <3>5 DEF Quantifiers
  <2>13. usable => x \/ y
    <3> SUFFICES ASSUME usable PROVE x \/ y
      OBVIOUS
    <3>0. \A i \in A, j \in B : H(i, j) \/ G(i, j)
      BY <2>9
    <3>1. CASE n.quant = "none"
      <4>1. H(1, 1) \/ G(1, 1)
        BY <2>10, <2>11, <3>0
      <4> QED
        BY <2>6, <2>7, <2>8, <2>10, <3>1, <4>1
    <3>2. CASE n.quant = "anyOfAny"
      BY <2>6, <2>7, <2>8, <2>10, <3>0, <3>2
    <3>3. CASE n.quant = "allOfAny"
      BY <2>6, <2>7, <2>8, <2>10, <3>0, <3>3
    <3>4. CASE n.quant = "anyOfAll"
      BY <2>6, <2>7, <2>8, <2>10, <3>0, <3>4
    <3>5. CASE n.quant = "allOfAll"
      BY <2>6, <2>7, <2>8, <2>10, <3>0, <3>5
    <3> QED
      BY <2>3, <3>1, <3>2, <3>3, <3>4, <3>5 DEF Quantifiers
  <2>14. useless => ~x /\ ~y
    <3> SUFFICES ASSUME useless, some PROVE ~x /\ ~y
      BY <2>6, <2>7
    <3>0. \A i \in A, j \in B : ~H(i, j) /\ ~G(i, j)
      BY <2>9
    <3>1. CASE n.quant = "none"
      BY <2>6, <2>7, <2>8, <2>11, <3>0, <3>1
    <3>2. CASE n.quant = "anyOfAny"
      BY <2>6, <2>7, <2>8, <2>11, <3>0, <3>2
    <3>3. CASE n.quant = "allOfAny"
      BY <2>6, <2>7, <2>8, <2>11, <3>0, <3>3
    <3>4. CASE n.quant = "anyOfAll"
      BY <2>6, <2>7, <2>8, <2>11, <3>0, <3>4
    <3>5. CASE n.quant = "allOfAll"
      BY <2>6, <2>7, <2>8, <2>11, <3>0, <3>5
    <3> QED
      BY <2>3, <3>1, <3>2, <3>3, <3>4, <3>5 DEF Quantifiers
  <2> QED
    BY <2>12, <2>13, <2>14 DEF OppositesExclude, x, y, usable, useless, n, ctx, o, vals
<1> QED
  BY <1>1, AlwaysAsked, PTL

===============================================================================
