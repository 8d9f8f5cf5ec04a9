----------------------------- MODULE Wildcards -----------------------------
(***************************************************************************)
(* The two wildcard matchers an authorization decision uses: Glob of       *)
(* internal/abac/eval.go for what a role grants and what a condition asks, *)
(* and actionMatches of internal/arm/denyassignments.go for what a deny    *)
(* takes away.  A string is a sequence of characters, letter case folded.  *)
(***************************************************************************)
EXTENDS Naturals, SequencesExt

-------------------------------------------------------------------------------
(* What a pattern means, said without an algorithm. *)

\* f lays pattern p along subject s: f[i] characters of s are taken up by the
\* first i of p.  `*` takes any run, a member of `any` any one, else the same.
Lays(f, p, s, any) ==
  /\ f[0] = 0
  /\ \A i \in 1 .. Len(p) :
       IF p[i] = "*" THEN f[i - 1] <= f[i]
       ELSE /\ f[i] = f[i - 1] + 1
            /\ p[i] = s[f[i]] \/ p[i] \in any

\* The pattern can be laid along all of the subject.
Matches(p, s, any) ==
  \E f \in [0 .. Len(p) -> 0 .. Len(s)] :
    f[Len(p)] = Len(s) /\ Lays(f, p, s, any)

-------------------------------------------------------------------------------
(* globMatch: two indices, and the last star with the place it is tried at. *)

\* The loop's variables; star is 0 until there is one.
LoopStart == [pi |-> 1, si |-> 1, star |-> 0, mark |-> 1]

Fits(p, s, at) == at.pi <= Len(p) /\ p[at.pi] \in {"?", s[at.si]}
OnStar(p, at) == at.pi <= Len(p) /\ p[at.pi] = "*"

\* A walk that goes on from the mismatch instead of back to the mark.
RoundForward(p, s, at) ==
  IF at.si > Len(s) THEN at
  ELSE IF Fits(p, s, at) THEN [at EXCEPT !.pi = @ + 1, !.si = @ + 1]
  ELSE IF OnStar(p, at)
    THEN [at EXCEPT !.pi = @ + 1, !.star = at.pi, !.mark = at.si]
  ELSE IF at.star > 0 THEN [at EXCEPT !.pi = at.star + 1, !.si = @ + 1]
  ELSE at

\* One round of the loop.  At the end of the subject, and at a mismatch with
\* no star to go back to (return false), the variables stay as they are.
Round(p, s, at) ==
  IF at.si > Len(s) THEN at
  ELSE IF Fits(p, s, at) THEN [at EXCEPT !.pi = @ + 1, !.si = @ + 1]
  ELSE IF OnStar(p, at)
    THEN [at EXCEPT !.pi = @ + 1, !.star = at.pi, !.mark = at.si]
  ELSE IF at.star > 0
    THEN [at EXCEPT !.pi = at.star + 1, !.si = at.mark + 1, !.mark = @ + 1]
  ELSE at

\* More rounds than the loop can make before it stays.
Rounds(p, s) == (Len(p) + Len(s) + 1) * (Len(p) + 2)

\* What is left of the pattern when the subject is used up: stars only.
OnlyStars(p, pi) == \A i \in pi .. Len(p) : p[i] = "*"

Glob(p, s) ==
  LET walk[n \in 0 .. Rounds(p, s)] ==
        IF n = 0 THEN LoopStart ELSE Round(p, s, walk[n - 1])
      end == walk[Rounds(p, s)]
  IN  end.si > Len(s) /\ OnlyStars(p, end.pi)

-------------------------------------------------------------------------------
(* actionMatches: the parts between the stars, each found leftmost in turn. *)

\* Where the parts end: before the pattern, at each star, behind the pattern.
Cuts(p) ==
  LET cut[n \in 0 .. Len(p)] ==
        IF n = 0 THEN <<0>>
        ELSE IF p[n] = "*" THEN Append(cut[n - 1], n) ELSE cut[n - 1]
  IN  Append(cut[Len(p)], Len(p) + 1)

\* strings.Split(p, "*").
Split(p) ==
  [k \in 1 .. Len(Cuts(p)) - 1 |->
     SubSeq(p, Cuts(p)[k] + 1, Cuts(p)[k + 1] - 1)]

\* strings.Index: the places a part occurs at behind the first `gone`.
Places(part, a, gone) ==
  {i \in gone + 1 .. Len(a) + 1 :
     /\ i + Len(part) - 1 <= Len(a)
     /\ SubSeq(a, i, i + Len(part) - 1) = part}

\* How many characters are gone with the part; all and one more if it is not
\* there, and then nothing is found behind that.
GoneWith(part, a, gone) ==
  LET at == Places(part, a, gone)
  IN  IF at = {} THEN Len(a) + 1 ELSE Min(at) + Len(part) - 1

\* The whole action, also where earlier parts were found.
RestWhole(a, gone) == a

Rest(a, gone) == SubSeq(a, gone + 1, Len(a))

ActionMatches(p, a) ==
  LET parts == Split(p)
      gone[k \in 0 .. Len(parts) - 2] ==
        IF k > 0 THEN GoneWith(parts[k + 1], a, gone[k - 1])
        ELSE IF IsPrefix(parts[1], a) THEN Len(parts[1]) ELSE Len(a) + 1
      all == gone[Len(parts) - 2]
  IN  IF Len(parts) = 1 THEN p = a
      ELSE all <= Len(a) /\ IsSuffix(Last(parts), Rest(a, all))
===============================================================================
