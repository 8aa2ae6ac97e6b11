--------------------------- MODULE ContainerProofs ---------------------------
(* What a scan suggests is sound for every listing of a registry and every *)
(* set of tags, and a Compose file names an image of the host whatever     *)
(* fails.                                                                  *)
EXTENDS ContainerUpdate, TagScan, FiniteSetTheorems, TLAPS

(* Induction over the length of a listing: a nonempty set of numbers has a *)
(* least one.                                                              *)
LEMMA LeastNumber ==
  ASSUME NEW T \in SUBSET Nat, T # {}
  PROVE  \E x \in T : \A y \in T : x <= y
<1> DEFINE R == OpToRel(<, Nat)
<1>1. \A x, y \in Nat : y < x => <<y, x>> \in R
  BY DEF OpToRel
<1>2. IsWellFoundedOn(R, Nat)
  BY NatLessThanWellFounded
<1> HIDE DEF R
<1>3. PICK x \in T : \A y \in T : ~ (<<y, x>> \in R)
  BY <1>2, WFMin
<1>4. ASSUME NEW y \in T PROVE x <= y
  <2>1. ~(y < x)
    BY <1>1, <1>3
  <2> QED BY <2>1
<1> QED BY <1>4

LEMMA GreatestIndex ==
  ASSUME NEW N \in Nat, NEW s \in SUBSET (1 .. N), s # {}
  PROVE  Max(s) \in s /\ \A y \in s : Max(s) >= y
<1> DEFINE T == {N - x : x \in s}
<1>1. T \in SUBSET Nat /\ T # {}
  <2>1. ASSUME NEW x \in s PROVE N - x \in Nat
    <3>1. x \in 1 .. N
      OBVIOUS
    <3> QED BY <3>1
  <2> QED BY <2>1
<1>2. PICK z \in T : \A y \in T : z <= y
  BY <1>1, LeastNumber
<1>3. PICK x \in s : z = N - x
  OBVIOUS
<1>4. ASSUME NEW y \in s PROVE x >= y
  <2>1. N - x <= N - y
    BY <1>2, <1>3
  <2> QED BY <2>1
<1>5. \E m \in s : \A y \in s : m >= y
  BY <1>4
<1> QED BY <1>5 DEF Max

LEMMA GreatestOfInterval ==
  ASSUME NEW n \in Nat, NEW s \in SUBSET (1 .. n + 1), n + 1 \in s
  PROVE  Max(s) = n + 1
<1> DEFINE N == n + 1
<1>0. N \in Nat /\ s \in SUBSET (1 .. N) /\ s # {}
  OBVIOUS
<1>1. Max(s) \in s /\ Max(s) >= n + 1
  BY ONLY n + 1 \in s, <1>0, GreatestIndex
<1>2. Max(s) \in 1 .. n + 1
  BY <1>1
<1> QED BY <1>1, <1>2

(* The recursive function that FoldLeft chooses exists.                    *)
FoldsTo(F, N, B, g) ==
    \A s \in SUBSET (1 .. N) : F[s] = IF s = {} THEN B ELSE g[<<F[s \ {Max(s)}], Max(s)>>]

LEMMA FoldExists ==
  ASSUME NEW N \in Nat, NEW V, NEW B \in V, NEW g \in [V \X (1 .. N) -> V]
  PROVE  \E F \in [SUBSET (1 .. N) -> V] : FoldsTo(F, N, B, g)
<1> DEFINE Good(n) == \E F \in [SUBSET (1 .. n) -> V] : FoldsTo(F, n, B, g)
           T == {n \in 0 .. N : ~Good(n)}
<1>1. Good(0)
  <2> DEFINE F == [s \in SUBSET (1 .. 0) |-> B]
  <2>1. SUBSET (1 .. 0) = {{}}
    OBVIOUS
  <2>2. F \in [SUBSET (1 .. 0) -> V] /\ FoldsTo(F, 0, B, g)
    BY <2>1 DEF FoldsTo
  <2> QED BY <2>2
<1>2. ASSUME NEW n \in Nat, n + 1 \in 0 .. N, Good(n) PROVE Good(n + 1)
  <2>1. PICK F \in [SUBSET (1 .. n) -> V] : FoldsTo(F, n, B, g)
    BY <1>2
  <2> DEFINE H == [s \in SUBSET (1 .. n + 1) |->
                     IF n + 1 \in s THEN g[<<F[s \ {n + 1}], n + 1>>] ELSE F[s]]
  <2>2. ASSUME NEW s \in SUBSET (1 .. n + 1), n + 1 \in s
        PROVE  s \ {n + 1} \in SUBSET (1 .. n) /\ H[s] = g[<<F[s \ {n + 1}], n + 1>>] /\ H[s] \in V
    <3>1. s \ {n + 1} \in SUBSET (1 .. n)
      BY <2>2
    <3>2. F[s \ {n + 1}] \in V /\ n + 1 \in 1 .. N
      BY <1>2, <3>1
    <3> QED BY <2>2, <3>1, <3>2
  <2>3. ASSUME NEW s \in SUBSET (1 .. n + 1), n + 1 \notin s
        PROVE  s \in SUBSET (1 .. n) /\ H[s] = F[s] /\ H[s] \in V
    <3>1. s \in SUBSET (1 .. n)
      BY <2>3
    <3> QED BY <2>3, <3>1
  <2>4. H \in [SUBSET (1 .. n + 1) -> V]
    BY <2>2, <2>3
  <2>5. ASSUME NEW s \in SUBSET (1 .. n + 1)
        PROVE  H[s] = IF s = {} THEN B ELSE g[<<H[s \ {Max(s)}], Max(s)>>]
    <3>1. CASE n + 1 \in s
      <4>1. Max(s) = n + 1 /\ s # {}
        BY <3>1, GreatestOfInterval
      <4>2. s \ {n + 1} \in SUBSET (1 .. n + 1) /\ n + 1 \notin s \ {n + 1}
        OBVIOUS
      <4>3. H[s \ {n + 1}] = F[s \ {n + 1}]
        BY <2>3, <4>2
      <4> HIDE DEF H
      <4> QED BY <2>2, <3>1, <4>1, <4>3
    <3>2. CASE n + 1 \notin s
      <4>1. s \in SUBSET (1 .. n) /\ H[s] = F[s]
        BY <2>3, <3>2
      <4>2. s \ {Max(s)} \in SUBSET (1 .. n + 1) /\ n + 1 \notin s \ {Max(s)}
        BY <3>2
      <4>3. H[s \ {Max(s)}] = F[s \ {Max(s)}]
        BY <2>3, <4>2
      <4> HIDE DEF H
      <4> QED BY <2>1, <4>1, <4>3 DEF FoldsTo
    <3> QED BY <3>1, <3>2
  <2>6. FoldsTo(H, n + 1, B, g)
    BY <2>5 DEF FoldsTo
  <2> QED BY <2>4, <2>6
<1> HIDE DEF Good
<1>3. T = {}
  <2> SUFFICES ASSUME T # {} PROVE FALSE
    OBVIOUS
  <2>1. T \in SUBSET Nat
    OBVIOUS
  <2>2. PICK n \in T : \A m \in T : n <= m
    BY <2>1, LeastNumber
  <2>3. n # 0 /\ n \in 0 .. N /\ ~Good(n)
    BY <1>1
  <2>4. n - 1 \in Nat /\ n - 1 \in 0 .. N /\ (n - 1) + 1 = n
    BY <2>3
  <2>5. n - 1 \notin T
    BY <2>2, <2>4
  <2>6. Good(n - 1)
    BY <2>4, <2>5
  <2> QED BY <1>2, <2>3, <2>4, <2>6
<1>4. Good(N)
  BY <1>3
<1> QED BY <1>4 DEF Good

-----------------------------------------------------------------------------
(* The order of tags, and the highest of a listing.                        *)

LEMMA TagOrder ==
  ASSUME NEW a \in Tag, NEW b \in Tag, NEW c \in Tag
  PROVE  /\ ~Less(a, a)
         /\ Less(a, b) /\ Less(b, c) => Less(a, c)
         /\ Less(a, b) => Less(a, c) \/ Less(c, b)
<1>1. \A t \in {a, b, c} : t.major \in Nat /\ t.minor \in Nat /\ t.sfx \in Nat
  BY DEF Tag, TagSuffixes
<1> QED BY <1>1 DEF Less

LEMMA NoTagIsNone == NoTag \notin Tag /\ ~Semver(NoTag)
  BY DEF NoTag, Tag, Kinds, Semver

(* What the loop over a listing keeps: the first of those that fit which   *)
(* none that fits is above.                                                *)
Highest(ts, fit, best) ==
    \/ fit = {} /\ best = NoTag
    \/ \E i \in fit : /\ best = ts[i]
                      /\ \A j \in fit : /\ ~Less(ts[i], ts[j])
                                        /\ j < i => Less(ts[j], ts[i])

Keeps(ts, fit, F) ==
    /\ F[{}] = NoTag
    /\ \A n \in DOMAIN ts :
        F[1 .. n] = IF n \in fit /\ (F[1 .. n - 1] = NoTag \/ Less(F[1 .. n - 1], ts[n]))
                    THEN ts[n] ELSE F[1 .. n - 1]

LEMMA HighestKept ==
  ASSUME NEW N \in Nat, NEW ts \in [1 .. N -> Tag], NEW fit \in SUBSET (1 .. N),
         NEW F, Keeps(ts, fit, F)
  PROVE  Highest(ts, fit, F[1 .. N])
<1> DEFINE Good(n) == Highest(ts, fit \intersect (1 .. n), F[1 .. n])
           T == {n \in 0 .. N : ~Good(n)}
<1>1. Good(0)
  <2>1. 1 .. 0 = {}
    OBVIOUS
  <2> QED BY <2>1 DEF Highest, Keeps
<1>2. ASSUME NEW n \in Nat, n + 1 \in 0 .. N, Good(n) PROVE Good(n + 1)
  <2> DEFINE fit0 == fit \intersect (1 .. n)
             fit1 == fit \intersect (1 .. n + 1)
             best == F[1 .. n]
             t == ts[n + 1]
  <2>1. n + 1 \in 1 .. N /\ t \in Tag /\ n + 1 - 1 = n
    BY <1>2
  <2>2. F[1 .. n + 1] = IF n + 1 \in fit /\ (best = NoTag \/ Less(best, t)) THEN t ELSE best
    BY <2>1 DEF Keeps
  <2>3. fit0 \in SUBSET (1 .. n)
        /\ fit1 = IF n + 1 \in fit THEN fit0 \union {n + 1} ELSE fit0
    BY <2>1
  <2>4. Highest(ts, fit0, best)
    BY <1>2
  <2>5. fit0 \in SUBSET DOMAIN ts /\ \A j \in fit0 : ts[j] \in Tag /\ j \in Nat /\ j < n + 1
    BY <2>1
  <2> HIDE DEF fit0, fit1, best, t
  <2>6. CASE n + 1 \notin fit
    BY <2>2, <2>3, <2>4, <2>6 DEF fit1
  <2>7. CASE n + 1 \in fit /\ fit0 = {}
    <3>1. best = NoTag
      BY <2>4, <2>7 DEF Highest
    <3>2. fit1 = {n + 1} /\ F[1 .. n + 1] = t /\ ~Less(t, t)
      BY <2>1, <2>2, <2>3, <2>7, <3>1, TagOrder
    <3>3. Highest(ts, fit1, t)
      BY <2>1, <3>2 DEF Highest, t
    <3> QED BY <3>2, <3>3 DEF fit1
  <2>8. CASE n + 1 \in fit /\ fit0 # {}
    <3>1. PICK i \in fit0 : /\ best = ts[i]
                            /\ \A j \in fit0 : ~Less(ts[i], ts[j]) /\ (j < i => Less(ts[j], ts[i]))
      BY <2>4, <2>8 DEF Highest
    <3>2. best \in Tag /\ best # NoTag
      BY <2>5, <3>1, NoTagIsNone
    <3>3. CASE Less(best, t)
      <4>1. F[1 .. n + 1] = t
        BY <2>2, <2>8, <3>3
      <4>2. ASSUME NEW j \in fit1 PROVE ~Less(t, ts[j]) /\ (j < n + 1 => Less(ts[j], t))
        <5>1. CASE j = n + 1
          BY <2>1, <5>1, TagOrder DEF t
        <5>2. CASE j \in fit0
          <6>1. ts[j] \in Tag /\ ~Less(best, ts[j])
            BY <2>5, <3>1, <5>2
          <6> QED BY <2>1, <3>2, <3>3, <6>1, TagOrder
        <5> QED BY <2>3, <2>8, <5>1, <5>2
      <4>3. n + 1 \in fit1
        BY <2>3, <2>8
      <4>4. Highest(ts, fit1, t)
        BY <4>2, <4>3 DEF Highest, t
      <4> QED BY <4>1, <4>4 DEF fit1
    <3>4. CASE ~Less(best, t)
      <4>1. F[1 .. n + 1] = best
        BY <2>2, <3>2, <3>4
      <4>2. ASSUME NEW j \in fit1 PROVE ~Less(ts[i], ts[j]) /\ (j < i => Less(ts[j], ts[i]))
        <5>1. CASE j = n + 1
          BY <2>5, <3>1, <3>4, <5>1 DEF t
        <5>2. CASE j \in fit0
          BY <3>1, <5>2
        <5> QED BY <2>3, <2>8, <5>1, <5>2
      <4>3. i \in fit1
        BY <2>3, <2>8, <3>1
      <4>4. Highest(ts, fit1, best)
        BY <3>1, <4>2, <4>3 DEF Highest
      <4> QED BY <4>1, <4>4 DEF fit1
    <3> QED BY <3>3, <3>4
  <2> QED BY <2>6, <2>7, <2>8
<1> HIDE DEF Good
<1>3. T = {}
  <2> SUFFICES ASSUME T # {} PROVE FALSE
    OBVIOUS
  <2>1. T \in SUBSET Nat
    OBVIOUS
  <2>2. PICK n \in T : \A m \in T : n <= m
    BY <2>1, LeastNumber
  <2>3. n # 0 /\ n \in 0 .. N /\ ~Good(n)
    BY <1>1
  <2>4. n - 1 \in Nat /\ n - 1 \in 0 .. N /\ (n - 1) + 1 = n
    BY <2>3
  <2>5. n - 1 \notin T
    BY <2>2, <2>4
  <2>6. Good(n - 1)
    BY <2>4, <2>5
  <2> QED BY <1>2, <2>3, <2>4, <2>6
<1>4. Good(N)
  BY <1>3
<1>5. fit \intersect (1 .. N) = fit
  OBVIOUS
<1> QED BY <1>4, <1>5 DEF Good

\* The loop over a listing as the function FoldLeft makes of it.
Loop(ts, fit, F) ==
    F = [s \in SUBSET DOMAIN ts |->
            IF s = {} THEN NoTag
            ELSE IF Max(s) \in fit /\ (F[s \ {Max(s)}] = NoTag \/ Less(F[s \ {Max(s)}], ts[Max(s)]))
                 THEN ts[Max(s)] ELSE F[s \ {Max(s)}]]

LEMMA LoopExists ==
  ASSUME NEW N \in Nat, NEW ts \in [1 .. N -> Tag], NEW fit
  PROVE  \E F : Loop(ts, fit, F)
<1> DEFINE V == Tag \union {NoTag}
           g == [p \in V \X (1 .. N) |->
                   IF p[2] \in fit /\ (p[1] = NoTag \/ Less(p[1], ts[p[2]])) THEN ts[p[2]] ELSE p[1]]
<1>1. g \in [V \X (1 .. N) -> V]
  OBVIOUS
<1>2. \A v \in V, i \in 1 .. N :
        g[<<v, i>>] = IF i \in fit /\ (v = NoTag \/ Less(v, ts[i])) THEN ts[i] ELSE v
  OBVIOUS
<1>3. NoTag \in V
  OBVIOUS
<1> HIDE DEF V, g
<1>4. PICK F \in [SUBSET (1 .. N) -> V] : FoldsTo(F, N, NoTag, g)
  BY <1>1, <1>3, FoldExists
<1>5. ASSUME NEW s \in SUBSET (1 .. N), s # {}
      PROVE  F[s] = IF Max(s) \in fit /\ (F[s \ {Max(s)}] = NoTag \/ Less(F[s \ {Max(s)}], ts[Max(s)]))
                    THEN ts[Max(s)] ELSE F[s \ {Max(s)}]
  <2>1. Max(s) \in 1 .. N
    BY <1>5, GreatestIndex
  <2>2. F[s \ {Max(s)}] \in V
    OBVIOUS
  <2>3. F[s] = g[<<F[s \ {Max(s)}], Max(s)>>]
    BY <1>4, <1>5 DEF FoldsTo
  <2> QED BY <1>2, <2>1, <2>2, <2>3
<1>6. F[{}] = NoTag
  BY <1>4 DEF FoldsTo
<1>7. DOMAIN ts = 1 .. N
  OBVIOUS
<1> QED BY <1>4, <1>5, <1>6, <1>7 DEF Loop

LEMMA LoopKeeps ==
  ASSUME NEW N \in Nat, NEW ts \in [1 .. N -> Tag], NEW fit, NEW F, Loop(ts, fit, F)
  PROVE  Keeps(ts, fit, F)
<1>1. DOMAIN ts = 1 .. N
  OBVIOUS
<1>2. F[{}] = NoTag
  BY DEF Loop
<1>3. ASSUME NEW n \in 1 .. N
      PROVE  F[1 .. n] = IF n \in fit /\ (F[1 .. n - 1] = NoTag \/ Less(F[1 .. n - 1], ts[n]))
                         THEN ts[n] ELSE F[1 .. n - 1]
  <2> DEFINE s == 1 .. n
  <2>1. s \in SUBSET (1 .. N) /\ n - 1 \in Nat /\ n - 1 + 1 = n /\ n \in s
    OBVIOUS
  <2>2. Max(s) = n
    BY <2>1, GreatestOfInterval
  <2>3. s \ {n} = 1 .. n - 1
    OBVIOUS
  <2> HIDE DEF s
  <2>4. F[s] = IF n \in fit /\ (F[s \ {n}] = NoTag \/ Less(F[s \ {n}], ts[n])) THEN ts[n] ELSE F[s \ {n}]
    BY <1>1, <2>1, <2>2 DEF Loop
  <2> QED BY <2>3, <2>4 DEF s
<1> QED BY <1>1, <1>2, <1>3 DEF Keeps

LEMMA HighestSemverOf ==
  ASSUME NEW N \in Nat, NEW ts \in [1 .. N -> Tag]
  PROVE  Highest(ts, {i \in 1 .. N : Semver(ts[i])}, HighestSemver(ts))
<1> DEFINE fit == {i \in 1 .. N : Semver(ts[i])}
           P(H) == H = [s \in SUBSET DOMAIN ts |->
                         IF s = {} THEN NoTag
                         ELSE IF Semver(ts[Max(s)]) /\ (H[s \ {Max(s)}] = NoTag \/ Less(H[s \ {Max(s)}], ts[Max(s)]))
                              THEN ts[Max(s)] ELSE H[s \ {Max(s)}]]
           I == CHOOSE H : P(H)
<1>1. DOMAIN ts = 1 .. N /\ \A s \in SUBSET (1 .. N) : s # {} => Max(s) \in 1 .. N
  BY GreatestIndex
<1>2. ASSUME NEW H PROVE P(H) <=> Loop(ts, fit, H)
  BY <1>1 DEF Loop
<1>3. \E H : P(H)
  BY <1>2, LoopExists
<1>4. P(I)
  <2> HIDE DEF P
  <2> QED BY <1>3
<1>5. HighestSemver(ts) = I[DOMAIN ts]
  BY DEF HighestSemver, HighestOf, FoldLeft, MapThenFoldSet
<1>6. Highest(ts, fit, I[1 .. N])
  <2>1. Loop(ts, fit, I)
    BY <1>2, <1>4
  <2>2. fit \in SUBSET (1 .. N)
    OBVIOUS
  <2> HIDE DEF I, fit
  <2> QED BY <2>1, <2>2, LoopKeeps, HighestKept
<1> QED BY <1>1, <1>5, <1>6

LEMMA HighestCompatibleOf ==
  ASSUME NEW N \in Nat, NEW ts \in [1 .. N -> Tag], NEW t0, Semver(t0)
  PROVE  Highest(ts, {i \in 1 .. N : Compatible(t0, ts[i])}, HighestCompatible(t0, ts))
<1> DEFINE fit == {i \in 1 .. N : Compatible(t0, ts[i])}
           P(H) == H = [s \in SUBSET DOMAIN ts |->
                         IF s = {} THEN NoTag
                         ELSE IF Compatible(t0, ts[Max(s)]) /\ (H[s \ {Max(s)}] = NoTag \/ Less(H[s \ {Max(s)}], ts[Max(s)]))
                              THEN ts[Max(s)] ELSE H[s \ {Max(s)}]]
           I == CHOOSE H : P(H)
<1>1. DOMAIN ts = 1 .. N /\ \A s \in SUBSET (1 .. N) : s # {} => Max(s) \in 1 .. N
  BY GreatestIndex
<1>2. ASSUME NEW H PROVE P(H) <=> Loop(ts, fit, H)
  BY <1>1 DEF Loop
<1>3. \E H : P(H)
  BY <1>2, LoopExists
<1>4. P(I)
  <2> HIDE DEF P
  <2> QED BY <1>3
<1>5. HighestCompatible(t0, ts) = I[DOMAIN ts]
  BY DEF HighestCompatible, HighestOf, FoldLeft, MapThenFoldSet
<1>6. Highest(ts, fit, I[1 .. N])
  <2>1. Loop(ts, fit, I)
    BY <1>2, <1>4
  <2>2. fit \in SUBSET (1 .. N)
    OBVIOUS
  <2> HIDE DEF I, fit
  <2> QED BY <2>1, <2>2, LoopKeeps, HighestKept
<1> QED BY <1>1, <1>5, <1>6

-----------------------------------------------------------------------------
(* The verdict of a scan, for every listing ts, digests d and content loc. *)

LEMMA SuggestedIsListed ==
  ASSUME NEW N \in Nat, NEW ts \in [1 .. N -> Tag], NEW t0, NEW l \in BOOLEAN, NEW d, NEW loc
  PROVE  Verdict(t0, ts, l, d, loc).suggest \in {NoTag} \union {ts[i] : i \in 1 .. N}
<1> DEFINE best == HighestCompatible(t0, ts)
           overall == HighestSemver(ts)
           v == Verdict(t0, ts, l, d, loc)
<1>1. v.suggest \in {NoTag, best}
  <2>1. v \in {Unknown, Current, Changed, [has |-> 1, suggest |-> best]}
    <3> HIDE DEF best, overall
    <3> QED BY DEF Verdict, SameTag, ListFailed, Versioned, best, overall
  <2> HIDE DEF best, v
  <2> QED BY <2>1 DEF Unknown, Current, Changed
<1>2. CASE Semver(t0)
  <2>1. best = NoTag \/ \E i \in 1 .. N : best = ts[i]
    BY <1>2, HighestCompatibleOf DEF Highest
  <2> QED BY <1>1, <2>1
<1>3. CASE ~Semver(t0)
  <2>1. best = NoTag
    BY <1>3 DEF HighestCompatible
  <2> QED BY <1>1, <2>1
<1> QED BY <1>2, <1>3

(* "Versioned tags may move only to a newer compatible tag": a suggestion  *)
(* is the highest of the compatible tags, and above the tag that runs.     *)
LEMMA SuggestionIsHighest ==
  ASSUME NEW N \in Nat, NEW ts \in [1 .. N -> Tag], NEW t0 \in Tag, NEW l \in BOOLEAN,
         NEW d, NEW loc, Verdict(t0, ts, l, d, loc).suggest # NoTag
  PROVE  LET v == Verdict(t0, ts, l, d, loc) IN
         /\ Semver(t0) /\ v.suggest = HighestCompatible(t0, ts)
         /\ Less(t0, v.suggest) /\ d[v.suggest] # 0
<1> DEFINE best == HighestCompatible(t0, ts)
           overall == HighestSemver(ts)
           v == Verdict(t0, ts, l, d, loc)
<1>1. v = [has |-> 1, suggest |-> best] /\ Less(t0, best) /\ d[best] # 0 /\ best # NoTag
  <2> HIDE DEF best, overall
  <2> QED BY DEF Verdict, SameTag, ListFailed, Versioned, best, overall, Unknown, Current, Changed
<1>2. Semver(t0)
  BY <1>1 DEF HighestCompatible
<1> HIDE DEF best
<1> QED BY <1>1, <1>2 DEF best

LEMMA CompatibleMembers ==
  ASSUME NEW N \in Nat, NEW ts \in [1 .. N -> Tag], NEW t0 \in Tag, Semver(t0),
         HighestCompatible(t0, ts) # NoTag
  PROVE  \E i \in 1 .. N :
           /\ HighestCompatible(t0, ts) = ts[i] /\ Compatible(t0, ts[i])
           /\ \A j \in 1 .. N : Compatible(t0, ts[j]) =>
                ~Less(ts[i], ts[j]) /\ (j < i => Less(ts[j], ts[i]))
  BY HighestCompatibleOf DEF Highest

LEMMA NoneCompatible ==
  ASSUME NEW N \in Nat, NEW ts \in [1 .. N -> Tag], NEW t0 \in Tag, Semver(t0),
         HighestCompatible(t0, ts) = NoTag
  PROVE  \A j \in 1 .. N : ~Compatible(t0, ts[j])
<1> DEFINE fit == {i \in 1 .. N : Compatible(t0, ts[i])}
<1>1. Highest(ts, fit, NoTag)
  BY HighestCompatibleOf
<1>2. fit = {}
  BY <1>1, NoTagIsNone DEF Highest
<1> QED BY <1>2

(* "Up to date" is right for a versioned tag.                              *)
LEMMA CurrentIsRight ==
  ASSUME NEW N \in Nat, NEW ts \in [1 .. N -> Tag], NEW t0 \in Tag, NEW l \in BOOLEAN,
         NEW d, NEW loc, Verdict(t0, ts, l, d, loc).has = 0, ~Floating(t0)
  PROVE  /\ l
         /\ \A i \in 1 .. N : Semver(t0) /\ Compatible(t0, ts[i]) /\ Less(t0, ts[i]) =>
              \E j \in 1 .. N : Compatible(t0, ts[j]) /\ ~Less(ts[j], ts[i]) /\ d[ts[j]] = loc
<1> DEFINE best == HighestCompatible(t0, ts)
           overall == HighestSemver(ts)
           v == Verdict(t0, ts, l, d, loc)
<1>1. l /\ (best # NoTag => d[best] = loc \/ ~Less(t0, best))
  <2> HIDE DEF best, overall
  <2> QED BY DEF Verdict, SameTag, ListFailed, Versioned, best, overall, Unknown, Current, Changed
<1>2. ASSUME NEW i \in 1 .. N, Semver(t0), Compatible(t0, ts[i]), Less(t0, ts[i])
      PROVE  \E j \in 1 .. N : Compatible(t0, ts[j]) /\ ~Less(ts[j], ts[i]) /\ d[ts[j]] = loc
  <2>1. best # NoTag
    BY <1>2, NoneCompatible
  <2>2. PICK k \in 1 .. N : best = ts[k] /\ Compatible(t0, ts[k]) /\ ~Less(ts[k], ts[i])
    BY <1>2, <2>1, CompatibleMembers
  <2>3. ts[i] \in Tag /\ ts[k] \in Tag
    OBVIOUS
  <2>4. Less(t0, ts[k])
    BY <1>2, <2>2, <2>3, TagOrder
  <2> HIDE DEF best
  <2> QED BY <1>1, <2>1, <2>2, <2>4
<1> QED BY <1>1, <1>2

LEMMA CompatibleNarrows ==
  ASSUME NEW a, NEW b, NEW c, Compatible(a, b)
  PROVE  /\ Compatible(b, b)
         /\ Compatible(b, c) => Compatible(a, c)
  BY DEF Compatible, SameVariant

(* After the update to the highest compatible tag, that tag is still it.   *)
LEMMA HighestStays ==
  ASSUME NEW N \in Nat, NEW ts \in [1 .. N -> Tag], NEW t0 \in Tag, Semver(t0),
         HighestCompatible(t0, ts) # NoTag
  PROVE  LET best == HighestCompatible(t0, ts) IN
         best \in Tag /\ Semver(best) /\ HighestCompatible(best, ts) = best
<1> DEFINE best == HighestCompatible(t0, ts)
<1>1. PICK i \in 1 .. N :
        /\ best = ts[i] /\ Compatible(t0, ts[i])
        /\ \A j \in 1 .. N : Compatible(t0, ts[j]) =>
             ~Less(ts[i], ts[j]) /\ (j < i => Less(ts[j], ts[i]))
  BY CompatibleMembers
<1>2. best \in Tag /\ Semver(best)
  BY <1>1 DEF Compatible
<1> HIDE DEF best
<1>3. HighestCompatible(best, ts) # NoTag
  BY <1>1, <1>2, CompatibleNarrows, NoneCompatible
<1>4. PICK k \in 1 .. N :
        /\ HighestCompatible(best, ts) = ts[k] /\ Compatible(best, ts[k])
        /\ \A j \in 1 .. N : Compatible(best, ts[j]) =>
             ~Less(ts[k], ts[j]) /\ (j < k => Less(ts[j], ts[k]))
  BY <1>2, <1>3, CompatibleMembers
<1>5. Compatible(t0, ts[k]) /\ Compatible(best, ts[i])
  BY <1>1, <1>4, CompatibleNarrows
<1>6. ~(k < i) /\ ~(i < k)
  BY <1>1, <1>4, <1>5
<1>7. k = i
  BY <1>6
<1> QED BY <1>1, <1>2, <1>4, <1>7 DEF best

-----------------------------------------------------------------------------
(* Two scans and the update between them.                                  *)

Listing == \E n \in Nat : tags \in [1 .. n -> Tag]
TheVerdict == Verdict(cur, tags, listed, dig, local)
ScanInv ==
    /\ cur \in Tag /\ Listing /\ (\A i \in DOMAIN tags : tags[i] \in Tags) /\ listed \in BOOLEAN
    /\ stage \in {"scan", "scanned", "rescan", "settled"}
    /\ stage = "scanned" => verdict = TheVerdict
    /\ stage = "rescan" => TheVerdict.has = 0
    /\ stage = "settled" => verdict.has = 0

\* What runs the content that its tag names is up to date, if nothing is higher.
LEMMA RunningIsCurrent ==
  ASSUME NEW t0, NEW ts, NEW d, NEW loc, d[t0] = loc, loc # 0
  PROVE  /\ Floating(t0) => Verdict(t0, ts, TRUE, d, loc) = Current
         /\ ~Floating(t0) /\ t0 # NoTag /\ HighestCompatible(t0, ts) = t0 =>
                Verdict(t0, ts, TRUE, d, loc) = Current
<1> DEFINE best == HighestCompatible(t0, ts)
           overall == HighestSemver(ts)
<1>1. SameTag(t0, d, loc) = Current
  BY DEF SameTag
<1>2. Versioned(t0, t0, d, loc) = Current
  BY DEF Versioned
<1>3. CASE Floating(t0)
  BY <1>1, <1>3 DEF Verdict
<1>4. CASE ~Floating(t0) /\ t0 # NoTag /\ HighestCompatible(t0, ts) = t0
  BY <1>2, <1>4 DEF Verdict
<1> QED BY <1>3, <1>4

LEMMA ScanInit == TagInit => ScanInv
<1> SUFFICES ASSUME TagInit PROVE ScanInv
  OBVIOUS
<1>1. PICK n \in 0 .. MaxTags : tags \in [1 .. n -> Tags]
  BY DEF TagInit
<1>2. n \in Nat /\ tags \in [1 .. n -> Tag]
  BY <1>1, TagConstants
<1> QED BY <1>1, <1>2, TagConstants DEF TagInit, ScanInv, Listing

\* Whatever Apply does, the next scan has nothing to ask for.
LEMMA ApplySettles ==
  ASSUME ScanInv, Apply
  PROVE  cur' \in Tag /\ Verdict(cur', tags, TRUE, dig, local').has = 0
<1>1. PICK N \in Nat : tags \in [1 .. N -> Tag]
  BY DEF ScanInv, Listing
<1>2. /\ verdict = TheVerdict /\ verdict.has = 1 /\ cur \in Tag /\ listed \in BOOLEAN
      /\ verdict.suggest # NoTag \/ UpdateType(cur) = "latest"
      /\ cur' = IF verdict.suggest # NoTag THEN verdict.suggest ELSE cur
      /\ local' = dig[cur']
  BY DEF Apply, ScanInv, Candidate
<1>3. CASE verdict.suggest # NoTag
  <2> DEFINE best == HighestCompatible(cur, tags)
  <2>1. Semver(cur) /\ verdict.suggest = best /\ dig[best] # 0 /\ best # NoTag
    BY <1>1, <1>2, <1>3, SuggestionIsHighest DEF TheVerdict
  <2>2. best \in Tag /\ Semver(best) /\ HighestCompatible(best, tags) = best
    BY <1>1, <1>2, <2>1, HighestStays
  <2>3. cur' = best /\ local' = dig[best]
    BY <1>2, <1>3, <2>1
  <2> HIDE DEF best
  <2>5. ~Floating(best)
    BY <2>2 DEF Semver, Floating
  <2>6. Verdict(best, tags, TRUE, dig, dig[best]) = Current
    <3> DEFINE loc == dig[best]
    <3>1. dig[best] = loc /\ loc # 0
      BY <2>1
    <3> HIDE DEF loc
    <3>2. Verdict(best, tags, TRUE, dig, loc) = Current
      BY ONLY <3>1, <2>1, <2>2, <2>5, RunningIsCurrent
    <3> QED BY <3>2 DEF loc
  <2>7. Verdict(cur', tags, TRUE, dig, local') = Current
    BY ONLY <2>3, <2>6, Zenon
  <2>8. Current.has = 0
    BY DEF Current
  <2> QED BY ONLY <2>2, <2>3, <2>7, <2>8, Zenon
<1>4. CASE verdict.suggest = NoTag
  <2>1. Floating(cur)
    BY <1>2, <1>4 DEF UpdateType, Floating
  <2>2. local # 0 /\ verdict = SameTag(cur, dig, local)
    BY <1>2, <2>1 DEF TheVerdict, Verdict, Unknown
  <2>3. dig[cur] # 0
    BY <1>2, <2>2 DEF SameTag, Unknown
  <2>4. Verdict(cur, tags, TRUE, dig, dig[cur]) = Current
    <3> DEFINE loc == dig[cur]
    <3>1. dig[cur] = loc /\ loc # 0
      BY <2>3
    <3> HIDE DEF loc
    <3>2. Verdict(cur, tags, TRUE, dig, loc) = Current
      BY ONLY <3>1, <2>1, RunningIsCurrent
    <3> QED BY <3>2 DEF loc
  <2>5. cur' = cur /\ local' = dig[cur]
    BY <1>2, <1>4
  <2>6. Verdict(cur', tags, TRUE, dig, local') = Current
    BY ONLY <2>4, <2>5, Zenon
  <2>7. Current.has = 0 /\ cur \in Tag
    BY <1>2 DEF Current
  <2> QED BY ONLY <2>5, <2>6, <2>7, Zenon
<1> QED BY <1>3, <1>4

LEMMA ScanStep == ScanInv /\ [TagNext]_tagVars => ScanInv'
<1>1. CASE UNCHANGED tagVars
  BY <1>1 DEF tagVars, ScanInv, Listing, TheVerdict
<1>2. ASSUME ScanInv, Scan PROVE ScanInv'
  <2>1. /\ stage \in {"scan", "rescan"} /\ verdict' = TheVerdict /\ TheVerdict' = TheVerdict
        /\ UNCHANGED <<cur, tags, listed, dig, local>>
        /\ stage' = IF stage = "scan" THEN "scanned" ELSE "settled"
    BY <1>2 DEF Scan, TheVerdict
  <2> QED BY <1>2, <2>1 DEF ScanInv, Listing
<1>3. ASSUME ScanInv, Apply PROVE ScanInv'
  <2>1. cur' \in Tag /\ TheVerdict'.has = 0
    BY <1>3, ApplySettles DEF TheVerdict, Apply
  <2>2. stage' = "rescan" /\ listed' = TRUE /\ tags' = tags
    BY <1>3 DEF Apply
  <2> QED BY <1>3, <2>1, <2>2 DEF ScanInv, Listing
<1> QED BY <1>1, <1>2, <1>3 DEF TagNext

(* applyRegistryScanGroup, whatever the registry lists and answers: what   *)
(* it suggests is listed, newer, of the same major version and flavour and *)
(* no pre-release for a release; "up to date" is never said of a versioned *)
(* tag while something newer that fits is listed and does not already run. *)
THEOREM ScansAreSound == TagSpec => []VerdictSound
<1>1. ScanInv => SuggestionSound
  <2> SUFFICES ASSUME ScanInv, verdict.suggest # NoTag, stage = "scanned"
               PROVE  /\ \E i \in DOMAIN tags : tags[i] = verdict.suggest
                      /\ Less(cur, verdict.suggest) /\ Compatible(cur, verdict.suggest)
    BY DEF SuggestionSound, Compatible
  <2>1. PICK N \in Nat : tags \in [1 .. N -> Tag]
    BY DEF ScanInv, Listing
  <2>2. verdict = TheVerdict /\ cur \in Tag /\ listed \in BOOLEAN
    BY DEF ScanInv
  <2>3. /\ Semver(cur) /\ verdict.suggest = HighestCompatible(cur, tags)
        /\ Less(cur, verdict.suggest)
    BY <2>1, <2>2, SuggestionIsHighest DEF TheVerdict
  <2>4. \E i \in 1 .. N : verdict.suggest = tags[i] /\ Compatible(cur, tags[i])
    BY <2>1, <2>2, <2>3, CompatibleMembers
  <2> QED BY <2>1, <2>3, <2>4
<1>2. ScanInv => NoFalseCurrent
  <2> SUFFICES ASSUME ScanInv, stage = "scanned", verdict.has = 0, ~Floating(cur)
               PROVE  /\ listed
                      /\ \A i \in DOMAIN tags :
                           Semver(cur) /\ Compatible(cur, tags[i]) /\ Less(cur, tags[i]) =>
                             \E j \in DOMAIN tags : Compatible(cur, tags[j]) /\ ~Less(tags[j], tags[i])
                                                    /\ dig[tags[j]] = local
    BY DEF NoFalseCurrent
  <2>1. PICK N \in Nat : tags \in [1 .. N -> Tag]
    BY DEF ScanInv, Listing
  <2>2. verdict = TheVerdict /\ cur \in Tag /\ listed \in BOOLEAN
    BY DEF ScanInv
  <2>3. DOMAIN tags = 1 .. N
    BY <2>1
  <2> QED BY <2>1, <2>2, <2>3, CurrentIsRight DEF TheVerdict
<1> QED BY ScanInit, ScanStep, <1>1, <1>2, PTL DEF TagSpec, VerdictSound

(* A scheduled update ends: the scan after an update, of the same registry *)
(* and with the update's content running, asks for nothing.                *)
THEOREM ScansSettle == TagSpec => []UpdateSettles
<1>1. ScanInv => UpdateSettles
  BY DEF ScanInv, UpdateSettles
<1> QED BY ScanInit, ScanStep, <1>1, PTL DEF TagSpec

-----------------------------------------------------------------------------
(* Compose files.                                                          *)

\* A container that starts with a version is offered nothing but versions.
VersionedRepos ==
    \A c \in Containers : Semver(StartTag(c)) => \A t \in Repo[c] : Semver(t)

\* A request names what it is about, and an upgrade a tag of the repository.
Asked(r) ==
    /\ DOMAIN r = {"by", "act", "todo", "new"}
    /\ r.act = "upgrade" => r.todo # {} /\ \A t \in r.todo : t.c \in Containers /\ r.new \in Repo[t.c]

(* An upgrade under way has its tag from the repository of its container,  *)
(* and rewrites the file only when the host has the image.                 *)
OpFields == {"pc", "by", "act", "new", "c", "old", "want", "forced", "updated", "todo"}
Operating ==
    op # NoOp =>
        /\ DOMAIN op = OpFields
        /\ op.act = "upgrade" => \A t \in op.todo : t.c \in Containers /\ op.new \in Repo[t.c]
        /\ op.act = "upgrade" /\ op.pc # "next" => op.c \in Containers /\ op.new \in Repo[op.c]
        /\ op.pc = "rewrite" => op.act = "upgrade" /\ image[op.new] # 0

Suggested(s) == s.c \in Containers /\ s.v.suggest \in Repo[s.c] \union {NoTag}
Scanned ==
    /\ scan = [a \in Askers |-> scan[a]]
    /\ \A a \in Askers :
        /\ DOMAIN scan[a] = {"pc", "seen"}
        /\ scan[a].pc \notin {"probe", "done"} => scan[a].seen = {}
        /\ scan[a].pc = "probe" => \A s \in scan[a].seen : s.c \in Containers
        /\ scan[a].pc = "done" => \A s \in scan[a].seen : Suggested(s)

Runs ==
    /\ DOMAIN run = {"pc", "todo", "now"}
    /\ \A d \in run.todo : d.c \in Containers /\ d.new \in Repo[d.c] \union {NoTag}

Files ==
    /\ file = [c \in Containers |-> file[c]] /\ image = [t \in AllTags |-> image[t]]
    /\ \A c \in Containers :
        /\ file[c] \in Repo[c] /\ image[file[c]] # 0
        /\ VersionedRepos /\ Semver(StartTag(c)) => file[c].major = StartTag(c).major

FileInv == Files /\ (\A r \in queue : Asked(r)) /\ Operating /\ Scanned /\ Runs

LEMMA RepoTags ==
  ASSUME NEW c \in Containers, NEW t \in Repo[c]
  PROVE  t \in AllTags /\ t \in Tag /\ t # NoTag
  BY ContainerConstants, NoTagIsNone DEF AllTags

\* What a repository publishes, as a listing of its tags.
LEMMA PublishedIsListing ==
  ASSUME NEW c \in Containers
  PROVE  \E n \in Nat : PublishedTags(c) \in [1 .. n -> Tag]
                        /\ \A i \in 1 .. n : PublishedTags(c)[i] \in Repo[c]
<1> DEFINE S == {t \in Repo[c] : registry[t] # 0}
           n == Cardinality(S)
<1>1. IsFiniteSet(S) /\ S \in SUBSET Repo[c] /\ S \in SUBSET Tag
  BY ContainerConstants, FS_Subset
<1>2. n \in Nat /\ ExistsBijection(1 .. n, S)
  BY <1>1, FS_CardinalityType
<1>3. PublishedTags(c) = SetToSeq(S)
  BY DEF PublishedTags
<1> HIDE DEF S, n
<1>4. \E f \in [1 .. n -> S] : IsInjective(f)
  BY <1>2 DEF ExistsBijection, Bijection, Injection
<1>5. SetToSeq(S) \in [1 .. n -> S]
  BY <1>4 DEF SetToSeq, n
<1> QED BY <1>1, <1>2, <1>3, <1>5

LEMMA SuggestedFromRepo ==
  ASSUME NEW s, s.c \in Containers, NEW l \in BOOLEAN
  PROVE  VerdictOn(s, l).suggest \in Repo[s.c] \union {NoTag}
<1> DEFINE ts == PublishedTags(s.c)
           d == registry @@ (NoTag :> 0)
<1>1. PICK n \in Nat : ts \in [1 .. n -> Tag] /\ \A i \in 1 .. n : ts[i] \in Repo[s.c]
  BY PublishedIsListing
<1>2. VerdictOn(s, l) = Verdict(s.tag, ts, l, d, s.content)
  BY DEF VerdictOn
<1> DEFINE t0 == s.tag
           loc == s.content
           v == Verdict(t0, ts, l, d, loc)
<1> HIDE DEF ts, d, t0, loc
<1>3. v.suggest = NoTag \/ \E i \in 1 .. n : v.suggest = ts[i]
  <2>1. ts \in [1 .. n -> Tag]
    BY <1>1
  <2>2. v.suggest \in {NoTag} \union {ts[i] : i \in 1 .. n}
    BY <2>1, SuggestedIsListed
  <2> HIDE DEF v
  <2> QED BY <2>2
<1>4. v.suggest \in Repo[s.c] \union {NoTag}
  <2> HIDE DEF v
  <2> QED BY <1>1, <1>3
<1> QED BY <1>2, <1>4 DEF t0, loc

LEMMA FileInit == ContainerInit => FileInv
<1> SUFFICES ASSUME ContainerInit PROVE FileInv
  OBVIOUS
<1>1. Files
  BY ContainerConstants, RepoTags DEF ContainerInit, Files
<1>2. queue = {} /\ op = NoOp /\ Operating
  BY DEF ContainerInit, Operating
<1>3. Scanned
  BY DEF ContainerInit, Scanned, NoScan
<1>4. Runs
  BY DEF ContainerInit, Runs, IdleRun
<1> QED BY <1>1, <1>2, <1>3, <1>4 DEF FileInv

\* The variables that FileInv is about.
fileInvVars == <<file, image, queue, op, scan, run>>

LEMMA FileUnchanged == ASSUME FileInv, UNCHANGED fileInvVars PROVE FileInv'
  BY DEF fileInvVars, FileInv, Files, Asked, Operating, Scanned, Suggested, Runs

\* A step of the agent with the containers only.
LEMMA OpMoves ==
  ASSUME FileInv, UNCHANGED <<file, image, scan, run>>, \A r \in queue' : Asked(r), Operating'
  PROVE  FileInv'
  BY DEF FileInv, Files, Asked, Scanned, Suggested, Runs

LEMMA LockFits == ASSUME FileInv, Lock PROVE FileInv'
<1>1. PICK q \in queue :
        /\ queue' = queue \ {q}
        /\ op' = [pc |-> "next", by |-> q.by, act |-> q.act, new |-> q.new, c |-> None,
                  old |-> 0, want |-> 0, forced |-> FALSE, updated |-> {},
                  todo |-> IF q.todo # {} THEN q.todo
                           ELSE {[c |-> c, id |-> host[c].id] :
                                    c \in {x \in Containers : host[x].state = "running"}}]
  BY DEF Lock
<1>2. Asked(q)
  BY DEF FileInv
<1>3. /\ DOMAIN op' = OpFields /\ op'.pc = "next" /\ op'.act = q.act /\ op'.new = q.new
      /\ q.todo # {} => op'.todo = q.todo
  BY <1>1 DEF OpFields
<1>4. Operating'
  BY <1>2, <1>3 DEF Operating, Asked
<1>5. \A r \in queue' : Asked(r)
  BY <1>1 DEF FileInv
<1> QED BY <1>4, <1>5, OpMoves DEF Lock, regVars

(* A step of the operation under way that keeps to its targets.            *)
LEMMA OpKeeps ==
  ASSUME FileInv, op # NoOp, UNCHANGED <<file, image, scan, run, queue>>,
         DOMAIN op' = OpFields, op'.act = op.act, op'.new = op.new, op'.todo \subseteq op.todo,
         \/ op'.pc = "next"
         \/ op'.pc # "rewrite" /\ op.pc # "next" /\ op'.c = op.c
  PROVE  FileInv'
<1>1. Operating'
  BY DEF FileInv, Operating
<1>2. \A r \in queue' : Asked(r)
  BY DEF FileInv
<1> QED BY <1>1, <1>2, OpMoves

LEMMA OpShape ==
  ASSUME FileInv, op # NoOp
  PROVE  DOMAIN op = OpFields
  BY DEF FileInv, Operating

LEMMA EndsKeeps ==
  ASSUME FileInv, op # NoOp, NEW u \in BOOLEAN
  PROVE  /\ DOMAIN Ends(u) = OpFields /\ Ends(u).pc = "next" /\ Ends(u).act = op.act
         /\ Ends(u).new = op.new /\ Ends(u).todo \subseteq op.todo
  BY OpShape DEF Ends, OpFields

LEMMA CheckedKeeps ==
  ASSUME FileInv, op # NoOp, NEW content
  PROVE  /\ DOMAIN Checked(content) = OpFields /\ Checked(content).pc \in {"ready", "compose"}
         /\ Checked(content).act = op.act /\ Checked(content).new = op.new
         /\ Checked(content).todo = op.todo /\ Checked(content).c = op.c
  BY OpShape DEF Checked, OpFields

LEMMA RefuseFits == ASSUME FileInv, Refuse PROVE FileInv'
<1>1. op # NoOp
  BY DEF Refuse, NoOp
<1>2. PICK t \in op.todo : op' = [op EXCEPT !.todo = @ \ {t}]
  BY DEF Refuse
<1>3. /\ DOMAIN op' = OpFields /\ op'.act = op.act /\ op'.new = op.new /\ op'.pc = op.pc
      /\ op'.todo \subseteq op.todo
  BY <1>1, <1>2, OpShape DEF OpFields
<1> QED BY <1>1, <1>3, OpKeeps DEF Refuse, regVars

LEMMA SimpleFits == ASSUME FileInv, Simple PROVE FileInv'
<1>1. op # NoOp
  BY DEF Simple, NoOp
<1>2. PICK t \in op.todo : op' = [op EXCEPT !.todo = @ \ {t}, !.updated = @ \union {t.c}]
  BY DEF Simple
<1>3. /\ DOMAIN op' = OpFields /\ op'.act = op.act /\ op'.new = op.new /\ op'.pc = op.pc
      /\ op'.todo \subseteq op.todo
  BY <1>1, <1>2, OpShape DEF OpFields
<1> QED BY <1>1, <1>3, OpKeeps DEF Simple

LEMMA BeginFits == ASSUME FileInv, Begin PROVE FileInv'
<1>1. op # NoOp /\ op.pc = "next"
  BY DEF Begin, NoOp
<1>2. PICK t \in op.todo :
        op' = [op EXCEPT !.pc = "pull", !.c = t.c, !.old = host[t.c].content, !.forced = op.act = "upgrade"]
  BY DEF Begin
<1>3. /\ DOMAIN op' = OpFields /\ op'.act = op.act /\ op'.new = op.new /\ op'.pc = "pull"
      /\ op'.todo = op.todo /\ op'.c = t.c
  BY <1>1, <1>2, OpShape DEF OpFields
<1>4. Operating'
  BY <1>1, <1>2, <1>3 DEF FileInv, Operating
<1>5. \A r \in queue' : Asked(r)
  BY DEF FileInv, Begin
<1> QED BY <1>4, <1>5, OpMoves DEF Begin, regVars

LEMMA ComposeFits == ASSUME FileInv, Compose \/ Recreate \/ Ready PROVE FileInv'
<1>1. op # NoOp /\ op.pc \in {"compose", "recreate", "ready"}
      /\ UNCHANGED <<file, image, scan, run, queue>>
  <2>1. op.pc \in {"compose", "recreate", "ready"} /\ UNCHANGED <<file, image, scan, run, queue>>
    BY DEF Compose, Recreate, Ready
  <2> QED BY <2>1 DEF NoOp
<1>2. \/ \E u \in BOOLEAN : op' = Ends(u)
      \/ \E content : op' = Checked(content)
      \/ op' = [op EXCEPT !.pc = "recreate"]
  BY DEF Compose, Recreate, Ready
<1>3. CASE \E u \in BOOLEAN : op' = Ends(u)
  BY <1>1, <1>3, EndsKeeps, OpKeeps
<1>4. CASE \E content : op' = Checked(content)
  BY <1>1, <1>4, CheckedKeeps, OpKeeps
<1>5. CASE op' = [op EXCEPT !.pc = "recreate"]
  <2>1. /\ DOMAIN op' = OpFields /\ op'.act = op.act /\ op'.new = op.new /\ op'.pc = "recreate"
        /\ op'.todo = op.todo /\ op'.c = op.c
    BY <1>1, <1>5, OpShape DEF OpFields
  <2> QED BY <1>1, <2>1, OpKeeps
<1> QED BY <1>2, <1>3, <1>4, <1>5

LEMMA AnswerFits == ASSUME FileInv, Answer PROVE FileInv'
<1>1. Operating'
  BY DEF Answer, Operating
<1>2. \A r \in queue' : Asked(r)
  BY DEF FileInv, Answer
<1> QED BY <1>1, <1>2, OpMoves DEF Answer, regVars

LEMMA PullFits == ASSUME FileInv, Pull PROVE FileInv'
<1>1. op.pc = "pull" /\ op # NoOp /\ UNCHANGED <<file, queue, scan, run>>
  BY DEF Pull, NoOp
<1>2. CASE op' = Ends(FALSE) /\ image' = image
  BY <1>1, <1>2, EndsKeeps, OpKeeps
<1>3. CASE /\ registry[Pulled] # 0 /\ image' = [image EXCEPT ![Pulled] = registry[Pulled]]
           /\ op' = [op EXCEPT !.pc = IF op.act = "upgrade" THEN "rewrite" ELSE "compose",
                               !.want = registry[Pulled]]
  <2> DEFINE got == registry[Pulled]
             what == Pulled
  <2>1. /\ DOMAIN op' = OpFields /\ op'.act = op.act /\ op'.new = op.new /\ op'.todo = op.todo
        /\ op'.c = op.c /\ op'.pc = IF op.act = "upgrade" THEN "rewrite" ELSE "compose"
    BY <1>1, <1>3, OpShape DEF OpFields
  <2>2. got # 0 /\ image' = [image EXCEPT ![what] = got]
        /\ (op.act = "upgrade" => what = op.new)
    BY <1>3 DEF Pulled
  <2>3. image = [t \in AllTags |-> image[t]]
    BY DEF FileInv, Files
  <2> HIDE DEF got, what
  <2>4. /\ image' = [t \in AllTags |-> image'[t]]
        /\ \A t \in AllTags : image[t] # 0 \/ t = what => image'[t] # 0
    BY <2>2, <2>3
  <2>5. Files'
    <3>1. \A c \in Containers : file[c] \in AllTags
      BY RepoTags DEF FileInv, Files
    <3> QED BY <1>1, <2>4, <3>1 DEF FileInv, Files
  <2>6. op.act = "upgrade" => op.c \in Containers /\ op.new \in Repo[op.c] /\ op.new \in AllTags
    BY <1>1, RepoTags DEF FileInv, Operating
  <2>7. op'.pc = "rewrite" => op'.act = "upgrade" /\ image'[op'.new] # 0
    BY <2>1, <2>2, <2>4, <2>6
  <2>8. Operating'
    BY <1>1, <2>1, <2>6, <2>7 DEF FileInv, Operating
  <2> QED BY <1>1, <2>5, <2>8 DEF FileInv, Asked, Scanned, Suggested, Runs
<1> QED BY <1>2, <1>3 DEF Pull

LEMMA RewriteFits == ASSUME FileInv, Rewrite PROVE FileInv'
<1>1. op.pc = "rewrite" /\ op # NoOp /\ UNCHANGED <<image, queue, scan, run>>
  BY DEF Rewrite, NoOp
<1>2. op.act = "upgrade" /\ op.c \in Containers /\ op.new \in Repo[op.c] /\ image[op.new] # 0
  BY <1>1 DEF FileInv, Operating
<1>3. CASE Semver(file[op.c]) /\ Semver(op.new) /\ file[op.c].major # op.new.major
  BY <1>1, <1>3, EndsKeeps, OpKeeps DEF Rewrite
<1>4. CASE ~(Semver(file[op.c]) /\ Semver(op.new) /\ file[op.c].major # op.new.major)
  <2>1. file' = [file EXCEPT ![op.c] = op.new] /\ op' = [op EXCEPT !.pc = "compose"]
    BY <1>4 DEF Rewrite
  <2>2. /\ DOMAIN op' = OpFields /\ op'.act = op.act /\ op'.new = op.new /\ op'.todo = op.todo
        /\ op'.c = op.c /\ op'.pc = "compose"
    BY <1>1, <2>1, OpShape DEF OpFields
  <2> DEFINE k == op.c
             new == op.new
  <2>3. k \in Containers /\ new \in Repo[k] /\ image[new] # 0
    BY <1>2
  <2>4. VersionedRepos /\ Semver(StartTag(k)) => new.major = StartTag(k).major
    BY <1>2, <1>4 DEF VersionedRepos, FileInv, Files
  <2>5. file = [c \in Containers |-> file[c]] /\ file' = [file EXCEPT ![k] = new]
    BY <2>1 DEF FileInv, Files
  <2> HIDE DEF k, new
  <2>6. /\ file' = [c \in Containers |-> file'[c]] /\ file'[k] = new
        /\ \A c \in Containers : c # k => file'[c] = file[c]
    BY <2>3, <2>5
  <2>7. Files'
    BY <1>1, <2>3, <2>4, <2>6 DEF FileInv, Files
  <2>8. Operating'
    BY <1>1, <1>2, <2>2 DEF FileInv, Operating
  <2> QED BY <1>1, <2>7, <2>8 DEF FileInv, Asked, Scanned, Suggested, Runs
<1> QED BY <1>3, <1>4

(* Scans and runs; what is lost with a connection or a process.            *)
LEMMA ScanMoves ==
  ASSUME FileInv, UNCHANGED <<file, image, queue, op>>, Scanned', Runs'
  PROVE  FileInv'
  BY DEF FileInv, Files, Asked, Operating

LEMMA AskedByNobody ==
  ASSUME NEW q, Asked(q)
  PROVE  Asked([q EXCEPT !.by = Nobody])
<1> DEFINE r == [q EXCEPT !.by = Nobody]
<1>1. DOMAIN q = {"by", "act", "todo", "new"}
  BY DEF Asked
<1>2. DOMAIN r = {"by", "act", "todo", "new"} /\ r.act = q.act /\ r.todo = q.todo /\ r.new = q.new
  BY <1>1
<1> HIDE DEF r
<1>3. Asked(r)
  BY <1>2 DEF Asked
<1> QED BY <1>3 DEF r

LEMMA AskerForgotten ==
  ASSUME FileInv, NEW a, ForgetAsker(a), image' = image
  PROVE  (\A r \in queue' : Asked(r)) /\ Operating'
<1>1. ASSUME NEW r \in queue' PROVE Asked(r)
  <2>1. PICK q \in queue : r = IF q.by = a THEN [q EXCEPT !.by = Nobody] ELSE q
    BY DEF ForgetAsker
  <2>2. Asked(q)
    BY DEF FileInv
  <2>3. Asked([q EXCEPT !.by = Nobody])
    BY <2>2, AskedByNobody
  <2>4. r = q \/ r = [q EXCEPT !.by = Nobody]
    BY <2>1
  <2> QED BY <2>2, <2>3, <2>4, Zenon
<1>2. ASSUME op' = op PROVE Operating'
  BY <1>2 DEF FileInv, Operating
<1>3. ASSUME op # NoOp, op' = [op EXCEPT !.by = Nobody] PROVE Operating'
  <2>1. /\ DOMAIN op' = OpFields /\ op'.act = op.act /\ op'.new = op.new /\ op'.todo = op.todo
        /\ op'.c = op.c /\ op'.pc = op.pc
    BY <1>3, OpShape DEF OpFields
  <2>2. Operating /\ op # NoOp
    BY <1>3 DEF FileInv
  <2> QED BY ONLY <2>1, <2>2, image' = image DEF Operating
<1>4. \/ op' = op
      \/ op # NoOp /\ op' = [op EXCEPT !.by = Nobody]
  BY DEF ForgetAsker
<1>5. Operating'
  BY <1>2, <1>3, <1>4
<1> QED BY <1>1, <1>5

LEMMA EndsOfWaits ==
  ASSUME FileInv, AgentRestarts \/ MasterRestarts \/ \E a \in Askers : StopsWaiting(a)
  PROVE  FileInv'
<1>1. CASE AgentRestarts
  <2>1. Scanned'
    BY <1>1 DEF AgentRestarts, Scanned, LostScan, NoScan
  <2> QED BY <1>1, <2>1 DEF AgentRestarts, regVars, FileInv, Files, Operating, Runs
<1>2. CASE MasterRestarts
  <2>1. Scanned'
    BY <1>2 DEF MasterRestarts, FileInv, Scanned, NoScan, Suggested
  <2>2. Runs'
    BY <1>2 DEF MasterRestarts, Runs, IdleRun
  <2>3. (\A r \in queue' : Asked(r)) /\ Operating'
    BY <1>2, AskerForgotten DEF MasterRestarts, regVars
  <2> QED BY <1>2, <2>1, <2>2, <2>3 DEF MasterRestarts, regVars, FileInv, Files, Asked
<1>3. ASSUME NEW a \in Askers, StopsWaiting(a) PROVE FileInv'
  <2>1. (\A r \in queue' : Asked(r)) /\ Operating'
    BY <1>3, AskerForgotten DEF StopsWaiting, regVars
  <2> QED BY <1>3, <2>1, OpMoves DEF StopsWaiting, regVars
<1> QED BY <1>1, <1>2, <1>3

LEMMA ScanFits ==
  ASSUME FileInv, NEW a \in Askers, AskScan(a) \/ ScanList(a) \/ ScanProbe(a) \/ ScanStore(a)
  PROVE  FileInv'
<1>1. UNCHANGED <<file, image, queue, op>>
  BY DEF AskScan, ScanList, ScanProbe, ScanStore, regVars
<1>2. Runs /\ Scanned /\ scan = [b \in Askers |-> scan[b]] /\ DOMAIN scan[a] = {"pc", "seen"}
  BY DEF FileInv, Scanned
\* The scan of one asker becomes s.
<1>3. ASSUME NEW s, scan' = [scan EXCEPT ![a] = s], DOMAIN s = {"pc", "seen"},
             s.pc \notin {"probe", "done"} => s.seen = {},
             s.pc = "probe" => \A x \in s.seen : x.c \in Containers,
             s.pc = "done" => \A x \in s.seen : Suggested(x)
      PROVE  Scanned'
  <2>1. scan'[a] = s /\ \A b \in Askers \ {a} : scan'[b] = scan[b]
    BY <1>2, <1>3
  <2>2. scan' = [b \in Askers |-> scan'[b]]
    BY <1>2, <1>3
  <2> QED BY <1>2, <1>3, <2>1, <2>2 DEF Scanned, Suggested
<1>4. CASE AskScan(a)
  <2> DEFINE s == [NoScan EXCEPT !.pc = "sent"]
  <2>1. scan' = [scan EXCEPT ![a] = s] /\ DOMAIN s = {"pc", "seen"} /\ s.pc = "sent" /\ s.seen = {}
    BY <1>4 DEF AskScan, NoScan
  <2> HIDE DEF s
  <2>2. Scanned'
    BY <1>3, <2>1
  <2>3. Runs'
    BY <1>2, <1>4 DEF AskScan, Runs
  <2> QED BY <1>1, <2>2, <2>3, ScanMoves
<1>5. CASE ScanList(a)
  <2> DEFINE seen == {[c |-> c, tag |-> host[c].tag, content |-> host[c].content, state |-> host[c].state] :
                        c \in {x \in Containers : Listed(x)}}
             s == [scan[a] EXCEPT !.pc = "probe", !.seen = seen]
  <2>1. scan' = [scan EXCEPT ![a] = s] /\ run' = run
    BY <1>5 DEF ScanList
  <2>2. \A x \in seen : x.c \in Containers
    OBVIOUS
  <2> HIDE DEF seen
  <2>3. DOMAIN s = {"pc", "seen"} /\ s.pc = "probe" /\ s.seen = seen
    BY <1>2
  <2> HIDE DEF s
  <2>4. Scanned'
    BY <1>3, <2>1, <2>2, <2>3
  <2> QED BY <1>1, <1>2, <2>1, <2>4, ScanMoves DEF Runs
<1>6. CASE ScanProbe(a)
  <2>1. scan[a].pc = "probe" /\ run' = run /\ \A x \in scan[a].seen : x.c \in Containers
    BY <1>2, <1>6 DEF ScanProbe, Scanned
  <2>2. CASE scan' = [scan EXCEPT ![a] = LostScan(a)]
    <3> DEFINE s == LostScan(a)
    <3>1. DOMAIN s = {"pc", "seen"} /\ s.pc = "failed" /\ s.seen = {}
      BY <2>1 DEF LostScan, NoScan
    <3> HIDE DEF s
    <3>2. Scanned'
      BY <1>3, <2>2, <3>1 DEF s
    <3> QED BY <1>1, <1>2, <2>1, <3>2, ScanMoves DEF Runs
  <2>3. ASSUME NEW l \in BOOLEAN,
               scan' = [scan EXCEPT ![a] = [scan[a] EXCEPT !.pc = "done",
                            !.seen = {[c |-> s.c, v |-> VerdictOn(s, l),
                                       run |-> Candidate(VerdictOn(s, l), s.tag, s.state = "running")]
                                        : s \in scan[a].seen}]]
        PROVE  FileInv'
    <3> DEFINE seen == {[c |-> s.c, v |-> VerdictOn(s, l),
                         run |-> Candidate(VerdictOn(s, l), s.tag, s.state = "running")] : s \in scan[a].seen}
               z == [scan[a] EXCEPT !.pc = "done", !.seen = seen]
    <3>1. scan' = [scan EXCEPT ![a] = z]
      BY <2>3
    <3>2. ASSUME NEW x \in seen PROVE Suggested(x)
      <4>1. PICK s \in scan[a].seen : x.c = s.c /\ x.v = VerdictOn(s, l)
        OBVIOUS
      <4>2. s.c \in Containers
        BY <2>1
      <4>3. VerdictOn(s, l).suggest \in Repo[s.c] \union {NoTag}
        BY <4>2, SuggestedFromRepo
      <4> QED BY <4>1, <4>2, <4>3 DEF Suggested
    <3> HIDE DEF seen
    <3>3. DOMAIN z = {"pc", "seen"} /\ z.pc = "done" /\ z.seen = seen
      BY <1>2
    <3> HIDE DEF z
    <3>4. Scanned'
      BY <1>3, <3>1, <3>2, <3>3
    <3> QED BY <1>1, <1>2, <2>1, <3>4, ScanMoves DEF Runs
  <2>4. \/ scan' = [scan EXCEPT ![a] = LostScan(a)]
        \/ \E l \in BOOLEAN :
              scan' = [scan EXCEPT ![a] = [scan[a] EXCEPT !.pc = "done",
                            !.seen = {[c |-> s.c, v |-> VerdictOn(s, l),
                                       run |-> Candidate(VerdictOn(s, l), s.tag, s.state = "running")]
                                        : s \in scan[a].seen}]]
    BY <1>6 DEF ScanProbe
  <2> QED BY <2>2, <2>3, <2>4
<1>7. CASE ScanStore(a)
  <2>1. scan' = [scan EXCEPT ![a] = NoScan] /\ scan[a].pc \in {"done", "failed"}
    BY <1>7 DEF ScanStore
  <2>2. DOMAIN NoScan = {"pc", "seen"} /\ NoScan.pc = "idle" /\ NoScan.seen = {}
    BY DEF NoScan
  <2>3. Scanned'
    BY <1>3, <2>1, <2>2
  <2>4. \A s \in scan[a].seen : Suggested(s)
    BY <1>2, <2>1 DEF Scanned
  <2> DEFINE todo == {[c |-> s.c, id |-> inv[s.c].id, new |-> s.v.suggest] :
                        s \in {x \in scan[a].seen : x.run /\ inv[x.c].state # "gone"}}
  <2>5. \A d \in todo : d.c \in Containers /\ d.new \in Repo[d.c] \union {NoTag}
    BY <2>4 DEF Suggested
  <2>6. \/ run' = run \/ run' = IdleRun
        \/ run' = [pc |-> "act", now |-> {}, todo |-> todo]
    BY <1>7 DEF ScanStore
  <2> HIDE DEF todo
  <2>7. Runs'
    BY <1>2, <2>5, <2>6 DEF Runs, IdleRun
  <2> QED BY <1>1, <2>3, <2>7, ScanMoves
<1> QED BY <1>4, <1>5, <1>6, <1>7

LEMMA RequestFields ==
  ASSUME NEW a, NEW act, NEW ts, NEW new,
         act = "upgrade" => \E c \in Containers : new \in Repo[c] /\ ts # {} /\ \A t \in ts : t.c = c
  PROVE  Asked(Request(a, act, ts, new))
<1> DEFINE r == Request(a, act, ts, new)
<1>1. DOMAIN r = {"by", "act", "todo", "new"} /\ r.act = act /\ r.todo = ts /\ r.new = new
  BY DEF Request
<1> HIDE DEF r
<1>2. Asked(r)
  BY <1>1 DEF Asked
<1> QED BY <1>2 DEF r

LEMMA RunFits ==
  ASSUME FileInv, RunAsks \/ RunTakes \/ RunEnds
  PROVE  FileInv'
<1>1. UNCHANGED <<file, image, op, scan>> /\ Runs
  BY DEF RunAsks, RunTakes, RunEnds, regVars, FileInv
<1>2. CASE RunTakes \/ RunEnds
  <2>1. Runs'
    BY <1>1, <1>2 DEF RunTakes, RunEnds, Runs, IdleRun
  <2>2. queue' = queue
    BY <1>2 DEF RunTakes, RunEnds
  <2> QED BY <1>1, <2>1, <2>2 DEF FileInv, Files, Asked, Operating, Scanned, Suggested
<1>3. CASE RunAsks
  <2> DEFINE bumps == {d \in run.todo : d.new # NoTag}
  <2>1. PICK now \in (IF bumps # {} THEN {{d} : d \in bumps} ELSE {run.todo}) :
          /\ run' = [run EXCEPT !.now = now, !.todo = @ \ now]
          /\ queue' = queue \union
               {IF bumps # {} THEN Request(ByRun, "upgrade", Targets(now), (CHOOSE d \in now : TRUE).new)
                ELSE Request(ByRun, "update", Targets(now), NoTag)}
    BY <1>3 DEF RunAsks
  <2>2. Runs'
    BY <1>1, <2>1 DEF Runs
  <2>3. CASE bumps # {}
    <3>1. PICK d \in bumps : now = {d}
      BY <2>1, <2>3
    <3>2. d.c \in Containers /\ d.new \in Repo[d.c]
      BY <1>1 DEF Runs
    <3>3. (CHOOSE e \in now : TRUE) = d
      BY <3>1
    <3>4. Targets(now) = {[c |-> d.c, id |-> d.id]}
      BY <3>1 DEF Targets
    <3> DEFINE ts == Targets(now)
               new == d.new
               k == d.c
    <3> HIDE DEF bumps, ts, new, k
    <3>8. k \in Containers /\ new \in Repo[k] /\ ts # {} /\ \A t \in ts : t.c = k
      BY <3>2, <3>4 DEF ts, new, k
    <3>9. Asked(Request(ByRun, "upgrade", ts, new))
      BY <3>8, RequestFields
    <3>5. Asked(Request(ByRun, "upgrade", Targets(now), d.new))
      BY <3>9 DEF ts, new
    <3>6. queue' = queue \union {Request(ByRun, "upgrade", Targets(now), d.new)}
      BY <2>1, <2>3, <3>3
    <3>7. \A r \in queue' : Asked(r)
      BY <3>5, <3>6 DEF FileInv
    <3> QED BY <1>1, <2>2, <3>7 DEF FileInv, Files, Asked, Operating, Scanned, Suggested
  <2>4. CASE bumps = {}
    <3>1. Asked(Request(ByRun, "update", Targets(now), NoTag))
      BY RequestFields
    <3>2. \A r \in queue' : Asked(r)
      BY <2>1, <2>4, <3>1 DEF FileInv
    <3> QED BY <1>1, <2>2, <3>2 DEF FileInv, Files, Asked, Operating, Scanned, Suggested
  <2> QED BY <2>3, <2>4
<1> QED BY <1>2, <1>3

LEMMA AdminFits == ASSUME FileInv, AdminAsks PROVE FileInv'
<1>1. PICK act \in AdminActions, c \in Containers, all \in BOOLEAN :
        LET named == IF all THEN {} ELSE {[c |-> c, id |-> inv[c].id]} IN
        /\ all => act = "update"
        /\ \E new \in IF act = "upgrade" THEN {t \in Repo[c] : registry[t] # 0} ELSE {NoTag} :
             queue' = queue \union {Request(ByAdmin, act, named, new)}
  BY DEF AdminAsks
<1> DEFINE named == IF all THEN {} ELSE {[c |-> c, id |-> inv[c].id]}
<1>2. PICK new \in (IF act = "upgrade" THEN {t \in Repo[c] : registry[t] # 0} ELSE {NoTag}) :
        queue' = queue \union {Request(ByAdmin, act, named, new)}
  BY <1>1
<1>3. act = "upgrade" => named = {[c |-> c, id |-> inv[c].id]} /\ new \in Repo[c]
  BY <1>1, <1>2
<1>4. Asked(Request(ByAdmin, act, named, new))
  <2>1. act = "upgrade" => new \in Repo[c] /\ named # {} /\ \A t \in named : t.c = c
    <3> DEFINE one == {[c |-> c, id |-> inv[c].id]}
    <3>1. one # {} /\ \A t \in one : t.c = c
      OBVIOUS
    <3>2. act = "upgrade" => named = one /\ new \in Repo[c]
      BY <1>3
    <3> HIDE DEF one, named
    <3> QED BY <3>1, <3>2
  <2> HIDE DEF named
  <2> QED BY <2>1, RequestFields
<1>5. \A r \in queue' : Asked(r)
  BY <1>2, <1>4 DEF FileInv
<1>6. Operating'
  BY DEF AdminAsks, regVars, FileInv, Operating
<1> QED BY <1>5, <1>6, OpMoves DEF AdminAsks, regVars

LEMMA FileStep ==
  ASSUME FileInv, [ContainerNext]_cVars
  PROVE  FileInv'
<1>1. CASE UNCHANGED cVars \/ Publish \/ Report \/ AdminTakes
  <2>1. UNCHANGED fileInvVars
    BY <1>1 DEF cVars, Publish, Report, AdminTakes, regVars, fileInvVars
  <2> QED BY <2>1, FileUnchanged
<1>2. CASE AgentSteps
  BY <1>2, LockFits, RefuseFits, SimpleFits, BeginFits, PullFits, RewriteFits, ComposeFits, AnswerFits
     DEF AgentSteps
<1> QED BY <1>1, <1>2, EndsOfWaits, ScanFits, RunFits, AdminFits DEF ContainerNext

LEMMA FileInvariant == ContainerSpec => []FileInv
  BY FileInit, FileStep, PTL DEF ContainerSpec

(* handleContainerOp, updateOne, upgradeAction and rewriteComposeImage:    *)
(* whatever fails, is lost, dies or is asked for meanwhile, a Compose file *)
(* names an image that the host has.                                       *)
THEOREM FilesNameImages ==
  ContainerSpec => [](\A c \in Containers : image[file[c]] # 0)
<1>1. FileInv => \A c \in Containers : image[file[c]] # 0
  BY DEF FileInv, Files
<1> QED BY FileInvariant, <1>1, PTL

(* And one of its first major version, if the tags of its repository are   *)
(* versions.  (An administrator may upgrade to a floating tag, which has   *)
(* no major version.)                                                      *)
THEOREM FilesAreRunnable ==
  ASSUME VersionedRepos
  PROVE  ContainerSpec => []FileIsRunnable
<1>1. FileInv => FileIsRunnable
  BY DEF FileInv, Files, FileIsRunnable
<1> QED BY FileInvariant, <1>1, PTL
=============================================================================
