----------------------- MODULE FederationAnswersProofs -----------------------
(***************************************************************************)
(* Proofs about the federation for any worlds, peers and repositories:     *)
(* what is aggregated does not depend on the order of the peers, groups    *)
(* are sound, instances can be selected, and a projection fails for the    *)
(* reasons that a user can name only. The views of a repository that one   *)
(* machine gives agree, and the page of a Host links what needs attention. *)
(***************************************************************************)
EXTENDS ReadAnswersProofs

-----------------------------------------------------------------------------
(***************************************************************************)
(* Which snapshots an aggregate keeps.                                     *)
(***************************************************************************)

\* Induction, for a set that holds what is to be shown of every number.
LEMMA EveryNumber ==
    ASSUME NEW S, 0 \in S, \A m \in Nat \ {0} : m - 1 \in S => m \in S
    PROVE  \A m \in Nat : m \in S
<1> DEFINE missing == Nat \ S
<1> SUFFICES ASSUME missing # {} PROVE FALSE
  OBVIOUS
<1>1. Min(missing) \in missing /\ \A m \in missing : Min(missing) <= m
  BY MinNat
<1> DEFINE m == Min(missing)
<1> HIDE DEF m
<1>2. m \in Nat /\ m \notin S /\ m # 0 /\ m - 1 \in Nat /\ m - 1 \notin missing
  BY <1>1 DEF m
<1> QED
  BY <1>2

-----------------------------------------------------------------------------
LEMMA KeptExists ==
    ASSUME NEW s, Len(s) \in Nat
    PROVE  \E kept : /\ kept = [n \in 0..Len(s) |->
                                  IF n = 0 THEN Ok({}) ELSE KeepNewest(kept[n - 1], s[n])]
                     /\ CurrentSnapshots(s) = kept[Len(s)]
<1> DEFINE Upto(f, m) == [n \in 0..m |-> IF n = 0 THEN Ok({}) ELSE KeepNewest(f[n - 1], s[n])]
           Long(m) == \E f : f = Upto(f, m)
           long == {m \in Nat : Long(m)}
<1>1. Long(0)
  <2> DEFINE f == [n \in 0..0 |-> Ok({})]
  <2>1. f = Upto(f, 0)
    OBVIOUS
  <2> QED
    BY <2>1
<1>2. ASSUME NEW m \in Nat, m # 0, Long(m - 1) PROVE Long(m)
  <2>1. PICK f : f = Upto(f, m - 1)
    BY <1>2
  <2> DEFINE g == Upto(f, m)
  <2>2. ASSUME NEW n \in 0..m, n # 0 PROVE g[n - 1] = f[n - 1]
    BY <2>1, <2>2
  <2>3. g = Upto(g, m)
    BY <2>2
  <2> QED
    BY <2>3
<1> HIDE DEF Long
<1>3. 0 \in long /\ \A m \in Nat \ {0} : m - 1 \in long => m \in long
  BY <1>1, <1>2
<1> HIDE DEF long
<1>4. \A m \in Nat : m \in long
  BY <1>3, EveryNumber
<1>5. \E f : f = Upto(f, Len(s))
  BY <1>4 DEF Long, long
<1> DEFINE kept == CHOOSE f : f = Upto(f, Len(s))
<1>6. kept = Upto(kept, Len(s))
  BY <1>5
<1>7. CurrentSnapshots(s) = kept[Len(s)]
  BY DEF CurrentSnapshots
<1> HIDE DEF kept
<1> QED
  BY <1>6, <1>7

\* The snapshots kept are the newest of their Hosts, one of each.
KeptFrom(kept, seen) ==
    /\ kept \subseteq seen
    /\ \A x, y \in kept : x.hostID = y.hostID => x = y
    /\ \A y \in seen : \E x \in kept : x.hostID = y.hostID /\ y.observed <= x.observed
    /\ \A x \in kept, y \in seen : x.hostID = y.hostID /\ x.observed = y.observed => x = y

\* No two snapshots of one Host and time are different.
NoConflict(seen) ==
    \A x, y \in seen : x.hostID = y.hostID /\ x.observed = y.observed => x = y

LEMMA OneMoreKept ==
    ASSUME NEW current, NEW seen, NEW s, \A x \in seen \union {s} : x.observed \in Nat,
           current.ok => KeptFrom(current.val, seen)
    PROVE  LET next == KeepNewest(current, s)
           IN  /\ next.ok => /\ current.ok /\ ValidSnapshot(s)
                             /\ KeptFrom(next.val, seen \union {s})
               /\ current.ok /\ ValidSnapshot(s) /\ NoConflict(seen \union {s}) => next.ok
<1> DEFINE kept == current.val
           same == {x \in kept : x.hostID = s.hostID}
           newer == \A x \in same : s.observed > x.observed
           clash == \E x \in same : x.observed = s.observed /\ x # s
           all == seen \union {s}
           next == KeepNewest(current, s)
<1>1. CASE ~current.ok \/ ~ValidSnapshot(s)
  <2>1. next = Error
    BY <1>1 DEF KeepNewest
  <2> QED
    BY <1>1, <2>1 DEF Error
<1>2. CASE current.ok /\ ValidSnapshot(s)
  <2> DEFINE renewed == (kept \ same) \union {s}
  <2>0. next = IF newer THEN Ok(renewed) ELSE IF clash THEN Error ELSE current
    BY <1>2, Zenon DEF KeepNewest
  <2>1. /\ kept \subseteq seen
        /\ \A x, y \in kept : x.hostID = y.hostID => x = y
        /\ \A y \in seen : \E x \in kept : x.hostID = y.hostID /\ y.observed <= x.observed
        /\ \A x \in kept, y \in seen :
              x.hostID = y.hostID /\ x.observed = y.observed => x = y
    BY <1>2 DEF KeptFrom
  <2>2. CASE newer
    <3>1. next = Ok(renewed)
      BY <2>0, <2>2
    <3>2. next.ok /\ next.val = renewed
      BY <3>1 DEF Ok
    <3>3. renewed \subseteq all
      BY <2>1
    <3>4. \A x, y \in renewed : x.hostID = y.hostID => x = y
      BY <2>1
    <3>5. ASSUME NEW y \in all
          PROVE  \E x \in renewed : x.hostID = y.hostID /\ y.observed <= x.observed
      <4>1. CASE y = s
        BY <4>1
      <4>2. CASE y # s
        <5>1. PICK x \in kept : x.hostID = y.hostID /\ y.observed <= x.observed
          BY <2>1, <4>2
        <5>2. CASE x \in same
          <6>1. s.observed > x.observed
            BY <2>2, <5>2
          <6>2. s.observed \in Nat /\ x.observed \in Nat /\ y.observed \in Nat
            BY <2>1
          <6>3. s.hostID = y.hostID /\ y.observed <= s.observed
            BY <5>1, <5>2, <6>1, <6>2
          <6> QED
            BY <6>3
        <5>3. CASE x \notin same
          BY <5>1, <5>3
        <5> QED
          BY <5>2, <5>3
      <4> QED
        BY <4>1, <4>2
    <3>6. ASSUME NEW x \in renewed, NEW y \in all, x.hostID = y.hostID, x.observed = y.observed
          PROVE  x = y
      <4>1. CASE x \in kept \ same
        BY <2>1, <3>6, <4>1
      <4>2. CASE x = s
        <5>1. CASE y # s
          <6>1. PICK z \in kept : z.hostID = y.hostID /\ y.observed <= z.observed
            BY <2>1, <5>1
          <6>2. z \in same
            BY <3>6, <4>2, <6>1
          <6>3. s.observed > z.observed
            BY <2>2, <6>2
          <6>4. s.observed \in Nat /\ z.observed \in Nat /\ y.observed \in Nat
            BY <2>1
          <6> QED
            BY <3>6, <4>2, <6>1, <6>3, <6>4
        <5> QED
          BY <4>2, <5>1
      <4> QED
        BY <4>1, <4>2
    <3>7. KeptFrom(renewed, all)
      BY <3>3, <3>4, <3>5, <3>6 DEF KeptFrom
    <3> QED
      BY <1>2, <3>2, <3>7
  <2>3. CASE ~newer /\ clash
    <3>1. next = Error
      BY <2>0, <2>3
    <3>2. PICK x \in kept : x.hostID = s.hostID /\ x.observed = s.observed /\ x # s
      BY <2>3
    <3>3. ~NoConflict(all)
      BY <2>1, <3>2 DEF NoConflict
    <3> QED
      BY <3>1, <3>3 DEF Error
  <2>4. CASE ~newer /\ ~clash
    <3>1. next = current
      BY <2>0, <2>4
    <3>2. PICK z \in kept : z.hostID = s.hostID /\ ~(s.observed > z.observed)
      BY <2>4
    <3>3. s.observed \in Nat /\ z.observed \in Nat
      BY <2>1
    <3>4. s.observed <= z.observed
      BY <3>2, <3>3
    <3>5. kept \subseteq all
      BY <2>1
    <3>6. \A y \in all : \E x \in kept : x.hostID = y.hostID /\ y.observed <= x.observed
      BY <2>1, <3>2, <3>4
    <3>7. \A x \in kept, y \in all : x.hostID = y.hostID /\ x.observed = y.observed => x = y
      BY <2>1, <2>4
    <3>8. KeptFrom(kept, all)
      BY <2>1, <3>5, <3>6, <3>7 DEF KeptFrom
    <3> QED
      BY <1>2, <3>1, <3>8
  <2> QED
    BY <2>2, <2>3, <2>4
<1> QED
  BY <1>1, <1>2

\* What CurrentSnapshots keeps, and when it keeps anything.
LEMMA CurrentAre ==
    ASSUME NEW S, NEW snapshots \in Seq(S), \A s \in S : s.observed \in Nat
    PROVE  LET current == CurrentSnapshots(snapshots)
           IN  /\ current.ok => /\ KeptFrom(current.val, ToSet(snapshots))
                                /\ \A s \in ToSet(snapshots) : ValidSnapshot(s)
               /\ (\A s \in ToSet(snapshots) : ValidSnapshot(s)) /\ NoConflict(ToSet(snapshots))
                  => current.ok
<1> DEFINE N == Len(snapshots)
           First(n) == {snapshots[i] : i \in 1..n}
           Fine(n) == (\A s \in First(n) : ValidSnapshot(s)) /\ NoConflict(First(n))
<1>1. /\ N \in Nat /\ ToSet(snapshots) = First(N)
      /\ \A i \in 1..N : snapshots[i] \in S /\ snapshots[i].observed \in Nat
  <2>1. DOMAIN snapshots = 1..N /\ N \in Nat
    OBVIOUS
  <2> QED
    BY <2>1 DEF ToSet
<1>2. PICK kept : /\ kept = [n \in 0..N |->
                               IF n = 0 THEN Ok({}) ELSE KeepNewest(kept[n - 1], snapshots[n])]
                  /\ CurrentSnapshots(snapshots) = kept[N]
  BY <1>1, KeptExists
<1> HIDE DEF N
<1> DEFINE Good(n) == /\ kept[n].ok => /\ KeptFrom(kept[n].val, First(n))
                                       /\ \A s \in First(n) : ValidSnapshot(s)
                      /\ Fine(n) => kept[n].ok
           good == {n \in Nat : n \in 0..N => Good(n)}
<1>3. Good(0)
  <2>1. kept[0] = Ok({}) /\ First(0) = {}
    BY <1>1, <1>2
  <2>2. kept[0].ok /\ kept[0].val = {}
    BY <2>1 DEF Ok
  <2> QED
    BY <2>1, <2>2 DEF KeptFrom
<1>4. ASSUME NEW n \in Nat \ {0}, n \in 0..N, Good(n - 1) PROVE Good(n)
  <2> DEFINE s == snapshots[n]
             seen == First(n - 1)
             current == kept[n - 1]
  <2>1. kept[n] = KeepNewest(current, s) /\ First(n) = seen \union {s}
    <3>1. kept[n] = KeepNewest(current, s)
      BY <1>2, <1>4
    <3>2. \A i \in 1..n : i \in 1..n - 1 \/ i = n
      OBVIOUS
    <3>3. \A i \in 1..n - 1 : i \in 1..n
      OBVIOUS
    <3> QED
      BY <3>1, <3>2, <3>3
  <2>2. \A x \in seen \union {s} : x.observed \in Nat
    BY <1>1, <1>4
  <2>3. /\ current.ok => KeptFrom(current.val, seen) /\ \A x \in seen : ValidSnapshot(x)
        /\ Fine(n - 1) => current.ok
    BY <1>4
  <2>4. First(n) = seen \union {s}
    BY <2>1
  <2>5. Fine(n) => Fine(n - 1) /\ ValidSnapshot(s) /\ NoConflict(seen \union {s})
    BY <2>4 DEF NoConflict
  <2> HIDE DEF Fine, seen, current, s
  <2>6. /\ kept[n].ok => current.ok /\ ValidSnapshot(s) /\ KeptFrom(kept[n].val, seen \union {s})
        /\ current.ok /\ ValidSnapshot(s) /\ NoConflict(seen \union {s}) => kept[n].ok
    BY <2>1, <2>2, <2>3, OneMoreKept
  <2> QED
    BY <2>3, <2>4, <2>5, <2>6
<1> HIDE DEF Good
<1>5. 0 \in good /\ \A n \in Nat \ {0} : n - 1 \in good => n \in good
  BY <1>1, <1>3, <1>4
<1> HIDE DEF good
<1>6. \A n \in Nat : n \in good
  BY <1>5, EveryNumber
<1>7. Good(N)
  BY <1>1, <1>6 DEF good
<1> QED
  BY <1>1, <1>2, <1>7 DEF Good

\* What is kept are the newest, and no two of those differ.
LEMMA NewestKept ==
    ASSUME NEW seen, \A x \in seen : x.observed \in Nat, NEW kept, KeptFrom(kept, seen)
    PROVE  kept = NewestOf(seen) /\ ~Conflicting(NewestOf(seen))
<1>1. /\ kept \subseteq seen
      /\ \A x, y \in kept : x.hostID = y.hostID => x = y
      /\ \A y \in seen : \E x \in kept : x.hostID = y.hostID /\ y.observed <= x.observed
      /\ \A x \in kept, y \in seen : x.hostID = y.hostID /\ x.observed = y.observed => x = y
  BY DEF KeptFrom
<1>2. ASSUME NEW x \in kept PROVE x \in NewestOf(seen)
  <2>1. ASSUME NEW y \in seen, y.hostID = x.hostID PROVE y.observed <= x.observed
    <3>1. PICK z \in kept : z.hostID = y.hostID /\ y.observed <= z.observed
      BY <1>1
    <3>2. z = x
      BY <1>1, <2>1, <3>1
    <3> QED
      BY <3>1, <3>2
  <2> QED
    BY <1>1, <2>1 DEF NewestOf
<1>3. ASSUME NEW x \in NewestOf(seen) PROVE x \in kept
  <2>1. x \in seen /\ \A y \in seen : y.hostID = x.hostID => y.observed <= x.observed
    BY DEF NewestOf
  <2>2. PICK z \in kept : z.hostID = x.hostID /\ x.observed <= z.observed
    BY <1>1, <2>1
  <2>3. z.observed <= x.observed
    BY <1>1, <2>1, <2>2
  <2>4. z.observed = x.observed
    BY <1>1, <2>1, <2>2, <2>3
  <2>5. z = x
    BY <1>1, <2>1, <2>2, <2>4
  <2> QED
    BY <2>2, <2>5
<1>4. kept = NewestOf(seen)
  BY <1>2, <1>3
<1> QED
  BY <1>1, <1>4 DEF Conflicting

-----------------------------------------------------------------------------
(***************************************************************************)
(* How candidates are placed, one after the other, in groups.              *)
(***************************************************************************)

LEMMA PlacedExists ==
    ASSUME NEW s, Len(s) \in Nat
    PROVE  \E placed : /\ placed = [n \in 0..Len(s) |->
                                      IF n = 0 THEN [groups |-> <<>>, issues |-> {}]
                                      ELSE PlaceCandidate(placed[n - 1], s[n])]
                       /\ PlacedCandidates(s) = placed[Len(s)]
<1> DEFINE None == [groups |-> <<>>, issues |-> {}]
           Upto(f, m) == [n \in 0..m |-> IF n = 0 THEN None ELSE PlaceCandidate(f[n - 1], s[n])]
           Long(m) == \E f : f = Upto(f, m)
           long == {m \in Nat : Long(m)}
<1>1. Long(0)
  <2> DEFINE f == [n \in 0..0 |-> None]
  <2>1. f = Upto(f, 0)
    OBVIOUS
  <2> QED
    BY <2>1
<1>2. ASSUME NEW m \in Nat, m # 0, Long(m - 1) PROVE Long(m)
  <2>1. PICK f : f = Upto(f, m - 1)
    BY <1>2
  <2> DEFINE g == Upto(f, m)
  <2> HIDE DEF None
  <2>2. ASSUME NEW n \in 0..m, n # 0 PROVE g[n - 1] = f[n - 1]
    BY <2>1, <2>2
  <2>3. g = Upto(g, m)
    BY <2>2
  <2> QED
    BY <2>3
<1> HIDE DEF Long
<1>3. 0 \in long /\ \A m \in Nat \ {0} : m - 1 \in long => m \in long
  BY <1>1, <1>2
<1> HIDE DEF long
<1>4. \A m \in Nat : m \in long
  BY <1>3, EveryNumber
<1>5. \E f : f = Upto(f, Len(s))
  BY <1>4 DEF Long, long
<1> DEFINE placed == CHOOSE f : f = Upto(f, Len(s))
<1>6. placed = Upto(placed, Len(s))
  BY <1>5
<1>7. PlacedCandidates(s) = placed[Len(s)]
  BY DEF PlacedCandidates
<1> HIDE DEF placed
<1> QED
  BY <1>6, <1>7

Outcome(a, b) == CorrelateRepositories(a.fingerprint, b.fingerprint)

\* It makes no difference which of two repositories is compared with the other.
LEMMA OutcomeSymmetric == \A a, b : Outcome(a, b) = Outcome(b, a)
<1> SUFFICES ASSUME NEW a, NEW b PROVE Outcome(a, b) = Outcome(b, a)
  OBVIOUS
<1> DEFINE l == a.fingerprint
           r == b.fingerprint
           ln == NormalizeRepositoryName(l.name)
           rn == NormalizeRepositoryName(r.name)
           lr == NormalizeGitRemote(l.remote)
           rr == NormalizeGitRemote(r.remote)
           lf == ForgeIdentity(l)
           rf == ForgeIdentity(r)
           differ == (<<>> \notin {lr, rr} /\ lr # rr) \/ (<<>> \notin {lf, rf} /\ lf # rf)
           same == (lr # <<>> /\ lr = rr) \/ (lf # <<>> /\ lf = rf)
<1>1. Outcome(a, b) =
         IF "" \notin {l.explicitID, r.explicitID} /\ l.explicitID # r.explicitID THEN "distinct"
         ELSE IF l.explicitID # "" /\ l.explicitID = r.explicitID
         THEN IF differ THEN "conflict" ELSE "match"
         ELSE IF (<<>> \notin {ln, rn} /\ ln # rn) \/ differ THEN "distinct"
         ELSE IF ln # <<>> /\ ln = rn /\ same THEN "match" ELSE "ambiguous"
  BY DEF Outcome, CorrelateRepositories
<1> DEFINE differs == (<<>> \notin {rr, lr} /\ rr # lr) \/ (<<>> \notin {rf, lf} /\ rf # lf)
           sames == (rr # <<>> /\ rr = lr) \/ (rf # <<>> /\ rf = lf)
<1>2. Outcome(b, a) =
         IF "" \notin {r.explicitID, l.explicitID} /\ r.explicitID # l.explicitID THEN "distinct"
         ELSE IF r.explicitID # "" /\ r.explicitID = l.explicitID
         THEN IF differs THEN "conflict" ELSE "match"
         ELSE IF (<<>> \notin {rn, ln} /\ rn # ln) \/ differs THEN "distinct"
         ELSE IF rn # <<>> /\ rn = ln /\ sames THEN "match" ELSE "ambiguous"
  BY DEF Outcome, CorrelateRepositories
<1> HIDE DEF l, r, ln, rn, lr, rr, lf, rf
<1> QED
  BY <1>1, <1>2

\* The groups hold what was placed, apart and matching, and doubts are noted.
PlacedFrom(s, C, seen) ==
    /\ s.groups \in Seq(Seq(C) \ {<<>>})
    /\ seen = UNION {ToSet(s.groups[g]) : g \in 1..Len(s.groups)}
    /\ \A g, h \in 1..Len(s.groups) :
          g # h => ToSet(s.groups[g]) \intersect ToSet(s.groups[h]) = {}
    /\ \A g \in 1..Len(s.groups) : \A a, b \in ToSet(s.groups[g]) :
          a # b => Outcome(a, b) = "match"
    /\ \A a, b \in seen : a # b /\ Outcome(a, b) \in {"ambiguous", "conflict"} =>
          Issue(a, b, Outcome(a, b)) \in s.issues

LEMMA OneMorePlaced ==
    ASSUME NEW C, NEW s, NEW seen, NEW c \in C, PlacedFrom(s, C, seen), c \notin seen
    PROVE  PlacedFrom(PlaceCandidate(s, c), C, seen \union {c})
<1> DEFINE G == s.groups
           N == Len(G)
           E == Eligible(G, c)
           members == UNION {ToSet(G[g]) : g \in DOMAIN G}
           doubts == {i \in {Issue(m, c, Outcome(c, m)) : m \in members} :
                         i.outcome \in {"ambiguous", "conflict"}}
           extra == IF Cardinality(E) > 1 THEN {Issue(Head(G[g]), c, "ambiguous") : g \in E} ELSE {}
           groups == IF Cardinality(E) = 1
                     THEN [g \in DOMAIN G |-> IF g \in E THEN Append(G[g], c) ELSE G[g]]
                     ELSE Append(G, <<c>>)
           t == PlaceCandidate(s, c)
           all == seen \union {c}
<1>1. t = [issues |-> s.issues \union doubts \union extra, groups |-> groups]
  BY DEF PlaceCandidate, Outcome
<1>2. t.groups = groups /\ s.issues \subseteq t.issues /\ doubts \subseteq t.issues
  BY <1>1
<1> HIDE DEF t, extra
<1>3. /\ G \in Seq(Seq(C) \ {<<>>}) /\ N \in Nat /\ DOMAIN G = 1..N
      /\ seen = members
      /\ \A g \in 1..N : G[g] \in Seq(C) /\ G[g] # <<>>
      /\ \A g, h \in 1..N : g # h => ToSet(G[g]) \intersect ToSet(G[h]) = {}
      /\ \A g \in 1..N : \A a, b \in ToSet(G[g]) : a # b => Outcome(a, b) = "match"
      /\ \A a, b \in seen : a # b /\ Outcome(a, b) \in {"ambiguous", "conflict"} =>
            Issue(a, b, Outcome(a, b)) \in s.issues
  <2>1. G \in Seq(Seq(C) \ {<<>>})
    BY DEF PlacedFrom
  <2>2. N \in Nat /\ DOMAIN G = 1..N /\ \A g \in 1..N : G[g] \in Seq(C) /\ G[g] # <<>>
    BY <2>1
  <2> QED
    BY <2>1, <2>2 DEF PlacedFrom
<1>4. ASSUME NEW a \in all, NEW b \in all, a # b, Outcome(a, b) \in {"ambiguous", "conflict"}
      PROVE  Issue(a, b, Outcome(a, b)) \in t.issues
  <2>1. CASE a \in seen /\ b \in seen
    BY <1>2, <1>3, <1>4, <2>1
  <2>2. ASSUME NEW m \in seen, Outcome(c, m) \in {"ambiguous", "conflict"}
        PROVE  Issue(m, c, Outcome(c, m)) \in t.issues
    <3>1. Issue(m, c, Outcome(c, m)).outcome = Outcome(c, m)
      BY DEF Issue
    <3>2. Issue(m, c, Outcome(c, m)) \in doubts
      BY <1>3, <2>2, <3>1
    <3> QED
      BY <1>2, <3>2
  <2>3. CASE a \in seen /\ b = c
    <3>1. Outcome(a, b) = Outcome(c, a)
      BY <2>3, OutcomeSymmetric
    <3> QED
      BY <1>4, <2>2, <2>3, <3>1
  <2>4. CASE a = c /\ b \in seen
    <3>1. Issue(a, b, Outcome(a, b)) = Issue(b, c, Outcome(c, b))
      BY <2>4 DEF Issue
    <3> QED
      BY <1>4, <2>2, <2>4, <3>1
  <2> QED
    BY <1>4, <2>1, <2>3, <2>4
<1>5. ASSUME NEW sq \in Seq(C) PROVE /\ Append(sq, c) \in Seq(C) \ {<<>>}
                                     /\ ToSet(Append(sq, c)) = ToSet(sq) \union {c}
  <2> DEFINE n == Len(sq)
             u == Append(sq, c)
  <2>1. /\ u \in Seq(C) /\ u # <<>> /\ n \in Nat /\ Len(u) = n + 1
        /\ \A i \in 1..n : u[i] = sq[i]
        /\ u[n + 1] = c
    OBVIOUS
  <2>2. DOMAIN sq = 1..n /\ DOMAIN u = 1..n + 1
    BY <2>1
  <2> HIDE DEF n, u
  <2>3. \A i \in 1..n + 1 : i \in 1..n \/ i = n + 1
    BY <2>1
  <2>4. \A i \in 1..n : i \in 1..n + 1
    BY <2>1
  <2>5. n + 1 \in 1..n + 1
    BY <2>1
  <2>6. ToSet(u) = ToSet(sq) \union {c}
    BY <2>1, <2>2, <2>3, <2>4, <2>5 DEF ToSet
  <2> QED
    BY <2>1, <2>6 DEF u
<1>6. CASE Cardinality(E) = 1
  <2>1. IsFiniteSet(E)
    <3>1. E \subseteq 1..N
      BY <1>3 DEF Eligible
    <3>2. IsFiniteSet(1..N)
      BY <1>3, FS_Interval
    <3> HIDE DEF E
    <3> QED
      BY <3>1, <3>2, FS_Subset
  <2>2. PICK e : E = {e}
    BY <1>6, <2>1, FS_Singleton
  <2>3. /\ e \in 1..N
        /\ \A m \in ToSet(G[e]) : Outcome(c, m) = "match"
    BY <1>3, <2>2 DEF Eligible, Outcome
  <2> HIDE DEF E
  <2>4. groups = [g \in 1..N |-> IF g = e THEN Append(G[g], c) ELSE G[g]]
    BY <1>3, <1>6, <2>2
  <2> HIDE DEF G, N
  <2> DEFINE H == [g \in 1..N |-> IF g = e THEN Append(G[g], c) ELSE G[g]]
  <2>5. \A g \in 1..N : H[g] \in Seq(C) \ {<<>>}
    BY <1>3, <1>5
  <2>6. \A g \in 1..N : \A x : x \in ToSet(H[g]) <=> x \in ToSet(G[g]) \/ (g = e /\ x = c)
    BY <1>3, <1>5
  <2>7. H \in Seq(Seq(C) \ {<<>>}) /\ Len(H) = N
    <3> DEFINE V == Seq(C) \ {<<>>}
    <3>1. H \in [1..N -> V]
      BY <2>5
    <3> HIDE DEF V, H
    <3>2. H \in Seq(V) /\ DOMAIN H = 1..N
      <4>1. H \in UNION {[1..n -> V] : n \in Nat}
        BY <1>3, <3>1, Zenon
      <4>2. H \in Seq(V)
        BY <4>1, SeqDef, Zenon
      <4> QED
        BY <3>1, <4>2
    <3>3. Len(H) \in Nat /\ DOMAIN H = 1..Len(H)
      BY <3>2
    <3>4. Len(H) = N
      BY <1>3, <3>2, <3>3
    <3> QED
      BY <3>2, <3>4 DEF V
  <2> HIDE DEF H
  <2>8. all = UNION {ToSet(H[g]) : g \in 1..N}
    <3>1. seen = UNION {ToSet(G[g]) : g \in 1..N}
      BY <1>3
    <3> QED
      BY <2>3, <2>6, <3>1
  <2>9. ASSUME NEW g \in 1..N, NEW h \in 1..N, g # h
        PROVE  ToSet(H[g]) \intersect ToSet(H[h]) = {}
    <3> SUFFICES ASSUME NEW x, x \in ToSet(H[g]), x \in ToSet(H[h]) PROVE FALSE
      OBVIOUS
    <3>1. c \notin ToSet(G[g]) /\ c \notin ToSet(G[h])
      BY <1>3
    <3>2. ~(x \in ToSet(G[g]) /\ x \in ToSet(G[h]))
      BY <1>3, <2>9
    <3>3. x \in ToSet(G[g]) \/ (g = e /\ x = c)
      BY <2>6
    <3>4. x \in ToSet(G[h]) \/ (h = e /\ x = c)
      BY <2>6
    <3> QED
      BY <2>9, <3>1, <3>2, <3>3, <3>4
  <2>10. ASSUME NEW g \in 1..N, NEW a \in ToSet(H[g]), NEW b \in ToSet(H[g]), a # b
         PROVE  Outcome(a, b) = "match"
    <3>1. a \in ToSet(G[g]) \/ (g = e /\ a = c)
      BY <2>6
    <3>2. b \in ToSet(G[g]) \/ (g = e /\ b = c)
      BY <2>6
    <3>3. CASE a \in ToSet(G[g]) /\ b \in ToSet(G[g])
      BY <1>3, <2>10, <3>3
    <3>4. CASE g = e /\ a = c /\ b \in ToSet(G[g])
      BY <2>3, <3>4
    <3>5. CASE g = e /\ b = c /\ a \in ToSet(G[g])
      BY <2>3, <3>5, OutcomeSymmetric
    <3> QED
      BY <2>10, <3>1, <3>2, <3>3, <3>4, <3>5
  <2>11. t.groups = H
    BY <1>2, <2>4 DEF H
  <2> HIDE DEF groups, all
  <2> QED
    <3>1. /\ t.groups \in Seq(Seq(C) \ {<<>>})
          /\ all = UNION {ToSet(t.groups[g]) : g \in 1..Len(t.groups)}
      BY <2>7, <2>8, <2>11
    <3>2. /\ \A g, h \in 1..Len(t.groups) :
                g # h => ToSet(t.groups[g]) \intersect ToSet(t.groups[h]) = {}
          /\ \A g \in 1..Len(t.groups) : \A a, b \in ToSet(t.groups[g]) :
                a # b => Outcome(a, b) = "match"
      BY <2>7, <2>9, <2>10, <2>11
    <3> QED
      BY <1>4, <3>1, <3>2 DEF PlacedFrom, all, t
<1>7. CASE Cardinality(E) # 1
  <2> DEFINE H == Append(G, <<c>>)
  <2>1. t.groups = H
    BY <1>2, <1>7
  <2>2. <<c>> \in Seq(C) \ {<<>>} /\ ToSet(<<c>>) = {c}
    <3>1. <<c>> = Append(<<>>, c) /\ <<>> \in Seq(C)
      OBVIOUS
    <3>2. ToSet(<<>>) = {}
      BY DEF ToSet
    <3>3. Append(<<>>, c) \in Seq(C) \ {<<>>} /\ ToSet(Append(<<>>, c)) = {} \union {c}
      BY <1>5, <3>1, <3>2
    <3> QED
      BY <3>1, <3>3
  <2>3. /\ H \in Seq(Seq(C) \ {<<>>}) /\ Len(H) = N + 1
        /\ \A g \in 1..N : H[g] = G[g]
        /\ H[N + 1] = <<c>>
    <3> DEFINE V == Seq(C) \ {<<>>}
    <3>1. G \in Seq(V) /\ <<c>> \in V
      BY <1>3, <2>2
    <3> HIDE DEF V, G
    <3> QED
      BY <3>1 DEF V
  <2> HIDE DEF H, groups, E, G, N
  <2>4. \A g \in 1..N + 1 : g \in 1..N \/ g = N + 1
    BY <1>3
  <2>5. \A g \in 1..N : g \in 1..N + 1 /\ g # N + 1
    BY <1>3
  <2>6. N + 1 \in 1..N + 1
    BY <1>3
  <2>7. \A g \in 1..N : ToSet(H[g]) = ToSet(G[g])
    BY <2>3
  <2>8. ToSet(H[N + 1]) = {c}
    BY <2>2, <2>3
  <2>9. all = UNION {ToSet(H[g]) : g \in 1..N + 1}
    <3>1. seen = UNION {ToSet(G[g]) : g \in 1..N}
      BY <1>3
    <3> QED
      BY <2>4, <2>5, <2>6, <2>7, <2>8, <3>1
  <2>10. ASSUME NEW g \in 1..N + 1, NEW h \in 1..N + 1, g # h
         PROVE  ToSet(H[g]) \intersect ToSet(H[h]) = {}
    <3>1. \A i \in 1..N : c \notin ToSet(G[i])
      BY <1>3
    <3>2. CASE g \in 1..N /\ h \in 1..N
      BY <1>3, <2>7, <2>10, <3>2
    <3>3. CASE g \in 1..N /\ h = N + 1
      BY <2>7, <2>8, <3>1, <3>3
    <3>4. CASE g = N + 1 /\ h \in 1..N
      BY <2>7, <2>8, <3>1, <3>4
    <3> QED
      BY <2>4, <2>10, <3>2, <3>3, <3>4
  <2>11. ASSUME NEW g \in 1..N + 1, NEW a \in ToSet(H[g]), NEW b \in ToSet(H[g]), a # b
         PROVE  Outcome(a, b) = "match"
    <3>1. CASE g \in 1..N
      BY <1>3, <2>7, <2>11, <3>1
    <3>2. CASE g = N + 1
      BY <2>8, <2>11, <3>2
    <3> QED
      BY <2>4, <3>1, <3>2
  <2> HIDE DEF all
  <2> QED
    <3>1. /\ t.groups \in Seq(Seq(C) \ {<<>>})
          /\ all = UNION {ToSet(t.groups[g]) : g \in 1..Len(t.groups)}
      BY <2>1, <2>3, <2>9
    <3>2. /\ \A g, h \in 1..Len(t.groups) :
                g # h => ToSet(t.groups[g]) \intersect ToSet(t.groups[h]) = {}
          /\ \A g \in 1..Len(t.groups) : \A a, b \in ToSet(t.groups[g]) :
                a # b => Outcome(a, b) = "match"
      BY <2>1, <2>3, <2>10, <2>11
    <3> QED
      BY <1>4, <3>1, <3>2 DEF PlacedFrom, all, t
<1> QED
  BY <1>6, <1>7

\* What is placed of different candidates.
LEMMA PlacedAre ==
    ASSUME NEW C, NEW candidates \in Seq(C),
           \A i, j \in 1..Len(candidates) : i # j => candidates[i] # candidates[j]
    PROVE  PlacedFrom(PlacedCandidates(candidates), C, ToSet(candidates))
<1> DEFINE N == Len(candidates)
           First(n) == {candidates[i] : i \in 1..n}
<1>1. /\ N \in Nat /\ ToSet(candidates) = First(N)
      /\ \A i \in 1..N : candidates[i] \in C
  <2>1. DOMAIN candidates = 1..N /\ N \in Nat
    OBVIOUS
  <2> QED
    BY <2>1 DEF ToSet
<1>2. PICK placed : /\ placed = [n \in 0..N |->
                                   IF n = 0 THEN [groups |-> <<>>, issues |-> {}]
                                   ELSE PlaceCandidate(placed[n - 1], candidates[n])]
                    /\ PlacedCandidates(candidates) = placed[N]
  BY <1>1, PlacedExists
<1>3. \A i, j \in 1..N : i # j => candidates[i] # candidates[j]
  OBVIOUS
<1> HIDE DEF N
<1> DEFINE Good(n) == PlacedFrom(placed[n], C, First(n))
           good == {n \in Nat : n \in 0..N => Good(n)}
<1>4. Good(0)
  <2>1. placed[0] = [groups |-> <<>>, issues |-> {}] /\ First(0) = {}
    BY <1>1, <1>2
  <2>2. placed[0].groups = <<>>
    BY <2>1
  <2>3. <<>> \in Seq(Seq(C) \ {<<>>}) /\ Len(<<>>) = 0
    OBVIOUS
  <2> QED
    BY <2>1, <2>2, <2>3 DEF PlacedFrom
<1>5. ASSUME NEW n \in Nat \ {0}, n \in 0..N, Good(n - 1) PROVE Good(n)
  <2> DEFINE c == candidates[n]
             seen == First(n - 1)
             s == placed[n - 1]
  <2>1. placed[n] = PlaceCandidate(s, c)
    BY <1>2, <1>5
  <2>2. First(n) = seen \union {c}
    <3>1. \A i \in 1..n : i \in 1..n - 1 \/ i = n
      OBVIOUS
    <3>2. \A i \in 1..n - 1 : i \in 1..n
      OBVIOUS
    <3> QED
      BY <3>1, <3>2
  <2>3. c \in C /\ c \notin seen
    BY <1>1, <1>3, <1>5
  <2>4. PlacedFrom(s, C, seen)
    BY <1>5
  <2> HIDE DEF s, c, seen
  <2>5. PlacedFrom(PlaceCandidate(s, c), C, seen \union {c})
    BY <2>3, <2>4, OneMorePlaced
  <2> QED
    BY <2>1, <2>2, <2>5
<1> HIDE DEF Good
<1>6. 0 \in good /\ \A n \in Nat \ {0} : n - 1 \in good => n \in good
  BY <1>1, <1>4, <1>5
<1> HIDE DEF good
<1>7. \A n \in Nat : n \in good
  BY <1>6, EveryNumber
<1>8. Good(N)
  BY <1>1, <1>7 DEF good
<1> QED
  BY <1>1, <1>2, <1>8 DEF Good

-----------------------------------------------------------------------------
(***************************************************************************)
(* Several sequences, one after the other.                                 *)
(***************************************************************************)

LEMMA FlattenExists ==
    ASSUME NEW s, Len(s) \in Nat \ {0}
    PROVE  \E f : /\ f = [i \in 1..Len(s) |-> IF i = 1 THEN s[i] ELSE f[i - 1] \o s[i]]
                  /\ FlattenSeq(s) = f[Len(s)]
<1> DEFINE Upto(f, m) == [i \in 1..m |-> IF i = 1 THEN s[i] ELSE f[i - 1] \o s[i]]
           Long(m) == \E f : f = Upto(f, m)
           long == {m \in Nat : Long(m)}
<1>1. Long(0)
  <2> DEFINE f == [n \in 1..0 |-> 0]
  <2>1. f = Upto(f, 0)
    OBVIOUS
  <2> QED
    BY <2>1
<1>2. ASSUME NEW m \in Nat, m # 0, Long(m - 1) PROVE Long(m)
  <2>1. PICK f : f = Upto(f, m - 1)
    BY <1>2
  <2> DEFINE g == Upto(f, m)
  <2>2. ASSUME NEW n \in 1..m, n # 1 PROVE g[n - 1] = f[n - 1]
    <3>1. n - 1 \in 1..m - 1 /\ n - 1 \in 1..m
      BY <1>2, <2>2
    <3>2. f[n - 1] = IF n - 1 = 1 THEN s[n - 1] ELSE f[n - 1 - 1] \o s[n - 1]
      BY <2>1, <3>1
    <3>3. g[n - 1] = IF n - 1 = 1 THEN s[n - 1] ELSE f[n - 1 - 1] \o s[n - 1]
      BY <3>1
    <3> QED
      BY <3>2, <3>3
  <2>3. g = Upto(g, m)
    BY <2>2
  <2> QED
    BY <2>3
<1> HIDE DEF Long
<1>3. 0 \in long /\ \A m \in Nat \ {0} : m - 1 \in long => m \in long
  BY <1>1, <1>2
<1> HIDE DEF long
<1>4. \A m \in Nat : m \in long
  BY <1>3, EveryNumber
<1>5. \E f : f = Upto(f, Len(s))
  BY <1>4 DEF Long, long
<1> DEFINE flatten == CHOOSE f : f = Upto(f, Len(s))
<1>6. flatten = Upto(flatten, Len(s))
  BY <1>5
<1>7. FlattenSeq(s) = flatten[Len(s)]
  BY DEF FlattenSeq
<1> HIDE DEF flatten
<1> QED
  BY <1>6, <1>7

\* What several sequences hold, one after the other.
LEMMA Flattened ==
    ASSUME NEW S, NEW s, Len(s) \in Nat, s \in Seq(Seq(S))
    PROVE  /\ FlattenSeq(s) \in Seq(S)
           /\ ToSet(FlattenSeq(s)) = UNION {ToSet(s[i]) : i \in 1..Len(s)}
<1>1. CASE Len(s) = 0
  <2>1. s = <<>> /\ FlattenSeq(s) = s
    BY <1>1 DEF FlattenSeq
  <2>2. <<>> \in Seq(S)
    OBVIOUS
  <2>3. ToSet(FlattenSeq(s)) = {}
    BY <2>1, ToSetTuples
  <2>4. UNION {ToSet(s[i]) : i \in 1..Len(s)} = {}
    BY <1>1
  <2> QED
    BY <2>1, <2>2, <2>3, <2>4
<1>2. CASE Len(s) # 0
  <2> DEFINE N == Len(s)
             All(n) == UNION {ToSet(s[i]) : i \in 1..n}
  <2>1. PICK f : /\ f = [i \in 1..N |-> IF i = 1 THEN s[i] ELSE f[i - 1] \o s[i]]
                 /\ FlattenSeq(s) = f[N]
    BY <1>2, FlattenExists
  <2>2. N \in Nat \ {0} /\ \A i \in 1..N : s[i] \in Seq(S)
    BY <1>2
  <2> HIDE DEF N
  <2> DEFINE Good(n) == f[n] \in Seq(S) /\ ToSet(f[n]) = All(n)
             good == {n \in Nat : n \in 1..N => Good(n)}
  <2>3. ASSUME NEW n \in Nat \ {0}, n - 1 \in good, n \in 1..N PROVE Good(n)
    <3>1. CASE n = 1
      <4>1. f[n] = s[n]
        BY <2>1, <2>2, <3>1
      <4>2. \A i \in 1..n : i = n
        BY <3>1
      <4>3. n \in 1..n
        BY <3>1
      <4>4. UNION {ToSet(s[i]) : i \in 1..n} = ToSet(s[n])
        BY <4>2, <4>3
      <4>5. f[n] \in Seq(S)
        BY <2>2, <2>3, <4>1
      <4>6. ToSet(f[n]) = All(n)
        BY <4>1, <4>4
      <4> HIDE DEF All, good
      <4> QED
        BY <4>5, <4>6
    <3>2. CASE n # 1
      <4>1. f[n] = f[n - 1] \o s[n] /\ n - 1 \in 1..N
        <5>1. n - 1 \in 1..N
          BY <2>2, <2>3, <3>2
        <5>2. f[n] = IF n = 1 THEN s[n] ELSE f[n - 1] \o s[n]
          BY <2>1, <2>3, Zenon
        <5> QED
          BY <3>2, <5>1, <5>2
      <4>2. Good(n - 1)
        BY <2>3, <4>1
      <4>3. s[n] \in Seq(S) /\ f[n - 1] \in Seq(S) /\ ToSet(f[n - 1]) = All(n - 1)
        BY <2>2, <2>3, <4>2
      <4> HIDE DEF All, Good, good
      <4>4. f[n] \in Seq(S) /\ ToSet(f[n]) = All(n - 1) \union ToSet(s[n])
        BY <4>1, <4>3, ToSetConcat
      <4>5. All(n) = All(n - 1) \union ToSet(s[n])
        <5>1. \A i \in 1..n : i \in 1..n - 1 \/ i = n
          OBVIOUS
        <5>2. \A i \in 1..n - 1 : i \in 1..n
          OBVIOUS
        <5>3. n \in 1..n
          BY <2>3
        <5> QED
          BY <5>1, <5>2, <5>3 DEF All
      <4> QED
        BY <4>4, <4>5 DEF Good
    <3> QED
      BY <3>1, <3>2
  <2> HIDE DEF Good
  <2>4. 0 \in good /\ \A n \in Nat \ {0} : n - 1 \in good => n \in good
    BY <2>2, <2>3
  <2> HIDE DEF good
  <2>5. \A n \in Nat : n \in good
    BY <2>4, EveryNumber
  <2>6. Good(N)
    BY <2>2, <2>5 DEF good
  <2> QED
    BY <2>1, <2>6 DEF Good, N
<1> QED
  BY <1>1, <1>2

-----------------------------------------------------------------------------
(***************************************************************************)
(* The order in which peers are read makes no difference.                  *)
(***************************************************************************)

LEMMA SameInterval == ASSUME NEW m \in Nat, NEW n \in Nat, 1..m = 1..n PROVE m = n
<1>1. CASE m < n
  <2>1. n \in 1..n /\ n \notin 1..m
    BY <1>1
  <2> QED
    BY <2>1
<1>2. CASE n < m
  <2>1. m \in 1..m /\ m \notin 1..n
    BY <1>2
  <2> QED
    BY <2>1
<1> QED
  BY <1>1, <1>2

\* What Aggregate makes of the snapshots that are kept.
LEMMA AggregateIs ==
    ASSUME NEW snapshots
    PROVE  LET current == CurrentSnapshots(snapshots)
           IN  /\ Aggregate(snapshots).ok <=> current.ok
               /\ current.ok =>
                     Aggregate(snapshots) =
                        Ok(Federation(current.val, PlacedCandidates(Candidates(current.val))))
<1> DEFINE current == CurrentSnapshots(snapshots)
<1>1. CASE ~current.ok
  <2>1. Aggregate(snapshots) = Error
    BY <1>1, Zenon DEF Aggregate, Then
  <2> QED
    BY <1>1, <2>1 DEF Error
<1>2. CASE current.ok
  <2> DEFINE federation == Federation(current.val, PlacedCandidates(Candidates(current.val)))
  <2>1. Aggregate(snapshots) = Ok(federation)
    BY <1>2, Zenon DEF Aggregate, Then
  <2>2. Ok(federation).ok
    BY DEF Ok
  <2> QED
    BY <1>2, <2>1, <2>2
<1> QED
  BY <1>1, <1>2

\* What an aggregate makes of a set of valid snapshots, in any order.
LEMMA NewestAggregated ==
    ASSUME NEW S, \A s \in S : s.observed \in Nat /\ ValidSnapshot(s), NEW order \in Seq(S)
    PROVE  LET seen   == ToSet(order)
               newest == NewestOf(seen)
               result == Aggregate(order)
           IN  /\ Conflicting(newest) => ~result.ok
               /\ ~Conflicting(seen) => result.ok
               /\ result.ok =>
                     result = Ok(Federation(newest, PlacedCandidates(Candidates(newest))))
<1> DEFINE seen == ToSet(order)
           newest == NewestOf(seen)
           current == CurrentSnapshots(order)
           result == Aggregate(order)
<1>1. \A s \in seen : s.observed \in Nat /\ ValidSnapshot(s)
  BY DEF ToSet
<1>2. /\ current.ok => KeptFrom(current.val, seen)
      /\ (\A s \in seen : ValidSnapshot(s)) /\ NoConflict(seen) => current.ok
  BY CurrentAre
<1>3. /\ result.ok <=> current.ok
      /\ current.ok => result = Ok(Federation(current.val,
                                             PlacedCandidates(Candidates(current.val))))
  BY AggregateIs
<1> HIDE DEF seen, current, result
<1>4. current.ok => current.val = newest /\ ~Conflicting(newest)
  BY <1>1, <1>2, NewestKept
<1>5. ~Conflicting(seen) => NoConflict(seen)
  BY DEF Conflicting, NoConflict
<1> HIDE DEF newest
<1>6. result.ok => result = Ok(Federation(newest, PlacedCandidates(Candidates(newest))))
  BY <1>3, <1>4
<1>7. Conflicting(newest) => ~result.ok
  BY <1>3, <1>4
<1>8. ~Conflicting(seen) => result.ok
  BY <1>1, <1>2, <1>3, <1>5
<1> QED
  BY <1>6, <1>7, <1>8 DEF seen, newest, result

PeerSnapshots(registry, observations) ==
    [i \in DOMAIN registry |-> Observation(observations, registry[i].name).val.snapshots]

\* What is observed of the peers, one after the other.
LEMMA PeersSeen ==
    ASSUME NEW registry, registry \in Seq(ToSet(registry)), NEW observations,
           \A i \in DOMAIN registry :
              PossibleSnapshots(Observation(observations, registry[i].name).val.snapshots)
    PROVE  LET parts == PeerSnapshots(registry, observations)
               seen == FlattenSeq(parts)
           IN  /\ seen \in Seq(ToSet(seen))
               /\ ToSet(seen) = UNION {ToSet(parts[i]) : i \in DOMAIN registry}
<1> DEFINE parts == PeerSnapshots(registry, observations)
           N == Len(registry)
           S == UNION {ToSet(parts[i]) : i \in DOMAIN registry}
<1>1. N \in Nat /\ DOMAIN registry = 1..N
  OBVIOUS
<1>2. ASSUME NEW i \in 1..N PROVE parts[i] \in Seq(S)
  <2>1. PossibleSnapshots(parts[i])
    BY <1>1 DEF PeerSnapshots
  <2>2. parts[i] \in Seq(ToSet(parts[i]))
    BY <2>1 DEF PossibleSnapshots
  <2>3. ToSet(parts[i]) \in SUBSET S
    BY <1>1
  <2> HIDE DEF parts, S
  <2> QED
    BY <2>2, <2>3, SeqMonotonic
<1>3. parts \in [1..N -> Seq(S)]
  BY <1>1, <1>2 DEF PeerSnapshots
<1> HIDE DEF parts, S, N
<1>4. parts \in Seq(Seq(S)) /\ Len(parts) = N
  <2>1. parts \in UNION {[1..n -> Seq(S)] : n \in Nat}
    BY <1>1, <1>3, Zenon
  <2>2. parts \in Seq(Seq(S))
    BY <2>1, SeqDef, Zenon
  <2>3. Len(parts) \in Nat /\ DOMAIN parts = 1..Len(parts) /\ DOMAIN parts = 1..N
    BY <1>3, <2>2
  <2>4. Len(parts) = N
    BY <1>1, <2>3, SameInterval
  <2> QED
    BY <2>2, <2>4
<1>5. /\ FlattenSeq(parts) \in Seq(S)
      /\ ToSet(FlattenSeq(parts)) = UNION {ToSet(parts[i]) : i \in 1..N}
  BY <1>1, <1>4, Flattened
<1>6. ToSet(FlattenSeq(parts)) = S
  BY <1>1, <1>5 DEF S
<1> QED
  BY <1>5, <1>6 DEF parts, S

\* A snapshot that is observed is a possible one.
LEMMA ObservationPossible ==
    ASSUME world \in DOMAIN Worlds, NEW m \in World.machines, NEW name
    PROVE  Observation(m.observations, name).ok =>
              PossibleSnapshots(Observation(m.observations, name).val.snapshots)
<1> DEFINE found == Observation(m.observations, name)
<1>1. CASE name \in DOMAIN m.observations
  <2>1. found = m.observations[name]
    BY <1>1 DEF Observation
  <2> QED
    BY <1>1, <2>1, MachinesAssumption DEF World
<1>2. CASE name \notin DOMAIN m.observations
  <2>1. found.val.snapshots = <<>>
    BY <1>2 DEF Observation, Ok
  <2>2. ToSet(<<>>) = {} /\ <<>> \in Seq({})
    BY ToSetTuples
  <2>3. PossibleSnapshots(<<>>)
    BY <2>2 DEF PossibleSnapshots
  <2> QED
    BY <2>1, <2>3
<1> QED
  BY <1>1, <1>2

LEMMA ReorderedSame ==
    ASSUME NEW seen, seen \in Seq(ToSet(seen)), NEW f \in Bijection(DOMAIN seen, DOMAIN seen)
    PROVE  LET order == [i \in DOMAIN seen |-> seen[f[i]]]
           IN  order \in Seq(ToSet(seen)) /\ ToSet(order) = ToSet(seen)
<1> DEFINE D == DOMAIN seen
           S == ToSet(seen)
           order == [i \in D |-> seen[f[i]]]
           N == Len(seen)
<1>1. N \in Nat /\ D = 1..N /\ \A i \in D : seen[i] \in S
  BY DEF ToSet
<1>2. f \in [D -> D] /\ \A w \in D : \E v \in D : f[v] = w
  BY DEF Bijection, Surjection
<1>3. S = {seen[i] : i \in D}
  BY DEF ToSet
<1> HIDE DEF D, S, N
<1>4. order \in [1..N -> S] /\ DOMAIN order = D
  BY <1>1, <1>2
<1>5. ToSet(order) = S
  <2>1. ToSet(order) = {order[i] : i \in D}
    BY <1>4 DEF ToSet
  <2>2. \A i \in D : order[i] \in S
    BY <1>1, <1>4
  <2>3. \A i \in D : \E j \in D : order[j] = seen[i]
    BY <1>2
  <2> HIDE DEF order
  <2> QED
    BY <1>3, <2>1, <2>2, <2>3
<1>6. order \in UNION {[1..n -> S] : n \in Nat}
  BY <1>1, <1>4, Zenon
<1>7. order \in Seq(S)
  BY <1>6, SeqDef, Zenon
<1> QED
  BY <1>5, <1>7 DEF D, S

\* What is seen of the peers of a machine of the world.
LEMMA SeenIsPossible ==
    ASSUME WorldInv
    PROVE  /\ SeenOfPeers \in Seq(ToSet(SeenOfPeers))
           /\ \A s \in ToSet(SeenOfPeers) : s.observed \in Nat /\ ValidSnapshot(s)
<1> DEFINE registry == now.registry.val
           parts == PeerSnapshots(registry, now.observations)
           readable == /\ now.registry.ok
                       /\ \A i \in DOMAIN registry :
                             Observation(now.observations, registry[i].name).ok
<1>1. SeenOfPeers = IF readable THEN FlattenSeq(parts) ELSE <<>>
  BY Zenon DEF SeenOfPeers, PeerSnapshots
<1>2. CASE ~readable
  <2>1. SeenOfPeers = <<>>
    BY <1>1, <1>2
  <2>2. ToSet(<<>>) = {} /\ <<>> \in Seq({})
    BY ToSetTuples
  <2> QED
    BY <2>1, <2>2
<1>3. CASE readable
  <2>1. world \in DOMAIN Worlds /\ now \in World.machines
    BY DEF WorldInv
  <2>2. registry \in Seq(ToSet(registry))
    BY <1>3, <2>1, MachinesAssumption DEF World
  <2>3. \A i \in DOMAIN registry :
           PossibleSnapshots(Observation(now.observations, registry[i].name).val.snapshots)
    BY <1>3, <2>1, ObservationPossible
  <2>4. SeenOfPeers = FlattenSeq(parts)
    BY <1>1, <1>3
  <2> HIDE DEF registry
  <2>5. /\ SeenOfPeers \in Seq(ToSet(SeenOfPeers))
        /\ ToSet(SeenOfPeers) = UNION {ToSet(parts[i]) : i \in DOMAIN registry}
    BY <2>2, <2>3, <2>4, PeersSeen
  <2>6. \A i \in DOMAIN registry : PossibleSnapshots(parts[i])
    BY <2>3 DEF PeerSnapshots
  <2> HIDE DEF parts
  <2>7. \A i \in DOMAIN registry : \A s \in ToSet(parts[i]) :
           s.observed \in Nat /\ ValidSnapshot(s)
    BY <2>6 DEF PossibleSnapshots, PossibleSnapshot
  <2> QED
    BY <2>5, <2>7
<1> QED
  BY <1>2, <1>3

LEMMA NewestOfAnyOrder == WorldInv => NewestDecides
<1> SUFFICES ASSUME WorldInv, NEW order \in Reordered(SeenOfPeers)
             PROVE  LET seen   == ToSet(SeenOfPeers)
                        newest == NewestOf(seen)
                        result == Aggregate(order)
                    IN  /\ Conflicting(newest) => ~result.ok
                        /\ ~Conflicting(seen) => result.ok
                        /\ result.ok =>
                              result = Ok(Federation(newest,
                                                     PlacedCandidates(Candidates(newest))))
  BY Zenon DEF NewestDecides
<1>1. /\ SeenOfPeers \in Seq(ToSet(SeenOfPeers))
      /\ \A s \in ToSet(SeenOfPeers) : s.observed \in Nat /\ ValidSnapshot(s)
  BY SeenIsPossible
<1>2. order \in Seq(ToSet(SeenOfPeers)) /\ ToSet(order) = ToSet(SeenOfPeers)
  BY <1>1, ReorderedSame DEF Reordered
<1> QED
  BY <1>1, <1>2, NewestAggregated

-----------------------------------------------------------------------------
(***************************************************************************)
(* Sequences, of whatever they hold.                                       *)
(***************************************************************************)

\* A sequence, of whatever it holds.
Listing(s) == s \in Seq(ToSet(s))

LEMMA ListingIs ==
    ASSUME NEW S, NEW s \in Seq(S)
    PROVE  Listing(s)
<1>1. Len(s) \in Nat /\ DOMAIN s = 1..Len(s)
  OBVIOUS
<1>2. \A i \in 1..Len(s) : s[i] \in ToSet(s)
  BY <1>1 DEF ToSet
<1>3. s \in [1..Len(s) -> ToSet(s)]
  BY <1>1, <1>2
<1>4. s \in UNION {[1..n -> ToSet(s)] : n \in Nat}
  BY <1>1, <1>3, Zenon
<1> QED
  BY <1>4, SeqDef, Zenon DEF Listing

LEMMA ListingOf ==
    ASSUME NEW n \in Nat, NEW s, s = [i \in 1..n |-> s[i]]
    PROVE  Listing(s) /\ Len(s) = n /\ DOMAIN s = 1..n
<1>1. DOMAIN s = 1..n
  BY Zenon
<1>2. \A i \in 1..n : s[i] \in ToSet(s)
  BY <1>1 DEF ToSet
<1>3. s \in [1..n -> ToSet(s)]
  BY <1>2, Zenon
<1>4. s \in UNION {[1..m -> ToSet(s)] : m \in Nat}
  BY <1>3, Zenon
<1>5. Listing(s)
  BY <1>4, SeqDef, Zenon DEF Listing
<1>6. Len(s) \in Nat /\ DOMAIN s = 1..Len(s)
  BY <1>5 DEF Listing
<1>7. Len(s) = n
  BY <1>1, <1>6, SameInterval
<1> QED
  BY <1>1, <1>5, <1>7

LEMMA ListingConcat ==
    ASSUME NEW s, NEW t, Listing(s), Listing(t)
    PROVE  Listing(s \o t) /\ ToSet(s \o t) = ToSet(s) \union ToSet(t)
<1> DEFINE S == ToSet(s) \union ToSet(t)
<1>1. s \in Seq(S) /\ t \in Seq(S)
  BY SeqMonotonic DEF Listing
<1> QED
  BY <1>1, ToSetConcat, ListingIs

LEMMA ListingFlat ==
    ASSUME NEW n \in Nat, NEW s, s = [i \in 1..n |-> s[i]], \A i \in 1..n : Listing(s[i])
    PROVE  Listing(FlattenSeq(s)) /\ ToSet(FlattenSeq(s)) = UNION {ToSet(s[i]) : i \in 1..n}
<1> DEFINE S == UNION {ToSet(s[i]) : i \in 1..n}
<1>1. \A i \in 1..n : s[i] \in Seq(S)
  <2> SUFFICES ASSUME NEW i \in 1..n PROVE s[i] \in Seq(S)
    OBVIOUS
  <2>1. ToSet(s[i]) \in SUBSET S
    OBVIOUS
  <2> HIDE DEF S
  <2> QED
    BY <2>1, SeqMonotonic DEF Listing
<1> HIDE DEF S
<1>2. s \in [1..n -> Seq(S)]
  BY <1>1, Zenon
<1>3. s \in UNION {[1..m -> Seq(S)] : m \in Nat}
  BY <1>2, Zenon
<1>4. s \in Seq(Seq(S))
  BY <1>3, SeqDef, Zenon
<1>5. Len(s) = n
  BY ListingOf
<1>6. FlattenSeq(s) \in Seq(S) /\ ToSet(FlattenSeq(s)) = UNION {ToSet(s[i]) : i \in 1..n}
  BY <1>4, <1>5, Flattened
<1> QED
  BY <1>6, ListingIs

LEMMA ListingAfter ==
    ASSUME NEW q, NEW steps, NEW more, Listing(steps), Read(q, steps) => Listing(more)
    PROVE  /\ Listing(After(q, steps, more))
           /\ Read(q, After(q, steps, more)) => Read(q, steps) /\ Read(q, more)
<1>1. CASE Read(q, steps)
  <2>1. After(q, steps, more) = steps \o more
    BY <1>1 DEF After, Read
  <2>2. Listing(steps \o more) /\ ToSet(steps \o more) = ToSet(steps) \union ToSet(more)
    BY <1>1, ListingConcat
  <2> QED
    BY <2>1, <2>2 DEF Read
<1>2. CASE ~Read(q, steps)
  <2>1. After(q, steps, more) = steps \o <<>>
    BY <1>2 DEF After, Read
  <2>2. Listing(<<>>) /\ ToSet(<<>>) = {}
    BY ToSetTuples DEF Listing
  <2>3. Listing(steps \o <<>>) /\ ToSet(steps \o <<>>) = ToSet(steps)
    BY <2>2, ListingConcat
  <2> QED
    BY <1>2, <2>1, <2>3 DEF Read
<1> QED
  BY <1>1, <1>2

LEMMA ListingTuples ==
    /\ Listing(<<>>)
    /\ \A a : Listing(<<a>>)
    /\ \A a, b : Listing(<<a, b>>) /\ ToSet(<<a, b>>) = {a, b}
    /\ \A a, b, c : Listing(<<a, b, c>>) /\ ToSet(<<a, b, c>>) = {a, b, c}
<1>1. Listing(<<>>)
  BY ToSetTuples DEF Listing
<1>2. ASSUME NEW a PROVE Listing(<<a>>)
  BY ToSetTuples DEF Listing
<1>3. ASSUME NEW a, NEW b PROVE Listing(<<a, b>>) /\ ToSet(<<a, b>>) = {a, b}
  <2>1. <<a, b>> \in Seq({a, b})
    OBVIOUS
  <2>2. DOMAIN <<a, b>> = {1, 2} /\ <<a, b>>[1] = a /\ <<a, b>>[2] = b
    OBVIOUS
  <2> QED
    BY <2>1, <2>2, ListingIs DEF ToSet
<1>4. ASSUME NEW a, NEW b, NEW c
      PROVE  Listing(<<a, b, c>>) /\ ToSet(<<a, b, c>>) = {a, b, c}
  <2> DEFINE s == <<a, b, c>>
  <2>1. s \in Seq({a, b, c})
    OBVIOUS
  <2>2. DOMAIN s = {1, 2, 3} /\ s[1] = a /\ s[2] = b /\ s[3] = c
    OBVIOUS
  <2> HIDE DEF s
  <2>3. Listing(s) /\ ToSet(s) = {a, b, c}
    BY <2>1, <2>2, ListingIs DEF ToSet
  <2> QED
    BY <2>3 DEF s
<1> QED
  BY <1>1, <1>2, <1>3, <1>4

LEMMA CutListing ==
    ASSUME NEW n \in Nat, NEW s
    PROVE  Listing(SubSeq(s, 1, n)) /\ Len(SubSeq(s, 1, n)) = n
<1> DEFINE S == {s[i] : i \in 1..n}
           t == SubSeq(s, 1, n)
<1>1. \A i \in 1..n : s[i] \in S
  OBVIOUS
<1> HIDE DEF S
<1>2. t \in Seq(S) /\ Len(t) = IF 1 <= n THEN n - 1 + 1 ELSE 0
  BY <1>1, SubSeqProperties
<1> HIDE DEF t
<1>3. Len(t) = n
  BY <1>2
<1>4. Listing(t)
  BY <1>2, ListingIs
<1> QED
  BY <1>3, <1>4 DEF t

LEMMA InOrderListing ==
    ASSUME NEW R, IsFiniteSet(R)
    PROVE  Listing(InOrder(R))
<1> DEFINE f == [i \in 1..Cardinality(R) |->
                    CHOOSE x \in R : Cardinality({y \in R :
                      \/ y.active /\ ~x.active
                      \/ y.active = x.active /\ y.lastSeen > x.lastSeen
                      \/ /\ y.active = x.active
                         /\ y.lastSeen = x.lastSeen
                         /\ RootRank[y.root] < RootRank[x.root]}) = i - 1]
<1>1. InOrder(R) = SubSeq(f, 1, Cardinality(R))
  BY DEF InOrder, Sorted
<1>2. Cardinality(R) \in Nat
  BY FS_CardinalityType
<1> HIDE DEF f
<1> QED
  BY <1>1, <1>2, CutListing

LEMMA FiniteImage ==
    ASSUME NEW S, IsFiniteSet(S), NEW f
    PROVE  IsFiniteSet({f[x] : x \in S})
<1> DEFINE T == {f[x] : x \in S}
           g == [x \in S |-> f[x]]
<1>1. g \in Surjection(S, T)
  BY DEF Surjection
<1> HIDE DEF g, T
<1>2. IsFiniteSet(T)
  BY <1>1, FS_Surjection
<1> QED
  BY <1>2 DEF T

\* The repositories that are listed, each at its root.
LEMMA ListedAre ==
    ASSUME NEW catalog, NEW live, ListRepositories(catalog, live).ok
    PROVE  \E f, roots :
              /\ ListRepositories(catalog, live).val.repositories = {f[root] : root \in roots}
              /\ roots = LET known == {r.root : r \in {r \in catalog.val :
                               \A s \in catalog.val : s.root = r.root => s.lastSeen >= r.lastSeen}}
                         IN  IF live.ok THEN known \union LiveRoots(live.val) ELSE known
<1> DEFINE listed == {r \in catalog.val :
                         \A s \in catalog.val : s.root = r.root => s.lastSeen >= r.lastSeen}
           known == {r.root : r \in listed}
           At(root) == RepositorySummary(IF root \in known
                                         THEN CHOOSE r \in listed : r.root = root
                                         ELSE TransientRepository(root))
           Live(root) == [At(root) EXCEPT !.active = root \in LiveRoots(live.val),
                                          !.agents = AgentsAt(live.val, root)]
           all == known \union LiveRoots(live.val)
           list == ListRepositories(catalog, live)
<1>1. list =
         IF ~catalog.ok THEN Error
         ELSE IF ~live.ok THEN Ok([warned |-> TRUE, repositories |-> {At(root) : root \in known}])
         ELSE Ok([warned |-> FALSE, repositories |-> {Live(root) : root \in all}])
  BY DEF ListRepositories
<1> HIDE DEF At, Live, list, known, all
<1>2. catalog.ok
  BY <1>1 DEF Error, list
<1>3. CASE live.ok
  <2> DEFINE f == [root \in all |-> Live(root)]
  <2>1. list.val.repositories = {Live(root) : root \in all}
    BY <1>1, <1>2, <1>3 DEF Ok
  <2>2. \A root \in all : f[root] = Live(root)
    OBVIOUS
  <2> HIDE DEF f
  <2>3. list.val.repositories = {f[root] : root \in all}
    BY <2>1, <2>2
  <2> QED
    BY <1>3, <2>3 DEF all, known, list
<1>4. CASE ~live.ok
  <2> DEFINE f == [root \in known |-> At(root)]
  <2>1. list.val.repositories = {At(root) : root \in known}
    BY <1>1, <1>2, <1>4 DEF Ok
  <2>2. \A root \in known : f[root] = At(root)
    OBVIOUS
  <2> HIDE DEF f
  <2>3. list.val.repositories = {f[root] : root \in known}
    BY <2>1, <2>2
  <2> QED
    BY <1>4, <2>3 DEF known, list
<1> QED
  BY <1>3, <1>4

LEMMA ListedFinite ==
    ASSUME NEW catalog, NEW live, catalog.ok => PossibleCatalog(catalog.val),
           live.ok => PossibleSessions(live.val), ListRepositories(catalog, live).ok
    PROVE  IsFiniteSet(ListRepositories(catalog, live).val.repositories)
<1> DEFINE listed == {r \in catalog.val :
                         \A s \in catalog.val : s.root = r.root => s.lastSeen >= r.lastSeen}
           known == {r.root : r \in listed}
<1>1. PICK f, roots :
          /\ ListRepositories(catalog, live).val.repositories = {f[root] : root \in roots}
          /\ roots = IF live.ok THEN known \union LiveRoots(live.val) ELSE known
  BY ListedAre
<1>2. catalog.ok
  BY DEF ListRepositories, Error
<1>3. IsFiniteSet(known)
  <2>1. IsFiniteSet(catalog.val)
    BY <1>2 DEF PossibleCatalog
  <2>2. IsFiniteSet(listed)
    BY <2>1, FS_Subset
  <2> HIDE DEF listed
  <2> DEFINE g == [r \in listed |-> r.root]
  <2>3. IsFiniteSet({g[r] : r \in listed})
    BY <2>2, FiniteImage
  <2> QED
    BY <2>3
<1> HIDE DEF known
<1>4. CASE live.ok
  <2>1. IsFiniteSet(live.val)
    BY <1>4 DEF PossibleSessions
  <2> DEFINE g == [s \in live.val |-> s.root]
             T == {g[s] : s \in live.val}
  <2>2. IsFiniteSet(T)
    BY <2>1, FiniteImage
  <2>3. LiveRoots(live.val) \in SUBSET T
    BY DEF LiveRoots
  <2> HIDE DEF T
  <2>4. IsFiniteSet(LiveRoots(live.val))
    BY <2>2, <2>3, FS_Subset
  <2>5. IsFiniteSet(roots)
    BY <1>1, <1>3, <1>4, <2>4, FS_Union
  <2> QED
    BY <1>1, <2>5, FiniteImage
<1>5. CASE ~live.ok
  <2>1. IsFiniteSet(roots)
    BY <1>1, <1>3, <1>5
  <2> QED
    BY <1>1, <2>1, FiniteImage
<1> QED
  BY <1>4, <1>5

-----------------------------------------------------------------------------
(***************************************************************************)
(* What a snapshot of this Host and an answer about the federation read.   *)
(***************************************************************************)

\* Whatever a request has read is of its machine.
MachineSeen(machines, q) == \A s \in DOMAIN q.see : \E m \in machines : SeenIn(q.see[s], s, m)

LEMMA CatalogSeen ==
    ASSUME NEW machines, NEW q, MachineSeen(machines, q), NEW sub,
           NEW name, name \in {"catalog", "hostCatalog", "sessionCatalog"},
           <<name, sub>> \in DOMAIN q.see
    PROVE  \E m \in machines : View(q, sub)[name] = m.catalog
<1> DEFINE step == <<name, sub>>
<1>1. PICK m \in machines : SeenIn(q.see[step], step, m)
  BY DEF MachineSeen
<1>2. step[1] = name /\ ~IsGit(step)
  BY DEF IsGit
<1>3. q.see[step] = Found(m, name)
  BY <1>1, <1>2 DEF SeenIn
<1>4. Found(m, name) = m.catalog
  BY DEF Found
<1>5. View(q, sub)[name] = q.see[step]
  BY ViewAt
<1> QED
  BY <1>3, <1>4, <1>5

LEMMA LiveSeen ==
    ASSUME NEW machines, NEW q, MachineSeen(machines, q), NEW sub,
           NEW name, name \in {"live", "scan"}, <<name, sub>> \in DOMAIN q.see
    PROVE  \E m \in machines : View(q, sub)[name] = m.live
<1> DEFINE step == <<name, sub>>
<1>1. PICK m \in machines : SeenIn(q.see[step], step, m)
  BY DEF MachineSeen
<1>2. step[1] = name /\ ~IsGit(step)
  BY DEF IsGit
<1>3. q.see[step] = Found(m, name)
  BY <1>1, <1>2 DEF SeenIn
<1>4. Found(m, name) = m.live
  BY DEF Found
<1>5. View(q, sub)[name] = q.see[step]
  BY ViewAt
<1> QED
  BY <1>3, <1>4, <1>5

LEMMA OfListing ==
    ASSUME NEW names, Listing(names), NEW id
    PROVE  /\ Listing(Of(names, id)) /\ ToSet(Of(names, id)) = {<<n, <<id>>>> : n \in ToSet(names)}
           /\ Listing(Solo(names)) /\ ToSet(Solo(names)) = {<<n, <<>>>> : n \in ToSet(names)}
<1> DEFINE N == Len(names)
<1>1. DOMAIN names = 1..N /\ N \in Nat
  BY DEF Listing
<1>2. ToSet(names) = {names[i] : i \in 1..N}
  BY <1>1 DEF ToSet
<1> HIDE DEF N
<1>3. Of(names, id) = [i \in 1..N |-> <<names[i], <<id>>>>]
  BY <1>1 DEF Of
<1>4. Solo(names) = [i \in 1..N |-> <<names[i], <<>>>>]
  BY <1>1 DEF Solo
<1>5. Listing(Of(names, id))
  <2> DEFINE s == Of(names, id)
  <2>1. s = [i \in 1..N |-> s[i]]
    BY <1>3
  <2> HIDE DEF s
  <2> QED
    BY <1>1, <2>1, ListingOf DEF s
<1>6. Listing(Solo(names))
  <2> DEFINE s == Solo(names)
  <2>1. s = [i \in 1..N |-> s[i]]
    BY <1>4
  <2> HIDE DEF s
  <2> QED
    BY <1>1, <2>1, ListingOf DEF s
<1>7. ToSet(Of(names, id)) = {<<n, <<id>>>> : n \in ToSet(names)}
  <2> DEFINE s == Of(names, id)
  <2>1. DOMAIN s = 1..N /\ \A i \in 1..N : s[i] = <<names[i], <<id>>>>
    BY <1>3
  <2> HIDE DEF s
  <2>2. ToSet(s) = {s[i] : i \in 1..N}
    BY <2>1 DEF ToSet
  <2>3. \A x : x \in ToSet(s) <=> \E n \in ToSet(names) : x = <<n, <<id>>>>
    BY <1>2, <2>1, <2>2
  <2> QED
    BY <2>3 DEF s
<1>8. ToSet(Solo(names)) = {<<n, <<>>>> : n \in ToSet(names)}
  <2> DEFINE s == Solo(names)
  <2>1. DOMAIN s = 1..N /\ \A i \in 1..N : s[i] = <<names[i], <<>>>>
    BY <1>4
  <2> HIDE DEF s
  <2>2. ToSet(s) = {s[i] : i \in 1..N}
    BY <2>1 DEF ToSet
  <2>3. \A x : x \in ToSet(s) <=> \E n \in ToSet(names) : x = <<n, <<>>>>
    BY <1>2, <2>1, <2>2
  <2> QED
    BY <2>3 DEF s
<1> QED
  BY <1>5, <1>6, <1>7, <1>8

LEMMA HostListing ==
    ASSUME world \in DOMAIN Worlds, NEW q, MachineSeen(World.machines, q)
    PROVE  Listing(HostSteps(q))
<1> DEFINE first == Solo(<<"hostCatalog">>)
           catalog == View(q, <<>>)["hostCatalog"]
           ForRepository(r) ==
              After(q, Of(<<"host">>, r.id),
                    IF NeedsGit(ProjectAt(View(q, <<r.id>>)["host"], r.root))
                    THEN Of(<<"hostGit">>, r.id) ELSE <<>>)
           R == {[id |-> r.id, root |-> r.root, active |-> FALSE, lastSeen |-> r.lastSeen] :
                    r \in catalog.val}
           order == InOrder(R)
           all == [i \in DOMAIN order |-> ForRepository(order[i])]
           more == IF ~catalog.ok THEN <<>> ELSE FlattenSeq(all)
<1>1. HostSteps(q) = After(q, first, more)
  BY DEF HostSteps
<1>2. ASSUME NEW r PROVE Listing(ForRepository(r))
  <2> DEFINE a == Of(<<"host">>, r.id)
             b == IF NeedsGit(ProjectAt(View(q, <<r.id>>)["host"], r.root))
                  THEN Of(<<"hostGit">>, r.id) ELSE <<>>
  <2>1. Listing(a)
    BY ListingTuples, OfListing
  <2>2. Listing(Of(<<"hostGit">>, r.id)) /\ Listing(<<>>)
    BY ListingTuples, OfListing
  <2>3. Listing(b)
    BY <2>2
  <2> HIDE DEF a, b
  <2>4. Listing(After(q, a, b))
    BY <2>1, <2>3, ListingAfter
  <2> QED
    BY <2>4 DEF a, b
<1> HIDE DEF ForRepository
<1>3. Listing(first) /\ ToSet(first) = {<<"hostCatalog", <<>>>>}
  <2>1. Listing(<<"hostCatalog">>) /\ ToSet(<<"hostCatalog">>) = {"hostCatalog"}
    BY ListingTuples, ToSetTuples
  <2>2. Listing(first) /\ ToSet(first) = {<<n, <<>>>> : n \in {"hostCatalog"}}
    BY <2>1, OfListing
  <2> QED
    BY <2>2
<1>4. ASSUME Read(q, first), catalog.ok PROVE Listing(FlattenSeq(all))
  <2>1. <<"hostCatalog", <<>>>> \in DOMAIN q.see
    BY <1>3, <1>4 DEF Read
  <2>2. PICK m \in World.machines : catalog = m.catalog
    <3> DEFINE machines == World.machines
    <3>1. MachineSeen(machines, q) /\ "hostCatalog" \in {"catalog", "hostCatalog", "sessionCatalog"}
      OBVIOUS
    <3> HIDE DEF machines
    <3>2. \E m \in machines : View(q, <<>>)["hostCatalog"] = m.catalog
      BY <2>1, <3>1, CatalogSeen
    <3> QED
      BY <3>2 DEF machines
  <2>3. IsFiniteSet(catalog.val)
    BY <1>4, <2>2, MachinesAssumption DEF World, PossibleCatalog
  <2> DEFINE f == [r \in catalog.val |->
                      [id |-> r.id, root |-> r.root, active |-> FALSE, lastSeen |-> r.lastSeen]]
             T == {f[r] : r \in catalog.val}
  <2>4. IsFiniteSet(T)
    BY <2>3, FiniteImage
  <2>5. R = T
    OBVIOUS
  <2> HIDE DEF T
  <2>6. IsFiniteSet(R)
    BY <2>4, <2>5
  <2> HIDE DEF R
  <2>7. Listing(order)
    BY <2>6, InOrderListing
  <2> HIDE DEF order
  <2>8. Len(order) \in Nat /\ DOMAIN order = 1..Len(order)
    BY <2>7 DEF Listing
  <2>9. \A i \in 1..Len(order) : all[i] = ForRepository(order[i])
    BY <2>8
  <2>10. all = [i \in 1..Len(order) |-> all[i]]
    BY <2>8
  <2> HIDE DEF all
  <2>11. \A i \in 1..Len(order) : Listing(all[i])
    BY <1>2, <2>9
  <2> QED
    BY <2>8, <2>10, <2>11, ListingFlat
<1> HIDE DEF all, first, catalog
<1>5. Read(q, first) => Listing(more)
  <2>1. Listing(<<>>)
    BY ListingTuples
  <2> QED
    BY <1>4, <2>1
<1> HIDE DEF more
<1> QED
  BY <1>1, <1>3, <1>5, ListingAfter

FirstSnapshotSteps == Solo(<<"catalog", "live">>)

LEMMA FirstStepsAre ==
    /\ Listing(FirstSnapshotSteps)
    /\ ToSet(FirstSnapshotSteps) = {Catalog0, Live0}
<1> DEFINE names == <<"catalog", "live">>
<1>1. Listing(names) /\ ToSet(names) = {"catalog", "live"}
  BY ListingTuples
<1> HIDE DEF names
<1>2. /\ Listing(Solo(names))
      /\ ToSet(Solo(names)) = {<<n, <<>>>> : n \in {"catalog", "live"}}
  BY <1>1, OfListing
<1>3. {<<n, <<>>>> : n \in {"catalog", "live"}} = {Catalog0, Live0}
  BY DEF Catalog0, Live0
<1> QED
  BY <1>2, <1>3 DEF names, FirstSnapshotSteps

\* What a request knows of its machine is possible.
LEMMA ListsPossible ==
    ASSUME world \in DOMAIN Worlds, NEW q, MachineSeen(World.machines, q), NEW sub,
           <<"catalog", sub>> \in DOMAIN q.see, <<"live", sub>> \in DOMAIN q.see
    PROVE  LET see == View(q, sub)
           IN  /\ see["catalog"].ok => PossibleCatalog(see["catalog"].val)
               /\ see["live"].ok => PossibleSessions(see["live"].val)
<1> DEFINE machines == World.machines
           catalog == View(q, sub)["catalog"]
           live == View(q, sub)["live"]
<1>1. \A m \in machines : /\ m.catalog.ok => PossibleCatalog(m.catalog.val)
                          /\ m.live.ok => PossibleSessions(m.live.val)
  BY MachinesAssumption DEF World
<1> HIDE DEF machines
<1>2. PICK m \in machines : catalog = m.catalog
  BY CatalogSeen DEF machines
<1>3. PICK l \in machines : live = l.live
  BY LiveSeen DEF machines
<1> QED
  BY <1>1, <1>2, <1>3

LEMMA DetailListing ==
    ASSUME world \in DOMAIN Worlds, NEW q, MachineSeen(World.machines, q),
           Read(q, FirstSnapshotSteps), Listed(q).ok
    PROVE  Listing(DetailSteps(q))
<1> DEFINE Mine(id) == After(q, Of(<<"catalog", "live">>, id),
                             IF SeenRepository(View(q, <<id>>), id).ok
                             THEN Of(<<"scan", "git", "config">>, id) ELSE <<>>)
           order == InOrder(Listed(q).val.repositories)
           gone == {i \in 1..Len(order) :
                      /\ Read(q, Of(<<"catalog", "live">>, order[i].id))
                      /\ ~SeenRepository(View(q, <<order[i].id>>), order[i].id).ok}
           end == IF gone # {} THEN Min(gone) ELSE 0
           asked == IF end = 0 THEN order ELSE SubSeq(order, 1, end)
           all == [i \in DOMAIN asked |-> Mine(asked[i].id)]
<1>1. DetailSteps(q) = FlattenSeq(all)
  BY DEF DetailSteps, SelectInSeq
<1>2. ASSUME NEW id PROVE Listing(Mine(id))
  <2> DEFINE a == Of(<<"catalog", "live">>, id)
             b == IF SeenRepository(View(q, <<id>>), id).ok
                  THEN Of(<<"scan", "git", "config">>, id) ELSE <<>>
  <2>1. Listing(a)
    BY ListingTuples, OfListing
  <2>2. Listing(Of(<<"scan", "git", "config">>, id)) /\ Listing(<<>>)
    BY ListingTuples, OfListing
  <2>3. Listing(b)
    BY <2>2
  <2> HIDE DEF a, b
  <2>4. Listing(After(q, a, b))
    BY <2>1, <2>3, ListingAfter
  <2> QED
    BY <2>4 DEF a, b
<1> HIDE DEF Mine
<1>3. Listing(order)
  <2> DEFINE catalog == View(q, <<>>)["catalog"]
             live == View(q, <<>>)["live"]
             R == ListRepositories(catalog, live).val.repositories
  <2>1. Listed(q) = ListRepositories(catalog, live)
    BY DEF Listed
  <2>2. Catalog0 \in DOMAIN q.see /\ Live0 \in DOMAIN q.see
    BY FirstStepsAre DEF Read
  <2>3. /\ catalog.ok => PossibleCatalog(catalog.val)
        /\ live.ok => PossibleSessions(live.val)
    BY <2>2, ListsPossible DEF Catalog0, Live0
  <2> HIDE DEF catalog, live
  <2>4. IsFiniteSet(R)
    BY <2>1, <2>3, ListedFinite
  <2>5. order = InOrder(R)
    BY <2>1
  <2> HIDE DEF R, order
  <2> QED
    BY <2>4, <2>5, InOrderListing
<1> HIDE DEF order
<1>4. Listing(asked)
  <2>1. CASE gone = {}
    BY <1>3, <2>1
  <2>2. CASE gone # {}
    <3>1. gone \in SUBSET Nat
      OBVIOUS
    <3> HIDE DEF gone
    <3>2. Min(gone) \in gone
      BY <2>2, <3>1, MinNat
    <3>3. end \in Nat
      BY <2>2, <3>1, <3>2
    <3> HIDE DEF end
    <3>4. Listing(SubSeq(order, 1, end))
      BY <3>3, CutListing
    <3> QED
      BY <1>3, <3>4
  <2> QED
    BY <2>1, <2>2
<1> HIDE DEF asked
<1>5. Len(asked) \in Nat /\ DOMAIN asked = 1..Len(asked)
  BY <1>4 DEF Listing
<1>6. /\ all = [i \in 1..Len(asked) |-> all[i]]
      /\ \A i \in 1..Len(asked) : all[i] = Mine(asked[i].id)
  BY <1>5
<1> HIDE DEF all
<1>7. \A i \in 1..Len(asked) : Listing(all[i])
  BY <1>2, <1>6
<1>8. Listing(FlattenSeq(all))
  BY <1>5, <1>6, <1>7, ListingFlat
<1> QED
  BY <1>1, <1>8

LEMMA SnapshotListing ==
    ASSUME world \in DOMAIN Worlds, NEW q, MachineSeen(World.machines, q)
    PROVE  /\ Listing(SnapshotSteps(q))
           /\ Read(q, SnapshotSteps(q)) => Read(q, FirstSnapshotSteps)
<1> DEFINE steps == Solo(<<"sessionCatalog", "sessionLive">>) \o HostSteps(q)
           details == IF View(q, <<>>)["hostCatalog"].ok THEN DetailSteps(q) ELSE <<>>
           more == IF ~Listed(q).ok THEN <<>> ELSE After(q, steps, details)
<1>1. SnapshotSteps(q) = After(q, FirstSnapshotSteps, more)
  BY DEF SnapshotSteps, FirstSnapshotSteps
<1>2. Listing(<<>>)
  BY ListingTuples
<1>3. Listing(steps)
  <2>1. Listing(Solo(<<"sessionCatalog", "sessionLive">>))
    BY ListingTuples, OfListing
  <2> QED
    BY <2>1, HostListing, ListingConcat
<1> HIDE DEF steps
<1>4. ASSUME Read(q, FirstSnapshotSteps) PROVE Listing(more)
  <2>1. CASE ~Listed(q).ok
    BY <1>2, <2>1
  <2>2. CASE Listed(q).ok
    <3>1. Listing(DetailSteps(q))
      BY <1>4, <2>2, DetailListing
    <3>2. Listing(details)
      BY <1>2, <3>1
    <3> HIDE DEF details
    <3>3. Listing(After(q, steps, details))
      BY <1>3, <3>2, ListingAfter
    <3> QED
      BY <2>2, <3>3
  <2> QED
    BY <2>1, <2>2
<1> HIDE DEF more
<1>5. Listing(FirstSnapshotSteps)
  BY FirstStepsAre
<1> QED
  BY <1>1, <1>4, <1>5, ListingAfter

\* A request about the federation that is answered has read the list of
\* repositories, the registry and the observations.
LEMMA StatusRead ==
    ASSUME world \in DOMAIN Worlds, NEW q, MachineSeen(World.machines, q),
           q.op \in FederationOps, StepSet(q) \subseteq DOMAIN q.see
    PROVE  {Catalog0, Live0, <<"registry", <<>>>>, <<"observations", <<>>>>} \subseteq DOMAIN q.see
<1> DEFINE p == Wanted(q)
           more == Solo(<<"registry", "observations">>)
<1>1. p.op = q.op /\ p.see = q.see
  BY ViewWanted
<1>2. MachineSeen(World.machines, p)
  BY <1>1 DEF MachineSeen
<1> HIDE DEF p
<1>3. Steps(p) = After(p, SnapshotSteps(p), more)
  <2>1. /\ p.op \in SnapshotOps \union FederationOps /\ p.op \in FederationOps
        /\ p.op \notin {"list_repositories", "list_active_sessions"}
        /\ p.op \notin RepositoryOps /\ p.op # "get_repository_control_plane"
        /\ p.op \notin ItemOps
        /\ p.op \notin HostOps /\ p.op \notin StorePages /\ p.op \notin FilePages
        /\ p.op # "get_execution_history" /\ p.op # "/history" /\ p.op # "/history/session"
    BY <1>1 DEF ItemOps, RepositoryOps, HostOps, StorePages, FilePages, SnapshotOps,
                FederationOps
  <2> QED
    BY <2>1, Zenon DEF Steps
<1>4. Listing(SnapshotSteps(p)) /\ (Read(p, SnapshotSteps(p)) => Read(p, FirstSnapshotSteps))
  BY <1>2, SnapshotListing
<1>5. Listing(more) /\ ToSet(more) = {<<"registry", <<>>>>, <<"observations", <<>>>>}
  <2> DEFINE names == <<"registry", "observations">>
  <2>1. Listing(names) /\ ToSet(names) = {"registry", "observations"}
    BY ListingTuples
  <2> HIDE DEF names
  <2>2. /\ Listing(Solo(names))
        /\ ToSet(Solo(names)) = {<<n, <<>>>> : n \in {"registry", "observations"}}
    BY <2>1, OfListing
  <2> QED
    BY <2>2 DEF names
<1> HIDE DEF more
<1>6. /\ Listing(Steps(p))
      /\ Read(p, Steps(p)) => Read(p, SnapshotSteps(p)) /\ Read(p, more)
  BY <1>3, <1>4, <1>5, ListingAfter
<1>7. StepSet(q) = ToSet(Steps(p))
  BY <1>6, StepSetIs DEF Listing, p
<1>8. Read(p, FirstSnapshotSteps) /\ Read(p, more)
  BY <1>1, <1>4, <1>6, <1>7 DEF Read
<1> QED
  BY <1>1, <1>5, <1>8, FirstStepsAre DEF Read

-----------------------------------------------------------------------------
(***************************************************************************)
(* The instances of the snapshot of this Host.                             *)
(***************************************************************************)

LEMMA ResultsAre == ~Error.ok /\ \A v : Ok(v).ok /\ Ok(v).val = v
BY DEF Error, Ok

\* A repository that is found has a root whose hash is known.
LEMMA FoundRoot ==
    ASSUME NEW catalog, NEW live, catalog.ok => PossibleCatalog(catalog.val),
           live.ok => PossibleSessions(live.val), NEW id, FindRepository(catalog, live, id).ok
    PROVE  FindRepository(catalog, live, id).val.root \in DOMAIN RootRank
<1> DEFINE found == FindRepository(catalog, live, id)
           mine == {r \in catalog.val : r.id = id}
           one == CHOOSE r \in catalog.val : r.id = id
           roots == {root \in LiveRoots(live.val) : RepositoryIDForRoot(root) = id}
           chosen == CHOOSE root \in roots : TRUE
<1>1. catalog.ok
  BY DEF FindRepository, Then, Error
<1>2. CASE mine # {}
  <2>1. found = Ok(one)
    BY <1>1, <1>2 DEF FindRepository, Then
  <2>2. one \in catalog.val
    BY <1>2
  <2>3. \A r \in catalog.val : r.root \in DOMAIN RootRank
    BY <1>1 DEF PossibleCatalog
  <2> HIDE DEF found, one
  <2>4. found.val = one
    BY <2>1, ResultsAre
  <2> QED
    BY <2>2, <2>3, <2>4 DEF found
<1>3. CASE mine = {}
  <2>1. found = Then(live, LAMBDA sessions :
                   IF {root \in LiveRoots(sessions) : RepositoryIDForRoot(root) = id} = {}
                   THEN Error
                   ELSE Ok(TransientRepository(
                            CHOOSE root \in {root \in LiveRoots(sessions) :
                                                RepositoryIDForRoot(root) = id} : TRUE)))
    BY <1>1, <1>3 DEF FindRepository, Then
  <2>2. live.ok
    BY <2>1 DEF Then, Error
  <2>3. found = IF roots = {} THEN Error ELSE Ok(TransientRepository(chosen))
    BY <2>1, <2>2 DEF Then
  <2> HIDE DEF roots, chosen
  <2>4. roots # {} /\ found = Ok(TransientRepository(chosen))
    BY <2>3 DEF Error
  <2>5. chosen \in roots
    BY <2>4 DEF chosen
  <2>6. chosen \in DOMAIN RootRank
    BY <2>2, <2>5 DEF roots, LiveRoots, PossibleSessions
  <2> HIDE DEF found
  <2>7. found.val = TransientRepository(chosen)
    BY <2>4, ResultsAre
  <2>8. TransientRepository(chosen).root = chosen
    BY DEF TransientRepository
  <2> QED
    BY <2>6, <2>7, <2>8 DEF found
<1> QED
  BY <1>2, <1>3

\* The detail of a repository is about one whose root has a hash.
LEMMA DetailRoot ==
    ASSUME world \in DOMAIN Worlds, NEW q, MachineSeen(World.machines, q), NEW id,
           Detail(q, id).detail.ok
    PROVE  Detail(q, id).detail.val.repository.root \in DOMAIN RootRank
<1> DEFINE steps == Of(<<"catalog", "live", "git">>, id)
           see == View(q, <<id>>)
           catalog == see["catalog"]
           live == see["live"]
           scan == see["scan"]
           source == Source(q, <<"git", <<id>>>>)
           answer == GetRepository(catalog, live, scan, source, id)
           found == FindRepository(catalog, live, id)
<1>1. Read(q, steps) /\ Detail(q, id).detail = answer
  <2>1. [detail |-> Error].detail = Error /\ ~Error.ok
    BY DEF Error
  <2> QED
    BY <2>1 DEF Detail
<1>2. <<"catalog", <<id>>>> \in DOMAIN q.see /\ <<"live", <<id>>>> \in DOMAIN q.see
  <2> DEFINE names == <<"catalog", "live", "git">>
  <2>1. Listing(names) /\ ToSet(names) = {"catalog", "live", "git"}
    BY ListingTuples
  <2> HIDE DEF names
  <2>2. ToSet(Of(names, id)) = {<<n, <<id>>>> : n \in {"catalog", "live", "git"}}
    BY <2>1, OfListing
  <2>3. ToSet(Of(names, id)) \subseteq DOMAIN q.see
    BY <1>1 DEF Read, names
  <2> QED
    BY <2>2, <2>3
<1>3. /\ catalog.ok => PossibleCatalog(catalog.val)
      /\ live.ok => PossibleSessions(live.val)
  BY <1>2, ListsPossible
<1> HIDE DEF catalog, live, scan, source, steps
<1>4. found.ok /\ answer.val.repository.root = found.val.root
  <2> DEFINE summary == RepositorySummary(found.val)
             shown == IF ~scan.ok THEN summary
                      ELSE [summary EXCEPT !.agents = AgentsAt(scan.val, found.val.root),
                                           !.active = AgentsAt(scan.val, found.val.root) # {}]
  <2>1. found.ok
    BY <1>1, ResultsAre DEF GetRepository, Then
  <2>2. answer = Ok([warned |-> ~scan.ok \/ ~source.ok, source |-> source,
                     repository |-> shown])
    BY <2>1 DEF GetRepository, Then
  <2>3. shown.root = summary.root /\ summary.root = found.val.root
    BY DEF RepositorySummary
  <2> HIDE DEF answer, shown
  <2>4. answer.val.repository = shown
    BY <2>2, ResultsAre
  <2> QED
    BY <2>1, <2>3, <2>4
<1>5. found.val.root \in DOMAIN RootRank
  BY <1>3, <1>4, FoundRoot
<1> QED
  BY <1>1, <1>4, <1>5

LEMMA BuiltInstance ==
    ASSUME NEW hostID, NEW detail, NEW sessions, NEW dir,
           BuildInstance(hostID, detail, sessions, dir).ok
    PROVE  LET i == BuildInstance(hostID, detail, sessions, dir).val
           IN  /\ i.root = detail.repository.root /\ i.id = <<hostID, i.root>>
               /\ i.source = detail.repository.id
<1> DEFINE built == BuildInstance(hostID, detail, sessions, dir)
           repository == detail.repository
           id == RepositoryInstanceID(hostID, repository.root)
           remote == IF detail.source.ok THEN detail.source.val.git.remote ELSE NoRemote
           fingerprint == Fingerprint(ExplicitProjectID(dir), repository.name, remote,
                              IF SupportsGitHub(remote) THEN "github" ELSE "",
                              ForgeRepository(remote))
           worktrees == IF detail.source.ok THEN ToSet(detail.source.val.git.worktrees) ELSE {}
           i == [id |-> id.val, source |-> repository.id, name |-> repository.name,
                 root |-> repository.root, active |-> repository.active,
                 agents |-> repository.agents, fingerprint |-> fingerprint,
                 sessions |-> {s \in sessions : s.repositoryID = repository.id},
                 worktrees |-> worktrees, warned |-> detail.warned]
<1>1. built = IF ~id.ok THEN Error ELSE Ok(i)
  BY DEF BuildInstance
<1>2. i.root = repository.root /\ i.id = id.val /\ i.source = repository.id
  OBVIOUS
<1>3. id.ok => id.val = <<hostID, repository.root>>
  BY ResultsAre DEF RepositoryInstanceID
<1> HIDE DEF i, id, repository
<1>4. id.ok /\ built = Ok(i)
  BY <1>1, ResultsAre
<1> HIDE DEF built
<1>5. built.val = i
  BY <1>4, ResultsAre
<1> QED
  BY <1>2, <1>3, <1>4, <1>5 DEF built, repository

\* What a snapshot of this Host is made of.
BuiltDetails(q, hostID) ==
    LET sessions == ListActiveSessions(View(q, <<>>)["sessionCatalog"],
                                       View(q, <<>>)["sessionLive"])
        known == IF sessions.ok THEN sessions.val ELSE {}
        Built(d) == Then(d.detail, LAMBDA detail : BuildInstance(hostID, detail, known, d.dir))
    IN  {Built(Detail(q, r.id)) : r \in Listed(q).val.repositories}

LEMMA SnapshotParts ==
    ASSUME NEW q, NEW hostID, SnapshotAnswer(q, hostID).ok
    PROVE  LET own == SnapshotAnswer(q, hostID).val
               instances == {b.val : b \in BuiltDetails(q, hostID)}
           IN  /\ Listed(q).ok /\ Error \notin BuiltDetails(q, hostID)
               /\ \A a, b \in instances : a # b => a.id # b.id
               /\ ValidSnapshot(own) /\ own.hostID = hostID /\ own.observed = q.at + 1
               /\ HostAnswer(q).ok
               /\ own.controlPlane = With(HostAnswer(q).val, "host", Hostname)
               /\ own.instances =
                     Sorted(instances, LAMBDA a, b : RootRank[a.root] < RootRank[b.root])
<1> DEFINE list == Listed(q)
           sessions == ListActiveSessions(View(q, <<>>)["sessionCatalog"],
                                          View(q, <<>>)["sessionLive"])
           known == IF sessions.ok THEN sessions.val ELSE {}
           host == HostAnswer(q)
           ids == {r.id : r \in list.val.repositories}
           details == [id \in ids |-> Detail(q, id)]
           Built(d) == Then(d.detail, LAMBDA detail : BuildInstance(hostID, detail, known, d.dir))
           built == {Built(details[r.id]) : r \in list.val.repositories}
           instances == {b.val : b \in built}
           Snapshot(summary) ==
              [version |-> 2, hostID |-> hostID, hostname |-> Hostname, observed |-> q.at + 1,
               controlPlane |-> With(summary, "host", Hostname),
               warned |-> list.val.warned \/ ~sessions.ok,
               instances |-> Sorted(instances, LAMBDA a, b : RootRank[a.root] < RootRank[b.root])]
           Assembled(summary) == IF \E a, b \in instances : a # b /\ a.id = b.id THEN Error
                                 ELSE IfValid(Snapshot(summary))
           Published == IF Error \in built THEN Error
                        ELSE Then(host, LAMBDA summary : Assembled(summary))
           answer == SnapshotAnswer(q, hostID)
<1>1. answer = BuildSnapshot(hostID, q.at + 1, list, sessions, host, details)
  BY DEF SnapshotAnswer
<1>2. BuildSnapshot(hostID, q.at + 1, list, sessions, host, details) =
         Then(list, LAMBDA listed :
            LET all == {Built(details[r.id]) : r \in listed.repositories}
            IN  IF Error \in all THEN Error
                ELSE Then(host, LAMBDA summary :
                        IF \E a, b \in {b.val : b \in all} : a # b /\ a.id = b.id THEN Error
                        ELSE IfValid([version |-> 2, hostID |-> hostID, hostname |-> Hostname,
                                observed |-> q.at + 1,
                                controlPlane |-> With(summary, "host", Hostname),
                                warned |-> list.val.warned \/ ~sessions.ok,
                                instances |-> Sorted({b.val : b \in all},
                                   LAMBDA a, b : RootRank[a.root] < RootRank[b.root])])))
  BY Zenon DEF BuildSnapshot
<1> HIDE DEF sessions, host, known, details
<1>3. list.ok /\ answer = Published
  <2>1. list.ok
    BY <1>1, <1>2, ResultsAre DEF Then
  <2>2. answer = Published
    BY <1>1, <1>2, <2>1, Zenon DEF Then
  <2> QED
    BY <2>1, <2>2
<1> HIDE DEF answer
<1>4. Error \notin built /\ answer = Then(host, LAMBDA summary : Assembled(summary))
  BY <1>3, ResultsAre DEF answer
<1> HIDE DEF Assembled
<1>5. host.ok
  <2>1. ~host.ok => answer = Error
    BY <1>4, Zenon DEF Then
  <2> QED
    BY <2>1, ResultsAre DEF answer
<1>6. answer = Assembled(host.val)
  BY <1>4, ResultsAre DEF Then, answer
<1>7. /\ \A a, b \in instances : a # b => a.id # b.id
      /\ ValidSnapshot(Snapshot(host.val)) /\ answer = Ok(Snapshot(host.val))
  <2> HIDE DEF Snapshot, built
  <2>1. Assembled(host.val) = IF \E a, b \in instances : a # b /\ a.id = b.id THEN Error
                              ELSE IfValid(Snapshot(host.val))
    BY DEF Assembled
  <2>2. /\ \A a, b \in instances : a # b => a.id # b.id
        /\ answer = IfValid(Snapshot(host.val))
    BY <1>6, <2>1, ResultsAre DEF answer
  <2> QED
    BY <2>2, ResultsAre DEF IfValid, answer
<1>8. LET s == Snapshot(host.val)
      IN  /\ s.hostID = hostID /\ s.observed = q.at + 1
          /\ s.controlPlane = With(host.val, "host", Hostname)
          /\ s.instances = Sorted(instances, LAMBDA a, b : RootRank[a.root] < RootRank[b.root])
  OBVIOUS
<1>9. built = BuiltDetails(q, hostID)
  <2> DEFINE listed == list.val.repositories
  <2>1. \A id \in ids : details[id] = Detail(q, id)
    BY Zenon DEF details
  <2>2. \A r \in listed : r.id \in ids
    OBVIOUS
  <2> HIDE DEF ids
  <2>3. \A r \in listed : details[r.id] = Detail(q, r.id)
    BY <2>1, <2>2
  <2> HIDE DEF listed, Built
  <2>4. built = {Built(Detail(q, r.id)) : r \in listed}
    BY <2>3 DEF listed
  <2> QED
    BY <2>4, Zenon DEF BuiltDetails, sessions, known, listed, Built
<1>10. answer.val = Snapshot(host.val)
  BY <1>7, ResultsAre
<1> HIDE DEF Snapshot, built, list
<1>11. instances = {b.val : b \in BuiltDetails(q, hostID)}
  BY <1>9
<1> HIDE DEF instances
<1> QED
  BY <1>3, <1>4, <1>7, <1>8, <1>9, <1>10, <1>11, <1>5 DEF answer, list, host

\* What is built for a repository has a root whose hash is known, and its ID.
LEMMA BuiltRoot ==
    ASSUME world \in DOMAIN Worlds, NEW q, MachineSeen(World.machines, q), NEW hostID,
           NEW b \in BuiltDetails(q, hostID), b.ok
    PROVE  b.val.root \in DOMAIN RootRank /\ b.val.id = <<hostID, b.val.root>>
<1> DEFINE sessions == ListActiveSessions(View(q, <<>>)["sessionCatalog"],
                                          View(q, <<>>)["sessionLive"])
           known == IF sessions.ok THEN sessions.val ELSE {}
           Built(d) == Then(d.detail, LAMBDA detail : BuildInstance(hostID, detail, known, d.dir))
<1>1. \E r \in Listed(q).val.repositories : b = Built(Detail(q, r.id))
  BY Zenon DEF BuiltDetails
<1>2. PICK r \in Listed(q).val.repositories : b = Built(Detail(q, r.id))
  BY <1>1
<1> DEFINE d == Detail(q, r.id)
           detail == d.detail.val
           dir == d.dir
<1>3. b = Then(d.detail, LAMBDA x : BuildInstance(hostID, x, known, dir))
  BY <1>2, Zenon
<1> HIDE DEF sessions, known, Built
<1>4. d.detail.ok
  <2>1. ~d.detail.ok => b = Error
    BY <1>3, Zenon DEF Then
  <2> QED
    BY <2>1, ResultsAre
<1>5. b = BuildInstance(hostID, detail, known, dir)
  BY <1>3, <1>4, Zenon DEF Then
<1>6. detail.repository.root \in DOMAIN RootRank
  BY <1>4, DetailRoot
<1> HIDE DEF d, detail, dir
<1>7. b.val.root = detail.repository.root /\ b.val.id = <<hostID, b.val.root>>
  BY <1>5, BuiltInstance
<1> QED
  BY <1>6, <1>7 DEF d, detail, dir

\* The snapshot of this Host is one a peer accepts.
LEMMA OwnSnapshot ==
    ASSUME world \in DOMAIN Worlds, NEW q, MachineSeen(World.machines, q),
           Catalog0 \in DOMAIN q.see, Live0 \in DOMAIN q.see, q.at \in Nat,
           NEW hostID, SnapshotAnswer(q, hostID).ok
    PROVE  LET own == SnapshotAnswer(q, hostID).val
           IN  /\ PossibleSnapshot(own)
               /\ ToSet(own.instances) = {b.val : b \in BuiltDetails(q, hostID)}
<1> DEFINE own == SnapshotAnswer(q, hostID).val
           R == Listed(q).val.repositories
           B == BuiltDetails(q, hostID)
           I == {b.val : b \in B}
           O == {p \in I \X I : RootRank[p[1].root] < RootRank[p[2].root]}
           s == [i \in 1..Cardinality(I) |->
                    CHOOSE x \in I : Cardinality({y \in I :
                       RootRank[y.root] < RootRank[x.root]}) = i - 1]
<1>1. /\ Listed(q).ok /\ Error \notin B
      /\ \A a, b \in I : a # b => a.id # b.id
      /\ ValidSnapshot(own) /\ own.observed = q.at + 1
  BY SnapshotParts
<1>2. own.instances = SubSeq(s, 1, Cardinality(I))
  BY SnapshotParts DEF Sorted
<1> HIDE DEF own
<1>3. IsFiniteSet(I)
  <2> DEFINE sessions == ListActiveSessions(View(q, <<>>)["sessionCatalog"],
                                            View(q, <<>>)["sessionLive"])
             known == IF sessions.ok THEN sessions.val ELSE {}
             Built(d) == Then(d.detail, LAMBDA detail :
                                 BuildInstance(hostID, detail, known, d.dir))
             f == [r \in R |-> Built(Detail(q, r.id))]
             g == [b \in B |-> b.val]
  <2>1. IsFiniteSet(R)
    <3> DEFINE catalog == View(q, <<>>)["catalog"]
               live == View(q, <<>>)["live"]
    <3>1. Listed(q) = ListRepositories(catalog, live)
      BY DEF Listed
    <3>2. /\ catalog.ok => PossibleCatalog(catalog.val)
          /\ live.ok => PossibleSessions(live.val)
      BY ListsPossible DEF Catalog0, Live0
    <3> HIDE DEF catalog, live
    <3>3. IsFiniteSet(ListRepositories(catalog, live).val.repositories)
      BY <1>1, <3>1, <3>2, ListedFinite
    <3> QED
      BY <3>1, <3>3
  <2>2. B = {Built(Detail(q, r.id)) : r \in R}
    BY Zenon DEF BuiltDetails
  <2> HIDE DEF R, Built, B
  <2>3. \A r \in R : f[r] = Built(Detail(q, r.id))
    OBVIOUS
  <2> HIDE DEF f
  <2>4. B = {f[r] : r \in R}
    BY <2>2, <2>3
  <2>5. IsFiniteSet(B)
    BY <2>1, <2>4, FiniteImage
  <2>6. I = {g[b] : b \in B}
    OBVIOUS
  <2> HIDE DEF I, g
  <2> QED
    BY <2>5, <2>6, FiniteImage
<1>4. \A i \in I : i.root \in DOMAIN RootRank /\ i.id = <<hostID, i.root>>
  <2>1. ASSUME NEW b \in B
        PROVE  b.val.root \in DOMAIN RootRank /\ b.val.id = <<hostID, b.val.root>>
    <3>1. b.ok
      <4> DEFINE sessions == ListActiveSessions(View(q, <<>>)["sessionCatalog"],
                                            View(q, <<>>)["sessionLive"])
                 known == IF sessions.ok THEN sessions.val ELSE {}
                 Built(d) == Then(d.detail, LAMBDA detail :
                                     BuildInstance(hostID, detail, known, d.dir))
      <4>1. \E r \in R : b = Built(Detail(q, r.id))
        BY Zenon DEF BuiltDetails
      <4>2. PICK r \in R : b = Built(Detail(q, r.id))
        BY <4>1
      <4> DEFINE d == Detail(q, r.id)
                 detail == d.detail.val
                 dir == d.dir
      <4>3. b # Error
        BY <1>1
      <4>4. b = Then(d.detail, LAMBDA x : BuildInstance(hostID, x, known, dir))
        BY <4>2, Zenon
      <4>5. d.detail.ok
        <5>1. ~d.detail.ok => b = Error
          BY <4>4, Zenon DEF Then
        <5> QED
          BY <4>3, <5>1
      <4>6. b = BuildInstance(hostID, detail, known, dir)
        BY <4>4, <4>5, Zenon DEF Then
      <4> HIDE DEF d, detail, dir, known, sessions
      <4> QED
        BY <4>3, <4>6, ResultsAre DEF BuildInstance
    <3> HIDE DEF B
    <3> QED
      BY <3>1, BuiltRoot DEF B
  <2> HIDE DEF B
  <2> QED
    BY <2>1
<1> HIDE DEF B, I
<1>5. RootRank \in [DOMAIN RootRank -> Nat] /\ IsInjective(RootRank)
  BY RankAssumption
<1>6. \A x, y \in I : x # y => RootRank[x.root] # RootRank[y.root]
  BY <1>1, <1>4, <1>5 DEF IsInjective
<1>7. \A x \in I : RootRank[x.root] \in Nat
  BY <1>4, <1>5
<1>8. Orders(O, I)
  BY <1>6, <1>7 DEF Orders
<1>9. \A x \in I : Below(O, I, x) = {y \in I : RootRank[y.root] < RootRank[x.root]}
  BY DEF Below
<1> HIDE DEF O
<1>10. \A i \in 1..Cardinality(I) : s[i] \in I /\ Cardinality(Below(O, I, s[i])) = i - 1
  <2> SUFFICES ASSUME NEW i \in 1..Cardinality(I)
               PROVE  s[i] \in I /\ Cardinality(Below(O, I, s[i])) = i - 1
    OBVIOUS
  <2>1. \E x \in I : Cardinality(Below(O, I, x)) = i - 1
    BY <1>3, <1>8, Ranked
  <2>2. \E x \in I : Cardinality({y \in I : RootRank[y.root] < RootRank[x.root]}) = i - 1
    BY <1>9, <2>1
  <2>3. s[i] \in I /\ Cardinality({y \in I : RootRank[y.root] < RootRank[s[i].root]}) = i - 1
    BY <2>2
  <2> HIDE DEF s
  <2> QED
    BY <1>9, <2>3
<1> HIDE DEF s
<1> DEFINE t == SubSeq(s, 1, Cardinality(I))
<1>11. t \in Seq(I) /\ ToSet(t) = I
  BY <1>3, <1>8, <1>10, InPlace
<1> HIDE DEF t
<1>12. own.instances \in Seq(ToSet(own.instances))
  BY <1>2, <1>11 DEF t
<1>13. \A i \in ToSet(own.instances) : i.root \in DOMAIN RootRank
  BY <1>2, <1>4, <1>11 DEF t
<1>14. own.observed \in Nat
  BY <1>1
<1>15. PossibleSnapshot(own)
  BY <1>1, <1>12, <1>13, <1>14 DEF PossibleSnapshot
<1>16. ToSet(own.instances) = I
  BY <1>2, <1>11 DEF t
<1> QED
  BY <1>15, <1>16 DEF own, I, B

-----------------------------------------------------------------------------
(***************************************************************************)
(* Projections, and why they fail.                                         *)
(***************************************************************************)

\* What the operations of the federation answer.
LEMMA AnswerFederation ==
    ASSUME NEW q, NEW hostID, q.op \in FederationOps
    PROVE  LET see == View(q, <<>>)
               projection == ProjectionAnswer(Made(q), hostID)
           IN  /\ projection = BuildProjection(SnapshotAnswer(Made(q), hostID), see["registry"],
                                                see["observations"])
               /\ projection.ok => Answer(Made(q), hostID) = Selected(Made(q), projection.val)
               /\ ~projection.ok => Answer(Made(q), hostID) = Error
<1> DEFINE p == Made(q)
           see == View(q, <<>>)
<1>1. p.op \in FederationOps /\ View(p, <<>>) = see
  BY ViewWanted
<1> HIDE DEF p
<1>2. /\ p.op # "list_repositories" /\ p.op # "list_active_sessions" /\ p.op # "get_repository"
      /\ p.op # "list_worktrees" /\ p.op # "list_work_items" /\ p.op # "get_work_item"
      /\ p.op # "get_evidence" /\ p.op # "get_acceptance"
      /\ p.op # "get_repository_control_plane"
      /\ p.op \notin HostOps /\ p.op # "/project" /\ p.op # "/project/spec"
      /\ p.op # "/project/evidence" /\ p.op # "/project/acceptance"
      /\ p.op # "get_execution_history" /\ p.op # "/history" /\ p.op # "/history/session"
      /\ p.op \notin SnapshotOps
  BY <1>1 DEF HostOps, SnapshotOps, FederationOps
<1>3. Answer(p, hostID) = Then(ProjectionAnswer(p, hostID), LAMBDA found : Selected(p, found))
  BY <1>1, <1>2, Zenon DEF Answer
<1>4. ProjectionAnswer(p, hostID) = BuildProjection(SnapshotAnswer(p, hostID), see["registry"],
                                                    see["observations"])
  BY <1>1, Zenon DEF ProjectionAnswer
<1>5. LET projection == ProjectionAnswer(p, hostID)
      IN  /\ projection.ok => Answer(p, hostID) = Selected(p, projection.val)
          /\ ~projection.ok => Answer(p, hostID) = Error
  BY <1>3, Zenon DEF Then
<1> QED
  BY <1>4, <1>5 DEF p

\* get_federation_status answers the projection.
LEMMA AnswerStatus ==
    ASSUME NEW q, NEW hostID, q.op = "get_federation_status"
    PROVE  LET projection == ProjectionAnswer(Made(q), hostID)
           IN  /\ Answer(Made(q), hostID).ok <=> projection.ok
               /\ projection.ok => Answer(Made(q), hostID).val = projection.val
<1> DEFINE p == Made(q)
           projection == ProjectionAnswer(p, hostID)
<1>1. p.op = "get_federation_status"
  BY ViewWanted
<1>2. q.op \in FederationOps
  BY DEF FederationOps
<1>3. /\ projection.ok => Answer(p, hostID) = Selected(p, projection.val)
      /\ ~projection.ok => Answer(p, hostID) = Error
  BY <1>2, AnswerFederation
<1> HIDE DEF p
<1>4. \A found : Selected(p, found) = Ok(found)
  BY <1>1, Zenon DEF Selected
<1> HIDE DEF projection
<1>5. CASE projection.ok
  <2>1. Answer(p, hostID) = Ok(projection.val)
    BY <1>3, <1>4, <1>5
  <2> QED
    BY <1>5, <2>1, ResultsAre DEF projection, p
<1>6. CASE ~projection.ok
  <2>1. Answer(p, hostID) = Error
    BY <1>3, <1>6
  <2> QED
    BY <1>6, <2>1, ResultsAre DEF projection, p
<1> QED
  BY <1>5, <1>6

\* The snapshots a projection is made of, and the lines of its Hosts.
AllSnapshots(own, registry, observations) ==
    <<own>> \o FlattenSeq(PeerSnapshots(registry, observations))

PeerStatus(registry, observations) ==
    [i \in DOMAIN registry |->
        PeerHostStatus(registry[i], Observation(observations, registry[i].name).val.snapshots)]

AllObserved(registry, observations) ==
    \A i \in DOMAIN registry : Observation(observations, registry[i].name).ok

LEMMA ProjectionParts ==
    ASSUME NEW own, NEW registry, NEW observations
    PROVE  LET p == BuildProjection(own, registry, observations)
               all == AllSnapshots(own.val, registry.val, observations)
           IN  /\ p.ok <=> /\ own.ok /\ ValidSnapshot(own.val) /\ registry.ok
                           /\ AllObserved(registry.val, observations)
                           /\ Aggregate(all).ok
               /\ p.ok => /\ p.val.federation = Aggregate(all).val
                          /\ p.val.hosts = <<LocalHostStatus(own.val)>>
                                           \o PeerStatus(registry.val, observations)
<1> DEFINE p == BuildProjection(own, registry, observations)
           here == own.val
           peers == registry.val
           all == AllSnapshots(here, peers, observations)
           hosts == <<LocalHostStatus(here)>> \o PeerStatus(peers, observations)
           ProjectionOf(federation) == [hosts |-> hosts, federation |-> federation]
           Seen(x) == Observation(observations, x.name).val.snapshots
<1>1. p = Then(own, LAMBDA s : Then(IfValid(s), LAMBDA h : Then(registry, LAMBDA ps :
             IF \E i \in DOMAIN ps : ~Observation(observations, ps[i].name).ok THEN Error
             ELSE Then(Aggregate(<<h>> \o FlattenSeq([i \in DOMAIN ps |-> Seen(ps[i])])),
                       LAMBDA federation :
                          Ok([hosts |-> <<LocalHostStatus(h)>>
                                 \o [i \in DOMAIN ps |-> PeerHostStatus(ps[i], Seen(ps[i]))],
                              federation |-> federation])))))
  BY Zenon DEF BuildProjection
<1>2. ~own.ok => p = Error
  BY <1>1, Zenon DEF Then
<1>3. own.ok => p = Then(IfValid(here), LAMBDA h : Then(registry, LAMBDA ps :
             IF \E i \in DOMAIN ps : ~Observation(observations, ps[i].name).ok THEN Error
             ELSE Then(Aggregate(<<h>> \o FlattenSeq([i \in DOMAIN ps |-> Seen(ps[i])])),
                       LAMBDA federation :
                          Ok([hosts |-> <<LocalHostStatus(h)>>
                                 \o [i \in DOMAIN ps |-> PeerHostStatus(ps[i], Seen(ps[i]))],
                              federation |-> federation]))))
  BY <1>1, Zenon DEF Then
<1>4. own.ok /\ ~ValidSnapshot(here) => p = Error
  <2>1. ~ValidSnapshot(here) => ~IfValid(here).ok
    BY ResultsAre DEF IfValid
  <2> QED
    BY <1>3, <2>1, Zenon DEF Then
<1>5. own.ok /\ ValidSnapshot(here) => p = Then(registry, LAMBDA ps :
             IF \E i \in DOMAIN ps : ~Observation(observations, ps[i].name).ok THEN Error
             ELSE Then(Aggregate(<<here>> \o FlattenSeq([i \in DOMAIN ps |-> Seen(ps[i])])),
                       LAMBDA federation :
                          Ok([hosts |-> <<LocalHostStatus(here)>>
                                 \o [i \in DOMAIN ps |-> PeerHostStatus(ps[i], Seen(ps[i]))],
                              federation |-> federation])))
  <2>1. ValidSnapshot(here) => IfValid(here).ok /\ IfValid(here).val = here
    BY ResultsAre DEF IfValid
  <2> QED
    BY <1>3, <2>1, Zenon DEF Then
<1>6. own.ok /\ ValidSnapshot(here) /\ ~registry.ok => p = Error
  BY <1>5, Zenon DEF Then
<1>7. own.ok /\ ValidSnapshot(here) /\ registry.ok =>
         p = IF \E i \in DOMAIN peers : ~Observation(observations, peers[i].name).ok THEN Error
             ELSE Then(Aggregate(all), LAMBDA federation : Ok(ProjectionOf(federation)))
  BY <1>5, Zenon DEF Then, AllSnapshots, PeerSnapshots, PeerStatus
<1> HIDE DEF p, all, hosts
<1>8. own.ok /\ ValidSnapshot(here) /\ registry.ok /\ ~AllObserved(peers, observations)
         => p = Error
  BY <1>7, Zenon DEF AllObserved
<1>9. own.ok /\ ValidSnapshot(here) /\ registry.ok /\ AllObserved(peers, observations)
         => p = Then(Aggregate(all), LAMBDA federation : Ok(ProjectionOf(federation)))
  BY <1>7, Zenon DEF AllObserved
<1> DEFINE fine == /\ own.ok /\ ValidSnapshot(here) /\ registry.ok
                   /\ AllObserved(peers, observations)
<1>10. CASE ~fine
  <2>1. p = Error
    BY <1>2, <1>4, <1>6, <1>8, <1>10, Zenon
  <2> QED
    BY <1>10, <2>1, ResultsAre DEF p, all
<1>11. CASE fine /\ ~Aggregate(all).ok
  <2>1. p = Error
    BY <1>9, <1>11, Zenon DEF Then
  <2> QED
    BY <1>11, <2>1, ResultsAre DEF p, all
<1>12. CASE fine /\ Aggregate(all).ok
  <2> DEFINE federation == Aggregate(all).val
  <2>1. p = Ok(ProjectionOf(federation))
    BY <1>9, <1>12, Zenon DEF Then
  <2> HIDE DEF federation
  <2>2. ProjectionOf(federation).hosts = hosts /\ ProjectionOf(federation).federation = federation
    OBVIOUS
  <2> HIDE DEF ProjectionOf
  <2>3. p.ok /\ p.val = ProjectionOf(federation)
    BY <2>1, ResultsAre
  <2> QED
    BY <1>12, <2>2, <2>3 DEF p, all, federation, hosts
<1> QED
  BY <1>10, <1>11, <1>12

Registry0 == <<"registry", <<>>>>
Observations0 == <<"observations", <<>>>>

\* A registry and observations that were read are those of states of the machine.
LEMMA PeersRead ==
    ASSUME world \in DOMAIN Worlds, NEW q, MachineSeen(World.machines, q),
           Registry0 \in DOMAIN q.see, Observations0 \in DOMAIN q.see
    PROVE  LET registry == View(q, <<>>)["registry"]
               observations == View(q, <<>>)["observations"]
           IN  /\ registry.ok => registry.val \in Seq(ToSet(registry.val))
               /\ \A name : Observation(observations, name).ok =>
                     PossibleSnapshots(Observation(observations, name).val.snapshots)
<1> DEFINE registry == View(q, <<>>)["registry"]
           observations == View(q, <<>>)["observations"]
<1>1. registry = q.see[Registry0] /\ observations = q.see[Observations0]
  BY ViewAt DEF Registry0, Observations0
<1>2. PICK m \in World.machines : SeenIn(q.see[Registry0], Registry0, m)
  BY DEF MachineSeen
<1>3. PICK o \in World.machines : SeenIn(q.see[Observations0], Observations0, o)
  BY DEF MachineSeen
<1>4. /\ ~IsGit(Registry0) /\ ~IsGit(Observations0)
      /\ Registry0[1] = "registry" /\ Observations0[1] = "observations"
  BY DEF IsGit, Registry0, Observations0
<1>5. Found(m, "registry") = m.registry /\ Found(o, "observations") = o.observations
  BY DEF Found
<1>6. registry = m.registry /\ observations = o.observations
  BY <1>1, <1>2, <1>3, <1>4, <1>5 DEF SeenIn
<1>7. m.registry.ok => m.registry.val \in Seq(ToSet(m.registry.val))
  BY MachinesAssumption DEF World
<1> QED
  BY <1>6, <1>7, ObservationPossible

\* The snapshots a projection is made of.
LEMMA SnapshotsPossible ==
    ASSUME NEW own, PossibleSnapshot(own), NEW registry, registry \in Seq(ToSet(registry)),
           NEW observations,
           \A i \in DOMAIN registry :
              PossibleSnapshots(Observation(observations, registry[i].name).val.snapshots)
    PROVE  LET all == AllSnapshots(own, registry, observations)
           IN  /\ Listing(all)
               /\ ToSet(all) = {own} \union
                     UNION {ToSet(Observation(observations, p.name).val.snapshots) :
                               p \in ToSet(registry)}
               /\ \A s \in ToSet(all) : PossibleSnapshot(s)
<1> DEFINE parts == PeerSnapshots(registry, observations)
           seen == FlattenSeq(parts)
           one == <<own>>
           all == one \o seen
           OfPeer(p) == ToSet(Observation(observations, p.name).val.snapshots)
<1>1. Listing(seen) /\ ToSet(seen) = UNION {ToSet(parts[i]) : i \in DOMAIN registry}
  BY PeersSeen DEF Listing
<1>2. \A i \in DOMAIN registry :
         parts[i] = Observation(observations, registry[i].name).val.snapshots
  BY DEF PeerSnapshots
<1>3. \A i \in DOMAIN registry : \A s \in ToSet(parts[i]) : PossibleSnapshot(s)
  BY <1>2 DEF PossibleSnapshots
<1>4. ToSet(registry) = {registry[i] : i \in DOMAIN registry}
  BY DEF ToSet
<1>5. UNION {ToSet(parts[i]) : i \in DOMAIN registry} = UNION {OfPeer(p) : p \in ToSet(registry)}
  <2>1. \A i \in DOMAIN registry : ToSet(parts[i]) = OfPeer(registry[i])
    BY <1>2
  <2> HIDE DEF parts, OfPeer
  <2> QED
    BY <1>4, <2>1
<1> HIDE DEF seen
<1>6. Listing(one) /\ ToSet(one) = {own}
  BY ListingTuples, ToSetTuples
<1> HIDE DEF one
<1>7. Listing(all) /\ ToSet(all) = ToSet(one) \union ToSet(seen)
  BY <1>1, <1>6, ListingConcat
<1> HIDE DEF all
<1>8. \A s \in ToSet(all) : PossibleSnapshot(s)
  BY <1>1, <1>3, <1>6, <1>7
<1>9. all = AllSnapshots(own, registry, observations)
  BY DEF all, one, seen, AllSnapshots
<1> QED
  BY <1>1, <1>5, <1>6, <1>7, <1>8, <1>9

\* What a projection is made of, when this Host and its peers can be read.
LEMMA StatusSnapshots ==
    ASSUME world \in DOMAIN Worlds, NEW q, MachineSeen(World.machines, q),
           q.op \in FederationOps, StepSet(q) \subseteq DOMAIN q.see, q.at \in Nat,
           NEW hostID, SnapshotAnswer(Made(q), hostID).ok, View(q, <<>>)["registry"].ok,
           AllObserved(View(q, <<>>)["registry"].val, View(q, <<>>)["observations"])
    PROVE  LET own == SnapshotAnswer(Made(q), hostID).val
               registry == View(q, <<>>)["registry"].val
               observations == View(q, <<>>)["observations"]
               all == AllSnapshots(own, registry, observations)
           IN  /\ registry \in Seq(ToSet(registry))
               /\ PossibleSnapshot(own)
               /\ Listing(all)
               /\ ToSet(all) = {own} \union
                     UNION {ToSet(Observation(observations, p.name).val.snapshots) :
                               p \in ToSet(registry)}
               /\ \A s \in ToSet(all) : PossibleSnapshot(s)
<1> DEFINE own == SnapshotAnswer(Made(q), hostID).val
           registry == View(q, <<>>)["registry"].val
           observations == View(q, <<>>)["observations"]
<1>1. {Catalog0, Live0, Registry0, Observations0} \subseteq DOMAIN q.see
  BY StatusRead DEF Registry0, Observations0
<1>2. PossibleSnapshot(own)
  <2> DEFINE p == Made(q)
  <2>1. p.see = q.see /\ p.at = q.at
    BY DEF Made
  <2> HIDE DEF p
  <2>2. MachineSeen(World.machines, p)
    BY <2>1 DEF MachineSeen
  <2>3. SnapshotAnswer(p, hostID).ok
    BY DEF p
  <2>4. PossibleSnapshot(SnapshotAnswer(p, hostID).val)
    BY <1>1, <2>1, <2>2, <2>3, OwnSnapshot
  <2> QED
    BY <2>4 DEF p
<1>3. /\ registry \in Seq(ToSet(registry))
      /\ \A name : Observation(observations, name).ok =>
            PossibleSnapshots(Observation(observations, name).val.snapshots)
  BY <1>1, PeersRead
<1>4. \A i \in DOMAIN registry : Observation(observations, registry[i].name).ok
  BY DEF AllObserved
<1> HIDE DEF own, registry, observations
<1>5. \A i \in DOMAIN registry :
         PossibleSnapshots(Observation(observations, registry[i].name).val.snapshots)
  BY <1>3, <1>4
<1>6. LET all == AllSnapshots(own, registry, observations)
      IN  /\ Listing(all)
          /\ ToSet(all) = {own} \union
                UNION {ToSet(Observation(observations, p.name).val.snapshots) :
                          p \in ToSet(registry)}
          /\ \A s \in ToSet(all) : PossibleSnapshot(s)
  BY <1>2, <1>3, <1>5, SnapshotsPossible
<1> QED
  BY <1>2, <1>3, <1>6 DEF own, registry, observations

-----------------------------------------------------------------------------
(***************************************************************************)
(* The candidates, sorted, are all of the instances, each once.            *)
(***************************************************************************)

LEMMA FiniteListing ==
    ASSUME NEW s, Listing(s)
    PROVE  IsFiniteSet(ToSet(s)) /\ Len(s) \in Nat /\ DOMAIN s = 1..Len(s)
<1> DEFINE n == Len(s)
           f == [i \in 1..n |-> s[i]]
<1>1. n \in Nat /\ DOMAIN s = 1..n
  BY DEF Listing
<1>2. ToSet(s) = {f[i] : i \in 1..n}
  BY <1>1 DEF ToSet
<1>3. IsFiniteSet(1..n)
  BY <1>1, FS_Interval
<1> HIDE DEF f
<1>4. IsFiniteSet(ToSet(s))
  BY <1>2, <1>3, FiniteImage
<1> QED
  BY <1>1, <1>4

\* A sequence as long as the set of its elements repeats none.
LEMMA DistinctOnce ==
    ASSUME NEW s, Listing(s), Distinct(s)
    PROVE  \A i, j \in 1..Len(s) : s[i] = s[j] => i = j
<1> DEFINE n == Len(s)
           T == ToSet(s)
           f == [i \in 1..n |-> s[i]]
<1>1. n \in Nat /\ DOMAIN s = 1..n /\ Cardinality(T) = n
  BY FiniteListing DEF Distinct
<1>2. f \in Surjection(1..n, T)
  BY <1>1 DEF ToSet, Surjection
<1> HIDE DEF n, T, f
<1>3. IsFiniteSet(1..n) /\ Cardinality(1..n) = n
  BY <1>1, FS_Interval
<1>4. f \in Injection(1..n, T)
  BY <1>1, <1>2, <1>3, FS_SurjSameCardinalityImpliesInj
<1> QED
  BY <1>4 DEF Injection, IsInjective, n, f

\* The instances of a snapshot have roots, and so IDs, of their own.
LEMMA InstancesApart ==
    ASSUME NEW s, PossibleSnapshot(s)
    PROVE  /\ s.hostID \in Hosts
           /\ \A i \in ToSet(s.instances) :
                 i.root \in DOMAIN RootRank /\ i.id = <<s.hostID, i.root>>
           /\ \A i, j \in ToSet(s.instances) : i.root = j.root => i = j
<1> DEFINE t == s.instances
           n == Len(t)
           ids == [i \in DOMAIN t |-> t[i].id]
<1>1. Listing(t) /\ \A i \in ToSet(t) : i.root \in DOMAIN RootRank
  BY DEF PossibleSnapshot, Listing
<1>2. ValidSnapshot(s)
  BY DEF PossibleSnapshot
<1>3. /\ s.hostID \in Hosts
      /\ \A i \in DOMAIN t : RepositoryInstanceID(s.hostID, t[i].root) = Ok(t[i].id)
      /\ Distinct(ids)
  BY <1>2 DEF ValidSnapshot
<1>4. n \in Nat /\ DOMAIN t = 1..n /\ ToSet(t) = {t[i] : i \in DOMAIN t}
  BY <1>1, FiniteListing DEF ToSet
<1> HIDE DEF t, n
<1>5. \A i \in DOMAIN t : t[i].id = <<s.hostID, t[i].root>>
  BY <1>3, ResultsAre DEF RepositoryInstanceID
<1>6. Listing(ids) /\ Len(ids) = n
  <2>1. ids = [i \in 1..n |-> ids[i]]
    BY <1>4
  <2> HIDE DEF ids
  <2> QED
    BY <1>4, <2>1, ListingOf
<1>7. \A i, j \in 1..n : ids[i] = ids[j] => i = j
  <2> HIDE DEF ids
  <2> QED
    BY <1>3, <1>6, DistinctOnce
<1>8. \A i, j \in DOMAIN t : t[i].root = t[j].root => i = j
  BY <1>4, <1>5, <1>7
<1> HIDE DEF ids
<1>9. \A i \in ToSet(t) : i.id = <<s.hostID, i.root>>
  BY <1>4, <1>5
<1>10. \A i, j \in ToSet(t) : i.root = j.root => i = j
  BY <1>4, <1>8
<1> QED
  BY <1>1, <1>3, <1>9, <1>10 DEF t

\* The candidates of one snapshot, and of all that are current.
CandidatesOf(s) == {Sourced(s, s.instances[i]) : i \in DOMAIN s.instances}
AllCandidates(current) == UNION {CandidatesOf(s) : s \in current}

\* Snapshots, one of each Host.
OnePerHost(current) ==
    /\ IsFiniteSet(current)
    /\ \A s \in current : PossibleSnapshot(s)
    /\ \A s, t \in current : s.hostID = t.hostID => s = t

LEMMA CandidateParts ==
    ASSUME NEW current, OnePerHost(current)
    PROVE  /\ \A x \in AllCandidates(current) :
                 /\ x.hostID \in Hosts /\ x.root \in DOMAIN RootRank
                 /\ x.id = <<x.hostID, x.root>>
                 /\ \E s \in current : x.hostID = s.hostID
           /\ \A x, y \in AllCandidates(current) :
                 x.hostID = y.hostID /\ x.root = y.root => x = y
<1>1. ASSUME NEW x \in AllCandidates(current)
      PROVE  \E s \in current : \E i \in ToSet(s.instances) : x = Sourced(s, i)
  BY <1>1 DEF AllCandidates, CandidatesOf, ToSet
<1>2. \A s, i : Sourced(s, i).hostID = s.hostID /\ Sourced(s, i).root = i.root
                /\ Sourced(s, i).id = i.id
  BY DEF Sourced
<1>3. \A s \in current :
         /\ s.hostID \in Hosts
         /\ \A i \in ToSet(s.instances) : i.root \in DOMAIN RootRank /\ i.id = <<s.hostID, i.root>>
         /\ \A i, j \in ToSet(s.instances) : i.root = j.root => i = j
  BY InstancesApart DEF OnePerHost
<1>4. \A x \in AllCandidates(current) :
         /\ x.hostID \in Hosts /\ x.root \in DOMAIN RootRank
         /\ x.id = <<x.hostID, x.root>>
         /\ \E s \in current : x.hostID = s.hostID
  BY <1>1, <1>2, <1>3
<1>5. ASSUME NEW x \in AllCandidates(current), NEW y \in AllCandidates(current),
             x.hostID = y.hostID, x.root = y.root
      PROVE  x = y
  <2>1. PICK s \in current : \E i \in ToSet(s.instances) : x = Sourced(s, i)
    BY <1>1
  <2>2. PICK t \in current : \E j \in ToSet(t.instances) : y = Sourced(t, j)
    BY <1>1
  <2>3. PICK i \in ToSet(s.instances) : x = Sourced(s, i)
    BY <2>1
  <2>4. PICK j \in ToSet(t.instances) : y = Sourced(t, j)
    BY <2>2
  <2>5. s = t
    BY <1>2, <1>5, <2>3, <2>4 DEF OnePerHost
  <2>6. i = j
    BY <1>2, <1>3, <1>5, <2>3, <2>4, <2>5
  <2> QED
    BY <2>3, <2>4, <2>5, <2>6
<1> QED
  BY <1>4, <1>5

LEMMA FiniteCandidates ==
    ASSUME NEW current, OnePerHost(current)
    PROVE  IsFiniteSet(AllCandidates(current))
<1> DEFINE g == [s \in current |-> CandidatesOf(s)]
           family == {CandidatesOf(s) : s \in current}
<1>1. \A s \in current : IsFiniteSet(CandidatesOf(s))
  <2> SUFFICES ASSUME NEW s \in current PROVE IsFiniteSet(CandidatesOf(s))
    OBVIOUS
  <2> DEFINE t == s.instances
             f == [i \in DOMAIN t |-> Sourced(s, t[i])]
  <2>1. Listing(t)
    BY DEF OnePerHost, PossibleSnapshot, Listing
  <2>2. IsFiniteSet(DOMAIN t)
    BY <2>1, FiniteListing, FS_Interval
  <2>3. CandidatesOf(s) = {f[i] : i \in DOMAIN t}
    BY DEF CandidatesOf
  <2> HIDE DEF f, t
  <2> QED
    BY <2>2, <2>3, FiniteImage
<1>2. IsFiniteSet(family)
  <2>1. family = {g[s] : s \in current}
    OBVIOUS
  <2>2. IsFiniteSet(current)
    BY DEF OnePerHost
  <2> HIDE DEF g, family
  <2> QED
    BY <2>1, <2>2, FiniteImage
<1>3. \A T \in family : IsFiniteSet(T)
  BY <1>1
<1> HIDE DEF family
<1>4. IsFiniteSet(UNION family)
  BY <1>2, <1>3, FS_UNION
<1> QED
  BY <1>4 DEF family, AllCandidates

\* The candidates are gone through one by one, all of them and each once.
LEMMA CandidatesAre ==
    ASSUME NEW current, OnePerHost(current)
    PROVE  LET c == Candidates(current)
           IN  /\ c \in Seq(AllCandidates(current)) /\ ToSet(c) = AllCandidates(current)
               /\ \A i, j \in 1..Len(c) : i # j => c[i] # c[j]
<1> DEFINE S == AllCandidates(current)
           O == {p \in S \X S : InstanceBefore(p[1], p[2])}
           s == [i \in 1..Cardinality(S) |->
                    CHOOSE x \in S : Cardinality({y \in S : InstanceBefore(y, x)}) = i - 1]
<1>1. Candidates(current) = SubSeq(s, 1, Cardinality(S))
  BY DEF Candidates, Sorted, AllCandidates, CandidatesOf
<1>2. IsFiniteSet(S)
  BY FiniteCandidates
<1>3. /\ \A x \in S : x.hostID \in Hosts /\ x.root \in DOMAIN RootRank
      /\ \A x, y \in S : x.hostID = y.hostID /\ x.root = y.root => x = y
  BY CandidateParts
<1> HIDE DEF S
<1>4. /\ \A x \in S : HostRank[x.hostID] \in Nat /\ RootRank[x.root] \in Nat
      /\ \A x, y \in S : HostRank[x.hostID] = HostRank[y.hostID] => x.hostID = y.hostID
      /\ \A x, y \in S : RootRank[x.root] = RootRank[y.root] => x.root = y.root
  BY <1>3, RankAssumption DEF IsInjective, Hosts
<1>5. Orders(O, S)
  <2>1. \A x \in S : ~InstanceBefore(x, x)
    BY <1>4 DEF InstanceBefore
  <2>2. \A x, y \in S : x # y => InstanceBefore(x, y) \/ InstanceBefore(y, x)
    BY <1>3, <1>4 DEF InstanceBefore
  <2>3. \A x, y, z \in S : InstanceBefore(x, y) /\ InstanceBefore(y, z) => InstanceBefore(x, z)
    BY <1>4 DEF InstanceBefore
  <2>4. \A x, y \in S : <<x, y>> \in O <=> InstanceBefore(x, y)
    OBVIOUS
  <2> HIDE DEF O
  <2> QED
    BY <2>1, <2>2, <2>3, <2>4 DEF Orders
<1>6. \A x \in S : Below(O, S, x) = {y \in S : InstanceBefore(y, x)}
  BY DEF Below
<1> HIDE DEF O
<1>7. \A i \in 1..Cardinality(S) : s[i] \in S /\ Cardinality(Below(O, S, s[i])) = i - 1
  <2> SUFFICES ASSUME NEW i \in 1..Cardinality(S)
               PROVE  s[i] \in S /\ Cardinality(Below(O, S, s[i])) = i - 1
    OBVIOUS
  <2>1. \E x \in S : Cardinality(Below(O, S, x)) = i - 1
    BY <1>2, <1>5, Ranked
  <2>2. \E x \in S : Cardinality({y \in S : InstanceBefore(y, x)}) = i - 1
    BY <1>6, <2>1
  <2>3. s[i] \in S /\ Cardinality({y \in S : InstanceBefore(y, s[i])}) = i - 1
    BY <2>2
  <2> HIDE DEF s
  <2> QED
    BY <1>6, <2>3
<1> HIDE DEF s
<1> DEFINE t == SubSeq(s, 1, Cardinality(S))
<1>8. /\ t \in Seq(S) /\ ToSet(t) = S
      /\ \A i, j \in 1..Len(t) : i # j => t[i] # t[j]
  BY <1>2, <1>5, <1>7, InPlace
<1> HIDE DEF t
<1>9. Candidates(current) = t
  BY <1>1 DEF t
<1> HIDE DEF S
<1> QED
  BY <1>8, <1>9 DEF S

-----------------------------------------------------------------------------
(***************************************************************************)
(* Aggregates are sound.                                                   *)
(***************************************************************************)

\* An aggregate of possible snapshots groups the candidates of the newest ones.
LEMMA AggregateSound ==
    ASSUME NEW all, Listing(all), \A s \in ToSet(all) : PossibleSnapshot(s), Aggregate(all).ok
    PROVE  LET current == CurrentSnapshots(all).val
               placed == PlacedCandidates(Candidates(current))
               C == AllCandidates(current)
           IN  /\ KeptFrom(current, ToSet(all)) /\ OnePerHost(current)
               /\ Aggregate(all).val = Federation(current, placed)
               /\ PlacedFrom(placed, C, C)
<1> DEFINE current == CurrentSnapshots(all).val
           candidates == Candidates(current)
           placed == PlacedCandidates(candidates)
           C == AllCandidates(current)
<1>1. CurrentSnapshots(all).ok /\ Aggregate(all) = Ok(Federation(current, placed))
  BY AggregateIs
<1>2. Aggregate(all).val = Federation(current, placed)
  BY <1>1, ResultsAre
<1>3. KeptFrom(current, ToSet(all))
  <2>1. \A s \in ToSet(all) : s.observed \in Nat
    BY DEF PossibleSnapshot
  <2>2. all \in Seq(ToSet(all))
    BY DEF Listing
  <2> QED
    BY <1>1, <2>1, <2>2, CurrentAre
<1> HIDE DEF current
<1>4. OnePerHost(current)
  <2>1. IsFiniteSet(ToSet(all))
    BY FiniteListing
  <2>2. current \in SUBSET ToSet(all)
    BY <1>3 DEF KeptFrom
  <2>3. IsFiniteSet(current)
    BY <2>1, <2>2, FS_Subset
  <2> QED
    BY <1>3, <2>2, <2>3 DEF KeptFrom, OnePerHost
<1>5. /\ candidates \in Seq(C) /\ ToSet(candidates) = C
      /\ \A i, j \in 1..Len(candidates) : i # j => candidates[i] # candidates[j]
  BY <1>4, CandidatesAre
<1> HIDE DEF candidates, C
<1>6. PlacedFrom(placed, C, C)
  BY <1>5, PlacedAre
<1> QED
  BY <1>2, <1>3, <1>4, <1>6 DEF current, candidates, C

\* The groups of a federation are those of the placed candidates.
LEMMA FederationGroups ==
    ASSUME NEW current, NEW placed, NEW C, PlacedFrom(placed, C, C)
    PROVE  LET p == Federation(current, placed)
           IN  /\ p.issues = placed.issues
               /\ \A g \in p.repositories :
                     \E n \in 1..Len(placed.groups) : g = BuildRepositoryGroup(placed.groups[n])
               /\ \A n \in 1..Len(placed.groups) :
                     BuildRepositoryGroup(placed.groups[n]) \in p.repositories
               /\ \A members : BuildRepositoryGroup(members).instances = members
               /\ UNION {ToSet(g.instances) : g \in p.repositories} = C
<1> DEFINE p == Federation(current, placed)
           groups == placed.groups
           n == Len(groups)
<1>1. p.issues = placed.issues /\ p.repositories = {BuildRepositoryGroup(g) : g \in ToSet(groups)}
  BY DEF Federation
<1>2. \A members : BuildRepositoryGroup(members).instances = members
  <2> SUFFICES ASSUME NEW members PROVE BuildRepositoryGroup(members).instances = members
    OBVIOUS
  <2> DEFINE id == {m.id : m \in ToSet(members)}
             named == SelectSeq(members, LAMBDA m : m.name # NoName)
             name == IF named = <<>> THEN NoName ELSE Head(named).name
             active == \E m \in ToSet(members) : m.active
             agents == UNION {m.agents : m \in ToSet(members)} \ {""}
  <2>1. BuildRepositoryGroup(members) =
           [id |-> id, name |-> name, active |-> active, agents |-> agents, instances |-> members]
    BY Zenon DEF BuildRepositoryGroup
  <2> HIDE DEF id, name, active, agents
  <2> QED
    BY <2>1
<1>3. groups \in Seq(Seq(C) \ {<<>>}) /\ C = UNION {ToSet(groups[g]) : g \in 1..n}
  BY DEF PlacedFrom
<1>4. ToSet(groups) = {groups[g] : g \in 1..n}
  BY <1>3 DEF ToSet
<1> HIDE DEF p, groups, n
<1>5. /\ \A g \in p.repositories : \E i \in 1..n : g = BuildRepositoryGroup(groups[i])
      /\ \A i \in 1..n : BuildRepositoryGroup(groups[i]) \in p.repositories
  BY <1>1, <1>4
<1>6. UNION {ToSet(g.instances) : g \in p.repositories} = C
  <2>1. \A g \in p.repositories : \E i \in 1..n : ToSet(g.instances) = ToSet(groups[i])
    BY <1>2, <1>5
  <2>2. \A i \in 1..n : \E g \in p.repositories : ToSet(g.instances) = ToSet(groups[i])
    BY <1>2, <1>5
  <2> QED
    BY <1>3, <2>1, <2>2
<1> QED
  BY <1>1, <1>2, <1>5, <1>6 DEF p, groups, n

\* Groups share out the instances, their members match and what is doubtful is
\* reported.
SoundGroups(p, all) ==
    LET members == UNION {ToSet(g.instances) : g \in p.repositories}
    IN  /\ members = all
        /\ \A g, h \in p.repositories :
              g # h => ToSet(g.instances) \intersect ToSet(h.instances) = {}
        /\ \A g \in p.repositories : \A a, b \in ToSet(g.instances) :
              a # b => Outcome(a, b) = "match"
        /\ \A a, b \in members :
              a # b /\ Outcome(a, b) \in {"ambiguous", "conflict"} =>
                  \E i \in p.issues : i.between = {a.id, b.id} /\ i.outcome = Outcome(a, b)

LEMMA SoundFederation ==
    ASSUME NEW current, NEW placed, NEW C, PlacedFrom(placed, C, C)
    PROVE  SoundGroups(Federation(current, placed), C)
<1> DEFINE p == Federation(current, placed)
           n == Len(placed.groups)
<1> HIDE DEF p, n
<1>1. p.issues = placed.issues
  BY FederationGroups DEF p
<1>2. \A g \in p.repositories : \E i \in 1..n : g = BuildRepositoryGroup(placed.groups[i])
  BY FederationGroups DEF p, n
<1>3. \A members : BuildRepositoryGroup(members).instances = members
  BY FederationGroups
<1>4. UNION {ToSet(g.instances) : g \in p.repositories} = C
  BY FederationGroups DEF p
<1>5. /\ \A g, h \in 1..n :
            g # h => ToSet(placed.groups[g]) \intersect ToSet(placed.groups[h]) = {}
      /\ \A g \in 1..n : \A a, b \in ToSet(placed.groups[g]) : a # b => Outcome(a, b) = "match"
      /\ \A a, b \in C : a # b /\ Outcome(a, b) \in {"ambiguous", "conflict"} =>
            Issue(a, b, Outcome(a, b)) \in placed.issues
  BY DEF PlacedFrom, n
<1>6. \A g \in p.repositories : \E i \in 1..n :
         g = BuildRepositoryGroup(placed.groups[i]) /\ g.instances = placed.groups[i]
  BY <1>2, <1>3
<1>7. ASSUME NEW g \in p.repositories, NEW h \in p.repositories, g # h
      PROVE  ToSet(g.instances) \intersect ToSet(h.instances) = {}
  BY <1>5, <1>6, <1>7
<1>8. \A g \in p.repositories : \A a, b \in ToSet(g.instances) : a # b => Outcome(a, b) = "match"
  BY <1>5, <1>6
<1>9. \A a, b : Issue(a, b, Outcome(a, b)).between = {a.id, b.id}
                /\ Issue(a, b, Outcome(a, b)).outcome = Outcome(a, b)
  BY DEF Issue
<1>10. \A a, b \in C : a # b /\ Outcome(a, b) \in {"ambiguous", "conflict"} =>
         \E i \in p.issues : i.between = {a.id, b.id} /\ i.outcome = Outcome(a, b)
  BY <1>1, <1>5, <1>9
<1> QED
  BY <1>4, <1>7, <1>8, <1>10 DEF p, SoundGroups

-----------------------------------------------------------------------------
(***************************************************************************)
(* Hosts and instances are selected.                                       *)
(***************************************************************************)

\* A Host is found when there is a line of it.
LEMMA HostFound ==
    ASSUME NEW projection, Listing(projection.hosts), NEW hostID,
           \E h \in ToSet(projection.hosts) : h.hostID = hostID
    PROVE  SelectHost(projection, hostID).ok
<1> DEFINE hosts == projection.hosts
           I == {i \in 1..Len(hosts) : hosts[i].hostID = hostID}
           found == IF I # {} THEN Min(I) ELSE 0
<1>1. SelectHost(projection, hostID) = IF found = 0 THEN Error ELSE Ok(hosts[found])
  BY DEF SelectHost, SelectInSeq
<1>2. I # {} /\ I \in SUBSET Nat /\ 0 \notin I
  BY FiniteListing DEF ToSet
<1> HIDE DEF I
<1>3. found # 0
  BY <1>2, MinNat
<1> QED
  BY <1>1, <1>3, ResultsAre

\* The lines of the Hosts: this Host, and the Host each peer is expected to be.
LEMMA StatusLines ==
    ASSUME NEW own, NEW registry, registry \in Seq(ToSet(registry)), NEW observations
    PROVE  LET hosts == <<LocalHostStatus(own)>> \o PeerStatus(registry, observations)
           IN  /\ Listing(hosts)
               /\ \E h \in ToSet(hosts) : h.hostID = own.hostID
               /\ \A p \in ToSet(registry) : \E h \in ToSet(hosts) : h.hostID = p.hostID
<1> DEFINE one == <<LocalHostStatus(own)>>
           peers == PeerStatus(registry, observations)
           n == Len(registry)
<1>1. n \in Nat /\ DOMAIN registry = 1..n /\ ToSet(registry) = {registry[i] : i \in 1..n}
  BY DEF ToSet
<1> HIDE DEF n
<1>2. \A i \in 1..n : peers[i] =
         PeerHostStatus(registry[i], Observation(observations, registry[i].name).val.snapshots)
  BY <1>1 DEF PeerStatus
<1>3. peers = [i \in 1..n |-> peers[i]]
  BY <1>1 DEF PeerStatus
<1> HIDE DEF peers
<1>4. Listing(peers) /\ DOMAIN peers = 1..n
  BY <1>1, <1>3, ListingOf
<1>5. \A p, snapshots : PeerHostStatus(p, snapshots).hostID = p.hostID
  BY DEF PeerHostStatus
<1>6. \A p \in ToSet(registry) : \E h \in ToSet(peers) : h.hostID = p.hostID
  <2>1. ToSet(peers) = {peers[i] : i \in 1..n}
    BY <1>4 DEF ToSet
  <2> QED
    BY <1>1, <1>2, <1>5, <2>1
<1>7. LocalHostStatus(own).hostID = own.hostID
  BY DEF LocalHostStatus
<1>8. Listing(one) /\ ToSet(one) = {LocalHostStatus(own)}
  BY ListingTuples, ToSetTuples
<1> HIDE DEF one
<1>9. Listing(one \o peers) /\ ToSet(one \o peers) = ToSet(one) \union ToSet(peers)
  BY <1>4, <1>8, ListingConcat
<1>10. \E h \in ToSet(one \o peers) : h.hostID = own.hostID
  BY <1>7, <1>8, <1>9
<1>11. \A p \in ToSet(registry) : \E h \in ToSet(one \o peers) : h.hostID = p.hostID
  BY <1>6, <1>9
<1> QED
  BY <1>9, <1>10, <1>11 DEF one, peers

\* The repositories of a Host are its instances, each with its group.
LEMMA HostInstances ==
    ASSUME NEW projection, NEW hostID
    PROVE  LET G == projection.federation.repositories
               members == UNION {ToSet(g.instances) : g \in G}
               mine == RepositoriesForHost(projection, hostID)
           IN  /\ \A r \in mine : /\ r.instance \in members /\ r.instance.hostID = hostID
                                  /\ r.group \in G /\ r.instance \in ToSet(r.group.instances)
               /\ \A i \in members : i.hostID = hostID => \E r \in mine : r.instance = i
<1> DEFINE G == projection.federation.repositories
           members == UNION {ToSet(g.instances) : g \in G}
           mine == RepositoriesForHost(projection, hostID)
<1>1. mine = UNION {{[group |-> g, instance |-> i] :
                        i \in {x \in ToSet(g.instances) : x.hostID = hostID}} : g \in G}
  BY DEF RepositoriesForHost
<1> HIDE DEF G
<1>2. ASSUME NEW r \in mine
      PROVE  /\ r.instance \in members /\ r.instance.hostID = hostID
             /\ r.group \in G /\ r.instance \in ToSet(r.group.instances)
  <2>1. PICK g \in G : \E i \in ToSet(g.instances) :
                          i.hostID = hostID /\ r = [group |-> g, instance |-> i]
    BY <1>1
  <2> QED
    BY <2>1
<1>3. ASSUME NEW i \in members, i.hostID = hostID
      PROVE  \E r \in mine : r.instance = i
  <2>1. PICK g \in G : i \in ToSet(g.instances)
    OBVIOUS
  <2> DEFINE here == {x \in ToSet(g.instances) : x.hostID = hostID}
  <2>2. i \in here
    BY <1>3, <2>1
  <2>3. [group |-> g, instance |-> i] \in {[group |-> g, instance |-> x] : x \in here}
    BY <2>2, Zenon
  <2> DEFINE part(x) == {[group |-> x, instance |-> y] :
                            y \in {z \in ToSet(x.instances) : z.hostID = hostID}}
  <2>4. mine = UNION {part(x) : x \in G} /\ [group |-> g, instance |-> i] \in part(g)
    BY <1>1, <2>3, Zenon
  <2> HIDE DEF part, mine
  <2>5. [group |-> g, instance |-> i] \in mine
    BY <2>4
  <2>6. [group |-> g, instance |-> i].instance = i
    OBVIOUS
  <2> QED
    BY <2>5, <2>6
<1> QED
  BY <1>2, <1>3 DEF G

\* An instance is selected by its Host and its ID, and the Host shows all of its.
Selects(p, C, i) ==
    /\ ProjectFederationRepository(p, i.hostID, i.id).ok
    /\ ProjectFederationRepository(p, i.hostID, i.id).val.instance = i
    /\ \E g \in p.federation.repositories :
          /\ i \in ToSet(g.instances)
          /\ ProjectFederationRepository(p, i.hostID, i.id).val.groupID = g.id
    /\ {r.instance : r \in ProjectFederationHost(p, i.hostID).val.repositories}
          = {m \in C : m.hostID = i.hostID}

\* That holds when its Host has a line.
LEMMA Selectable ==
    ASSUME NEW p, Listing(p.hosts), NEW C,
           C = UNION {ToSet(g.instances) : g \in p.federation.repositories},
           \A x, y \in C : x.hostID = y.hostID /\ x.id = y.id => x = y,
           NEW i, i \in C, \E h \in ToSet(p.hosts) : h.hostID = i.hostID
    PROVE  Selects(p, C, i)
<1> DEFINE mine == RepositoriesForHost(p, i.hostID)
           host == SelectHost(p, i.hostID)
           found == {r \in mine : r.instance.id = i.id}
           r0 == CHOOSE r \in found : TRUE
           one == SelectRepository(p, i.hostID, i.id)
<1>1. host.ok
  BY HostFound
<1>2. /\ \A r \in mine : /\ r.instance \in C /\ r.instance.hostID = i.hostID
                         /\ r.group \in p.federation.repositories
                         /\ r.instance \in ToSet(r.group.instances)
      /\ \A x \in C : x.hostID = i.hostID => \E r \in mine : r.instance = x
  BY HostInstances
<1> HIDE DEF mine, host
<1>3. one = IF found = {} THEN Error ELSE Ok([host |-> host.val, selection |-> r0])
  BY <1>1, Zenon DEF SelectRepository, Then, mine, host
<1>4. found # {}
  BY <1>2
<1>5. r0 \in found
  BY <1>4
<1>6. /\ r0.instance = i /\ r0.group \in p.federation.repositories
      /\ i \in ToSet(r0.group.instances)
  BY <1>2, <1>5
<1> HIDE DEF found, r0
<1>7. one = Ok([host |-> host.val, selection |-> r0])
  BY <1>3, <1>4
<1>8. one.ok /\ one.val = [host |-> host.val, selection |-> r0]
  BY <1>7, ResultsAre
<1>9. one.val.selection = r0
  BY <1>8
<1> DEFINE group == r0.group
           shown == [host |-> one.val.host, groupID |-> group.id, name |-> group.name,
                     active |-> group.active, agents |-> group.agents, instance |-> i]
<1>10. ProjectFederationRepository(p, i.hostID, i.id) = Ok(shown)
  <2> DEFINE found0 == one.val
             show(f) == [host |-> f.host, groupID |-> f.selection.group.id,
                         name |-> f.selection.group.name, active |-> f.selection.group.active,
                         agents |-> f.selection.group.agents, instance |-> f.selection.instance]
  <2>1. ProjectFederationRepository(p, i.hostID, i.id) = Then(one, LAMBDA f : Ok(show(f)))
    BY Zenon DEF ProjectFederationRepository
  <2>2. ProjectFederationRepository(p, i.hostID, i.id) = Ok(show(one.val))
    BY <1>8, <2>1, Zenon DEF Then
  <2> HIDE DEF one
  <2>3. show(one.val) = shown
    BY <1>6, <1>9
  <2> QED
    BY <2>2, <2>3, Zenon
<1>11. shown.instance = i /\ shown.groupID = r0.group.id
  OBVIOUS
<1> HIDE DEF shown, one
<1>12. /\ ProjectFederationRepository(p, i.hostID, i.id).ok
       /\ ProjectFederationRepository(p, i.hostID, i.id).val.instance = i
       /\ ProjectFederationRepository(p, i.hostID, i.id).val.groupID = r0.group.id
  BY <1>10, <1>11, ResultsAre
<1> DEFINE entries == {[groupID |-> r.group.id, name |-> r.group.name,
                        active |-> r.group.active, agents |-> r.group.agents,
                        instance |-> r.instance] : r \in mine}
<1>13. ProjectFederationHost(p, i.hostID).val.repositories = entries
  <2>1. ProjectFederationHost(p, i.hostID) = Ok([host |-> host.val, repositories |-> entries])
    BY <1>1, Zenon DEF ProjectFederationHost, Then, host, mine
  <2> HIDE DEF entries
  <2>2. [host |-> host.val, repositories |-> entries].repositories = entries
    OBVIOUS
  <2> QED
    BY <2>1, <2>2, ResultsAre
<1>14. {e.instance : e \in entries} = {m \in C : m.hostID = i.hostID}
  <2>1. \A e \in entries : \E r \in mine : e.instance = r.instance
    OBVIOUS
  <2>2. \A r \in mine : \E e \in entries : e.instance = r.instance
    <3> SUFFICES ASSUME NEW r \in mine PROVE \E e \in entries : e.instance = r.instance
      OBVIOUS
    <3> DEFINE e == [groupID |-> r.group.id, name |-> r.group.name, active |-> r.group.active,
                     agents |-> r.group.agents, instance |-> r.instance]
    <3>1. e \in entries /\ e.instance = r.instance
      OBVIOUS
    <3> QED
      BY <3>1, Zenon
  <2> HIDE DEF entries
  <2> QED
    BY <1>2, <2>1, <2>2
<1> QED
  BY <1>6, <1>12, <1>13, <1>14 DEF Selects

-----------------------------------------------------------------------------
(***************************************************************************)
(* What an answered request shows.                                         *)
(***************************************************************************)

\* What an answered projection is made of.
LEMMA ProjectionMade ==
    ASSUME world \in DOMAIN Worlds, NEW q, MachineSeen(World.machines, q),
           q.op \in FederationOps, StepSet(q) \subseteq DOMAIN q.see, q.at \in Nat,
           NEW hostID, ProjectionAnswer(Made(q), hostID).ok
    PROVE  LET p == ProjectionAnswer(Made(q), hostID).val
               own == SnapshotAnswer(Made(q), hostID).val
               registry == View(q, <<>>)["registry"].val
               observations == View(q, <<>>)["observations"]
               all == AllSnapshots(own, registry, observations)
               current == CurrentSnapshots(all).val
               placed == PlacedCandidates(Candidates(current))
               C == AllCandidates(current)
           IN  /\ registry \in Seq(ToSet(registry))
               /\ SnapshotAnswer(Made(q), hostID).ok /\ PossibleSnapshot(own)
               /\ ToSet(all) = {own} \union
                     UNION {ToSet(Observation(observations, x.name).val.snapshots) :
                               x \in ToSet(registry)}
               /\ \A s \in ToSet(all) : PossibleSnapshot(s)
               /\ KeptFrom(current, ToSet(all)) /\ OnePerHost(current)
               /\ p.federation = Federation(current, placed) /\ PlacedFrom(placed, C, C)
               /\ p.hosts = <<LocalHostStatus(own)>> \o PeerStatus(registry, observations)
<1> DEFINE result == SnapshotAnswer(Made(q), hostID)
           own == result.val
           read == View(q, <<>>)["registry"]
           registry == read.val
           observations == View(q, <<>>)["observations"]
           all == AllSnapshots(own, registry, observations)
           projection == BuildProjection(result, read, observations)
           current == CurrentSnapshots(all).val
           placed == PlacedCandidates(Candidates(current))
           C == AllCandidates(current)
<1>1. projection.ok /\ ProjectionAnswer(Made(q), hostID) = projection
  BY AnswerFederation
<1> HIDE DEF projection
<1>2. /\ projection.ok => /\ result.ok /\ read.ok /\ AllObserved(registry, observations)
                          /\ Aggregate(all).ok
      /\ projection.ok =>
            /\ projection.val.federation = Aggregate(all).val
            /\ projection.val.hosts = <<LocalHostStatus(own)>> \o PeerStatus(registry, observations)
  BY ProjectionParts DEF projection
<1>3. /\ registry \in Seq(ToSet(registry))
      /\ PossibleSnapshot(own)
      /\ Listing(all)
      /\ ToSet(all) = {own} \union
            UNION {ToSet(Observation(observations, x.name).val.snapshots) : x \in ToSet(registry)}
      /\ \A s \in ToSet(all) : PossibleSnapshot(s)
  BY <1>1, <1>2, StatusSnapshots
<1> HIDE DEF result, read, observations, all
<1>4. Aggregate(all).ok
  BY <1>1, <1>2
<1>5. /\ KeptFrom(current, ToSet(all)) /\ OnePerHost(current)
      /\ Aggregate(all).val = Federation(current, placed)
      /\ PlacedFrom(placed, C, C)
  BY <1>3, <1>4, AggregateSound
<1> HIDE DEF current, placed, C
<1> QED
  BY <1>1, <1>2, <1>3, <1>5 DEF result, read, observations, all, current, placed, C

\* A request that was answered.
LEMMA DoneRequest ==
    ASSUME WorldInv, TypedInv, AnswerInv, NEW w \in Worker, NEW ops, Done(w, ops)
    PROVE  LET q == work[w]
           IN  /\ world \in DOMAIN Worlds /\ MachineSeen(World.machines, q)
               /\ q.op \in ops /\ StepSet(q) \subseteq DOMAIN q.see
               /\ q.at \in Nat /\ q.answer = Answer(Made(q), held[Owner[w]])
<1> DEFINE q == work[w]
<1>1. q.phase = "done" /\ q.op \in ops
  BY DEF Done
<1>2. q # Idle
  BY <1>1, PhaseIdle
<1>3. /\ q.answer = Answer(Made(q), held[Owner[w]]) /\ StepSet(q) \subseteq DOMAIN q.see
      /\ q.at \in Nat
  BY <1>1, <1>2 DEF AnswerInv, NextOfSteps
<1>4. MachineSeen(World.machines, q) /\ world \in DOMAIN Worlds
  BY <1>2 DEF TypedInv, TypedRequest, MachineSeen, WorldInv
<1> QED
  BY <1>1, <1>3, <1>4

\* The snapshots that a projection is made of.
ProjectedSnapshots(q, hostID) ==
    {SnapshotAnswer(Made(q), hostID).val} \union
    UNION {ToSet(Observation(View(q, <<>>)["observations"], x.name).val.snapshots) :
              x \in ToSet(View(q, <<>>)["registry"].val)}

\* One answered projection is sound.
LEMMA OneSoundProjection ==
    ASSUME world \in DOMAIN Worlds, NEW q, MachineSeen(World.machines, q),
           q.op = "get_federation_status", StepSet(q) \subseteq DOMAIN q.see, q.at \in Nat,
           NEW hostID, Answer(Made(q), hostID).ok
    PROVE  SoundGroups(Answer(Made(q), hostID).val.federation,
                       AllCandidates(NewestOf(ProjectedSnapshots(q, hostID))))
<1> DEFINE own == SnapshotAnswer(Made(q), hostID).val
           registry == View(q, <<>>)["registry"].val
           observations == View(q, <<>>)["observations"]
           all == AllSnapshots(own, registry, observations)
           current == CurrentSnapshots(all).val
           placed == PlacedCandidates(Candidates(current))
           C == AllCandidates(current)
           p == Answer(Made(q), hostID).val.federation
<1>1. /\ p = Federation(current, placed) /\ PlacedFrom(placed, C, C)
      /\ KeptFrom(current, ToSet(all))
      /\ \A s \in ToSet(all) : PossibleSnapshot(s)
      /\ ToSet(all) = {own} \union
            UNION {ToSet(Observation(observations, x.name).val.snapshots) : x \in ToSet(registry)}
  BY ProjectionMade, AnswerStatus DEF FederationOps
<1>2. ToSet(all) = ProjectedSnapshots(q, hostID)
  BY <1>1 DEF ProjectedSnapshots
<1>3. \A s \in ToSet(all) : s.observed \in Nat
  BY <1>1 DEF PossibleSnapshot
<1> HIDE DEF all, current, placed, p
<1>4. current = NewestOf(ProjectedSnapshots(q, hostID))
  BY <1>1, <1>2, <1>3, NewestKept
<1>5. SoundGroups(p, C)
  BY <1>1, SoundFederation
<1> QED
  BY <1>4, <1>5 DEF p

\* The instances of one answered projection can be selected.
LEMMA OneSelectable ==
    ASSUME world \in DOMAIN Worlds, NEW q, MachineSeen(World.machines, q),
           q.op = "get_federation_status", StepSet(q) \subseteq DOMAIN q.see, q.at \in Nat,
           NEW hostID, Answer(Made(q), hostID).ok,
           \A peer \in ToSet(View(q, <<>>)["registry"].val) :
              \A s \in ToSet(Observation(View(q, <<>>)["observations"], peer.name).val.snapshots) :
                 s.hostID = peer.hostID
    PROVE  LET p == Answer(Made(q), hostID).val
               members == UNION {ToSet(g.instances) : g \in p.federation.repositories}
           IN  \A i \in members : Selects(p, members, i)
<1> DEFINE own == SnapshotAnswer(Made(q), hostID).val
           registry == View(q, <<>>)["registry"].val
           observations == View(q, <<>>)["observations"]
           all == AllSnapshots(own, registry, observations)
           current == CurrentSnapshots(all).val
           placed == PlacedCandidates(Candidates(current))
           C == AllCandidates(current)
           p == Answer(Made(q), hostID).val
           members == UNION {ToSet(g.instances) : g \in p.federation.repositories}
<1>1. /\ registry \in Seq(ToSet(registry))
      /\ ToSet(all) = {own} \union
            UNION {ToSet(Observation(observations, x.name).val.snapshots) : x \in ToSet(registry)}
      /\ KeptFrom(current, ToSet(all)) /\ OnePerHost(current)
      /\ p.federation = Federation(current, placed) /\ PlacedFrom(placed, C, C)
      /\ p.hosts = <<LocalHostStatus(own)>> \o PeerStatus(registry, observations)
  BY ProjectionMade, AnswerStatus DEF FederationOps
<1>2. \A peer \in ToSet(registry) :
         \A s \in ToSet(Observation(observations, peer.name).val.snapshots) :
            s.hostID = peer.hostID
  OBVIOUS
<1> HIDE DEF own, registry, observations, all, current, placed, p
<1>3. members = C
  BY <1>1, FederationGroups
<1>4. /\ Listing(p.hosts) /\ \E h \in ToSet(p.hosts) : h.hostID = own.hostID
      /\ \A x \in ToSet(registry) : \E h \in ToSet(p.hosts) : h.hostID = x.hostID
  BY <1>1, StatusLines
<1>5. /\ \A x \in C : x.id = <<x.hostID, x.root>> /\ \E s \in current : x.hostID = s.hostID
      /\ \A x, y \in C : x.hostID = y.hostID /\ x.root = y.root => x = y
  BY <1>1, CandidateParts
<1>6. \A x, y \in C : x.hostID = y.hostID /\ x.id = y.id => x = y
  BY <1>5
<1>7. \A s \in current : \E h \in ToSet(p.hosts) : h.hostID = s.hostID
  <2>1. \A s \in current : s \in ToSet(all)
    BY <1>1 DEF KeptFrom
  <2> QED
    BY <1>1, <1>2, <1>4, <2>1
<1>8. \A x \in C : \E h \in ToSet(p.hosts) : h.hostID = x.hostID
  BY <1>5, <1>7
<1> HIDE DEF C, members
<1>9. ASSUME NEW i \in C PROVE Selects(p, C, i)
  <2>1. C = UNION {ToSet(g.instances) : g \in p.federation.repositories}
    BY <1>3 DEF members
  <2>2. Listing(p.hosts) /\ \E h \in ToSet(p.hosts) : h.hostID = i.hostID
    BY <1>4, <1>8
  <2> QED
    BY <1>6, <2>1, <2>2, Selectable
<1> QED
  BY <1>3, <1>9 DEF p, members

-----------------------------------------------------------------------------
\* What the services hold, from the first state on.
LEMMA IdentityStarts == Init => IdentityInv
<1> QED
  BY InvInit DEF Init

LEMMA IdentityKept == IdentityInv /\ [Next]_vars => IdentityInv'
<1> QED
  BY InvStep, NextKeepsIdentity

-----------------------------------------------------------------------------
\* For any machine that changes in any way, any number of peers and whatever
\* they observe: in every order in which the snapshots are read, the newest of
\* each Host are aggregated, unless two are refused; they are if newest ones
\* differ, and are not if none of one Host and time do (aggregate.go:166).
THEOREM NewestAreAggregated == Spec => []NewestDecides
<1> QED
  BY WorldInit, WorldStep, NewestOfAnyOrder, PTL DEF Spec

\* For any federation: in every projection that is answered the groups share out
\* the instances of the newest snapshots and are apart, the members of a group
\* match, and what is ambiguous or in conflict is reported, whatever the
\* repositories and their ranks (aggregate.go:62).
THEOREM ProjectionsAreSound == Spec => []GroupsSound
<1>1. ASSUME WorldInv, TypedInv, AnswerInv
      PROVE  GroupsSound
  <2>1. ASSUME NEW w \in Worker, Done(w, {"get_federation_status"}), work[w].answer.ok
        PROVE  SoundGroups(work[w].answer.val.federation,
                           AllCandidates(NewestOf(ProjectedSnapshots(work[w], held[Owner[w]]))))
    <3> DEFINE q == work[w]
               hostID == held[Owner[w]]
    <3>1. /\ world \in DOMAIN Worlds /\ MachineSeen(World.machines, q)
          /\ q.op = "get_federation_status" /\ StepSet(q) \subseteq DOMAIN q.see
          /\ q.at \in Nat /\ q.answer = Answer(Made(q), hostID)
      BY <1>1, <2>1, DoneRequest
    <3>2. q.answer.ok
      BY <2>1
    <3> HIDE DEF q, hostID
    <3>3. SoundGroups(q.answer.val.federation,
                      AllCandidates(NewestOf(ProjectedSnapshots(q, hostID))))
      BY <3>1, <3>2, OneSoundProjection
    <3> QED
      BY <3>3 DEF q, hostID
  <2> QED
    BY <2>1, Zenon DEF GroupsSound, SoundGroups, Outcome, ProjectedSnapshots, AllCandidates,
                       CandidatesOf
<1> QED
  BY <1>1, IdentityStarts, IdentityKept, FreshInit, FreshStep, WorldInit, WorldStep,
     TypedInit, TypedStep, AnswerInit, AnswerStep, PTL DEF Spec

\* For any federation: every instance of an answered projection is the one that
\* its Host and its ID select, and the answer for a Host shows all of its
\* instances and no others, while each observation is of the Host that its peer
\* is expected to be (select.go:10, federation_host.go:28).
THEOREM InstancesAreSelectable == Spec => []InstanceSelectable
<1>1. ASSUME WorldInv, TypedInv, AnswerInv
      PROVE  InstanceSelectable
  <2>1. ASSUME NEW w \in Worker, Done(w, {"get_federation_status"}), work[w].answer.ok,
               \A peer \in ToSet(View(work[w], <<>>)["registry"].val) :
                  \A s \in ToSet(Observation(View(work[w], <<>>)["observations"],
                                             peer.name).val.snapshots) :
                     s.hostID = peer.hostID
        PROVE  LET p == work[w].answer.val
                   members == UNION {ToSet(g.instances) : g \in p.federation.repositories}
               IN  \A i \in members : Selects(p, members, i)
    <3> DEFINE q == work[w]
               hostID == held[Owner[w]]
    <3>1. /\ world \in DOMAIN Worlds /\ MachineSeen(World.machines, q)
          /\ q.op = "get_federation_status" /\ StepSet(q) \subseteq DOMAIN q.see
          /\ q.at \in Nat /\ q.answer = Answer(Made(q), hostID)
      BY <1>1, <2>1, DoneRequest
    <3>2. /\ q.answer.ok
          /\ \A peer \in ToSet(View(q, <<>>)["registry"].val) :
                \A s \in ToSet(Observation(View(q, <<>>)["observations"],
                                           peer.name).val.snapshots) :
                   s.hostID = peer.hostID
      BY <2>1
    <3> HIDE DEF q, hostID
    <3>3. LET p == Answer(Made(q), hostID).val
              members == UNION {ToSet(g.instances) : g \in p.federation.repositories}
          IN  \A i \in members : Selects(p, members, i)
      BY <3>1, <3>2, OneSelectable
    <3> QED
      BY <3>1, <3>3, Zenon DEF q
  <2> QED
    BY <2>1, Zenon DEF InstanceSelectable, Selects
<1> QED
  BY <1>1, IdentityStarts, IdentityKept, FreshInit, FreshStep, WorldInit, WorldStep,
     TypedInit, TypedStep, AnswerInit, AnswerStep, PTL DEF Spec

-----------------------------------------------------------------------------
(***************************************************************************)
(* The views of a repository agree: the list, the detail and the sessions. *)
(***************************************************************************)

\* The record of a root that is listed, of those of the catalog.
Eldest(catalog, root) ==
    {r \in catalog : r.root = root /\ \A s \in catalog : s.root = root => s.lastSeen >= r.lastSeen}

\* Every root of a catalog has a record that is listed.
LEMMA EldestExists ==
    ASSUME NEW catalog, PossibleCatalog(catalog), NEW one \in catalog
    PROVE  Eldest(catalog, one.root) # {}
<1> DEFINE mine == {r \in catalog : r.root = one.root}
           times == {r.lastSeen : r \in mine}
<1>1. times \in SUBSET Nat /\ times # {}
  BY DEF PossibleCatalog
<1>2. Min(times) \in times /\ \A t \in times : Min(times) <= t
  BY <1>1, MinNat
<1>3. PICK r \in mine : r.lastSeen = Min(times)
  BY <1>2
<1>4. \A s \in mine : s.lastSeen \in Nat /\ r.lastSeen <= s.lastSeen
  BY <1>1, <1>2, <1>3
<1>5. r.lastSeen \in Nat
  BY <1>3, <1>4
<1>6. \A s \in mine : s.lastSeen >= r.lastSeen
  BY <1>4, <1>5
<1> HIDE DEF times
<1> QED
  BY <1>3, <1>6 DEF Eldest

\* A listed repository is a record of the catalog, or lives where none is.
IsListed(r, catalog, live) ==
    /\ \/ \E x \in catalog : x.id = r.id /\ x.root = r.root
       \/ /\ r.id = RepositoryIDForRoot(r.root)
          /\ live.ok
          /\ r.root \in LiveRoots(live.val)
          /\ \A x \in catalog : x.root # r.root
    /\ live.ok => /\ r.active = (r.root \in LiveRoots(live.val))
                  /\ r.agents = AgentsAt(live.val, r.root)

LEMMA SummaryParts ==
    ASSUME NEW r
    PROVE  LET s == RepositorySummary(r)
           IN  /\ s.id = r.id /\ s.root = r.root
               /\ \A active, agents :
                     LET t == [s EXCEPT !.active = active, !.agents = agents]
                     IN  /\ t.id = r.id /\ t.root = r.root
                         /\ t.active = active /\ t.agents = agents
BY DEF RepositorySummary

LEMMA ListedFrom ==
    ASSUME NEW catalog, catalog.ok, PossibleCatalog(catalog.val), NEW live
    PROVE  LET list == ListRepositories(catalog, live)
           IN  /\ list.ok
               /\ \A r \in list.val.repositories : IsListed(r, catalog.val, live)
               /\ \A x \in catalog.val : \E r \in list.val.repositories : r.root = x.root
               /\ live.ok => \A root \in LiveRoots(live.val) :
                                \E r \in list.val.repositories : r.root = root
<1> DEFINE listed == {r \in catalog.val :
                         \A s \in catalog.val : s.root = r.root => s.lastSeen >= r.lastSeen}
           known == {r.root : r \in listed}
           Shown(root) == IF root \in known THEN CHOOSE r \in listed : r.root = root
                                        ELSE TransientRepository(root)
           At(root) == RepositorySummary(Shown(root))
           Live(root) == [At(root) EXCEPT !.active = root \in LiveRoots(live.val),
                                          !.agents = AgentsAt(live.val, root)]
           all == known \union LiveRoots(live.val)
           list == ListRepositories(catalog, live)
<1>1. list =
         IF ~live.ok THEN Ok([warned |-> TRUE, repositories |-> {At(root) : root \in known}])
         ELSE Ok([warned |-> FALSE, repositories |-> {Live(root) : root \in all}])
  BY DEF ListRepositories
<1>2. \A x \in catalog.val : x.root \in known
  <2> SUFFICES ASSUME NEW x \in catalog.val PROVE x.root \in known
    OBVIOUS
  <2>1. PICK r \in Eldest(catalog.val, x.root) : TRUE
    BY EldestExists
  <2> QED
    BY <2>1 DEF Eldest
<1>3. ASSUME NEW root
      PROVE  /\ root \in known => Shown(root) \in catalog.val /\ Shown(root).root = root
             /\ root \notin known => /\ Shown(root).id = RepositoryIDForRoot(root)
                                     /\ Shown(root).root = root
                                     /\ \A x \in catalog.val : x.root # root
  <2>1. CASE root \in known
    <3>1. \E r \in listed : r.root = root
      BY <2>1
    <3>2. Shown(root) \in listed /\ Shown(root).root = root
      BY <2>1, <3>1
    <3> QED
      BY <2>1, <3>2
  <2>2. CASE root \notin known
    <3>1. Shown(root) = TransientRepository(root)
      BY <2>2
    <3> QED
      BY <1>2, <2>2, <3>1 DEF TransientRepository
  <2> QED
    BY <2>1, <2>2
<1> HIDE DEF Shown, known, list
<1>4. \A root : /\ At(root).id = Shown(root).id /\ At(root).root = root
                /\ Live(root).id = Shown(root).id /\ Live(root).root = root
                /\ Live(root).active = (root \in LiveRoots(live.val))
                /\ Live(root).agents = AgentsAt(live.val, root)
  <2> TAKE root
  <2>1. Shown(root).root = root
    BY <1>3
  <2> QED
    BY <2>1, SummaryParts
<1> HIDE DEF At, Live
<1>5. CASE ~live.ok
  <2>1. list.ok /\ list.val.repositories = {At(root) : root \in known}
    BY <1>1, <1>5 DEF Ok
  <2>2. \A root \in known : IsListed(At(root), catalog.val, live)
    BY <1>3, <1>4, <1>5 DEF IsListed
  <2> QED
    BY <1>2, <1>4, <1>5, <2>1, <2>2 DEF list
<1>6. CASE live.ok
  <2>1. list.ok /\ list.val.repositories = {Live(root) : root \in all}
    BY <1>1, <1>6 DEF Ok
  <2>2. \A root \in all : IsListed(Live(root), catalog.val, live)
    BY <1>3, <1>4, <1>6 DEF IsListed
  <2>3. \A root \in all : \E r \in list.val.repositories : r.root = root
    BY <1>4, <2>1
  <2> QED
    BY <1>2, <2>1, <2>2, <2>3 DEF list
<1> QED
  BY <1>5, <1>6

\* A listed repository is found by its ID, and at its root.
LEMMA ListedFound ==
    ASSUME NEW catalog, catalog.ok, PossibleCatalog(catalog.val),
           NEW live, live.ok => PossibleSessions(live.val),
           NEW r, IsListed(r, catalog.val, live)
    PROVE  LET found == FindRepository(catalog, live, r.id)
           IN  found.ok /\ found.val.root = r.root
<1> DEFINE found == FindRepository(catalog, live, r.id)
           roots == {root \in LiveRoots(live.val) : RepositoryIDForRoot(root) = r.id}
           chosen == CHOOSE root \in roots : TRUE
<1>1. CASE \E x \in catalog.val : x.id = r.id
  <2> DEFINE one == CHOOSE x \in catalog.val : x.id = r.id
  <2>1. found = Ok(one)
    BY <1>1 DEF FindRepository, Then
  <2>2. one \in catalog.val /\ one.id = r.id
    BY <1>1
  <2> HIDE DEF one, found
  <2>3. one.root = r.root
    <3>1. CASE \E x \in catalog.val : x.id = r.id /\ x.root = r.root
      BY <2>2, <3>1 DEF PossibleCatalog
    <3>2. CASE /\ r.id = RepositoryIDForRoot(r.root)
               /\ live.ok
               /\ r.root \in LiveRoots(live.val)
      <4>1. r.root \in DOMAIN RootRank
        BY <3>2 DEF LiveRoots, PossibleSessions
      <4> QED
        BY <2>2, <3>2, <4>1 DEF PossibleCatalog
    <3> QED
      BY <3>1, <3>2 DEF IsListed
  <2> QED
    BY <2>1, <2>3, ResultsAre DEF found
<1>2. CASE ~\E x \in catalog.val : x.id = r.id
  <2>1. r.id = RepositoryIDForRoot(r.root) /\ live.ok /\ r.root \in LiveRoots(live.val)
    BY <1>2 DEF IsListed
  <2>2. found = Then(live, LAMBDA sessions :
                   IF {root \in LiveRoots(sessions) : RepositoryIDForRoot(root) = r.id} = {}
                   THEN Error
                   ELSE Ok(TransientRepository(
                            CHOOSE root \in {root \in LiveRoots(sessions) :
                                                RepositoryIDForRoot(root) = r.id} : TRUE)))
    BY <1>2 DEF FindRepository, Then
  <2>3. found = IF roots = {} THEN Error ELSE Ok(TransientRepository(chosen))
    BY <2>1, <2>2 DEF Then
  <2>4. r.root \in roots
    BY <2>1
  <2>5. chosen \in roots
    BY <2>4
  <2>6. chosen = r.root
    <3>1. RepositoryIDForRoot(chosen) = RepositoryIDForRoot(r.root)
      BY <2>1, <2>5
    <3> HIDE DEF chosen
    <3> QED
      BY <3>1 DEF RepositoryIDForRoot
  <2> HIDE DEF roots, chosen, found
  <2>7. found.ok /\ found.val = TransientRepository(chosen)
    BY <2>3, <2>4, ResultsAre
  <2> QED
    BY <2>6, <2>7 DEF found, TransientRepository
<1> QED
  BY <1>1, <1>2

\* Who lives at a root, when no session is without an agent.
LEMMA LivesAt ==
    ASSUME NEW live, \A s \in live : s.agent # "", NEW root, root # <<>>
    PROVE  AgentsAt(live, root) # {} <=> root \in LiveRoots(live)
<1>1. ASSUME NEW a \in AgentsAt(live, root) PROVE \E s \in live : s.root = root
  BY DEF AgentsAt
<1>2. ASSUME NEW s \in live, s.root = root PROVE s.agent \in AgentsAt(live, root)
  BY <1>2 DEF AgentsAt
<1>3. root \in LiveRoots(live) <=> \E s \in live : s.root = root
  BY DEF LiveRoots
<1> QED
  BY <1>1, <1>2, <1>3, Zenon

\* What a detail shows is what the list shows, as long as it is known who lives.
Agrees(one, r, live) ==
    /\ one.ok
    /\ one.val.repository.root = r.root
    /\ live.ok /\ (\A s \in live.val : s.agent # "") =>
          /\ one.val.repository.active = r.active
          /\ one.val.repository.agents = r.agents

\* The detail of a repository that is listed says what the list says.
LEMMA DetailAgrees ==
    ASSUME NEW catalog, catalog.ok, PossibleCatalog(catalog.val),
           NEW live, live.ok => PossibleSessions(live.val),
           NEW r, IsListed(r, catalog.val, live)
    PROVE  Agrees(GetRepository(catalog, live, live, Error, r.id), r, live)
<1> DEFINE found == FindRepository(catalog, live, r.id)
           summary == RepositorySummary(found.val)
           agents == AgentsAt(live.val, found.val.root)
           shown == IF ~live.ok THEN summary
                    ELSE [summary EXCEPT !.agents = agents, !.active = agents # {}]
           one == GetRepository(catalog, live, live, Error, r.id)
<1>1. found.ok /\ found.val.root = r.root
  BY ListedFound
<1>2. one = Then(found, LAMBDA x :
               Ok([warned |-> ~live.ok \/ ~Error.ok, source |-> Error,
                   repository |->
                      IF ~live.ok THEN RepositorySummary(x)
                      ELSE [RepositorySummary(x) EXCEPT !.agents = AgentsAt(live.val, x.root),
                           !.active = AgentsAt(live.val, x.root) # {}]]))
  BY DEF GetRepository
<1> HIDE DEF found, one
<1>3. one = Ok([warned |-> ~live.ok \/ ~Error.ok, source |-> Error, repository |-> shown])
  BY <1>1, <1>2 DEF Then
<1>4. one.ok /\ one.val.repository = shown
  BY <1>3, ResultsAre
<1>5. summary.root = r.root
  BY <1>1 DEF RepositorySummary
<1>6. live.ok => shown.root = r.root /\ shown.agents = agents /\ shown.active = (agents # {})
  BY <1>5 DEF RepositorySummary
<1>7. shown.root = r.root
  BY <1>5, <1>6
<1>8. ASSUME live.ok, \A s \in live.val : s.agent # ""
      PROVE  shown.active = r.active /\ shown.agents = r.agents
  <2>1. r.active = (r.root \in LiveRoots(live.val)) /\ r.agents = AgentsAt(live.val, r.root)
    BY <1>8 DEF IsListed
  <2>2. agents = AgentsAt(live.val, r.root)
    BY <1>1
  <2>3. r.root # <<>>
    <3>1. CASE \E x \in catalog.val : x.id = r.id /\ x.root = r.root
      BY <3>1, RankAssumption DEF PossibleCatalog
    <3>2. CASE r.root \in LiveRoots(live.val)
      BY <3>2 DEF LiveRoots
    <3> QED
      BY <3>1, <3>2 DEF IsListed
  <2>4. AgentsAt(live.val, r.root) # {} <=> r.root \in LiveRoots(live.val)
    BY <1>8, <2>3, LivesAt
  <2>5. shown.active = (agents # {}) /\ shown.agents = agents
    BY <1>6, <1>8
  <2> HIDE DEF shown, agents
  <2> QED
    BY <2>1, <2>2, <2>4, <2>5
<1> HIDE DEF shown
<1> QED
  BY <1>4, <1>7, <1>8 DEF one, Agrees

\* The machine is in a state of its world.
LEMMA MachineNow ==
    ASSUME WorldInv
    PROVE  /\ now.catalog.ok => PossibleCatalog(now.catalog.val)
           /\ now.live.ok => PossibleSessions(now.live.val)
BY MachinesAssumption DEF WorldInv, World

LEMMA ViewsAgree == WorldInv => RepositoryViewsAgree
<1> DEFINE catalog == now.catalog
           live == now.live
           list == ListRepositories(catalog, live)
           sessions == ListActiveSessions(catalog, live)
           At(id) == GetRepository(catalog, live, live, Error, id)
<1> SUFFICES ASSUME WorldInv, Quiet, list.ok
             PROVE
      /\ \A r \in list.val.repositories :
            /\ At(r.id).ok
            /\ At(r.id).val.repository.root = r.root
            /\ live.ok /\ (\A s \in live.val : s.agent # "") =>
                  /\ At(r.id).val.repository.active = r.active
                  /\ At(r.id).val.repository.agents = r.agents
                  /\ r.active <=> \E s \in sessions.val :
                                    s.repositoryID = RepositoryIDForRoot(r.root)
      /\ live.ok => \A s \in sessions.val : s.root # <<>> =>
            \E r \in list.val.repositories :
               r.root = s.root /\ (r.id = s.repositoryID \/ r.id \in {x.id : x \in Recorded})
  BY Zenon DEF RepositoryViewsAgree
<1>1. catalog.ok /\ PossibleCatalog(catalog.val) /\ (live.ok => PossibleSessions(live.val))
  BY MachineNow DEF ListRepositories, Error
<1>2. Recorded = catalog.val
  BY <1>1 DEF Recorded
<1> HIDE DEF list, catalog, live
<1>3. /\ \A r \in list.val.repositories : IsListed(r, catalog.val, live)
      /\ live.ok => \A root \in LiveRoots(live.val) :
                       \E r \in list.val.repositories : r.root = root
  BY <1>1, ListedFrom DEF list
<1>4. ASSUME live.ok
      PROVE  /\ \A s \in sessions.val : /\ \E x \in live.val : s.root = x.root
                                        /\ s.repositoryID = RepositoryIDForRoot(s.root)
             /\ \A x \in live.val : \E s \in sessions.val :
                   s.root = x.root /\ s.repositoryID = RepositoryIDForRoot(x.root)
  <2>1. sessions.val = {[id |-> s.id, agent |-> s.agent, root |-> s.root,
                         repositoryID |-> RepositoryIDForRoot(s.root)] : s \in live.val}
    BY <1>1, <1>4 DEF ListActiveSessions, Ok
  <2> HIDE DEF sessions
  <2> DEFINE Shown(s) == [id |-> s.id, agent |-> s.agent, root |-> s.root,
                       repositoryID |-> RepositoryIDForRoot(s.root)]
  <2>2. \A s : Shown(s).root = s.root /\ Shown(s).repositoryID = RepositoryIDForRoot(s.root)
    OBVIOUS
  <2>3. sessions.val = {Shown(s) : s \in live.val}
    BY <2>1
  <2> HIDE DEF Shown
  <2> QED
    BY <2>2, <2>3
<1> HIDE DEF sessions
<1>5. ASSUME NEW r \in list.val.repositories
      PROVE  /\ At(r.id).ok
             /\ At(r.id).val.repository.root = r.root
             /\ live.ok /\ (\A s \in live.val : s.agent # "") =>
                   /\ At(r.id).val.repository.active = r.active
                   /\ At(r.id).val.repository.agents = r.agents
  <2>1. IsListed(r, catalog.val, live)
    BY <1>3
  <2>2. Agrees(At(r.id), r, live)
    BY <1>1, <2>1, DetailAgrees
  <2> QED
    BY <2>2 DEF Agrees
<1>6. ASSUME NEW r \in list.val.repositories, live.ok
      PROVE  r.active <=> \E s \in sessions.val : s.repositoryID = RepositoryIDForRoot(r.root)
  <2>1. r.active = (r.root \in LiveRoots(live.val))
    BY <1>3, <1>6 DEF IsListed
  <2>2. r.root # <<>>
    <3>1. IsListed(r, catalog.val, live)
      BY <1>3
    <3>2. CASE \E x \in catalog.val : x.id = r.id /\ x.root = r.root
      BY <1>1, <3>2, RankAssumption DEF PossibleCatalog
    <3>3. CASE r.root \in LiveRoots(live.val)
      BY <3>3 DEF LiveRoots
    <3> QED
      BY <3>1, <3>2, <3>3 DEF IsListed
  <2>3. \A a, b : RepositoryIDForRoot(a) = RepositoryIDForRoot(b) => a = b
    BY DEF RepositoryIDForRoot
  <2>4. r.root \in LiveRoots(live.val) <=> \E x \in live.val : x.root = r.root
    BY <2>2 DEF LiveRoots
  <2>5. (\E x \in live.val : x.root = r.root) <=>
           \E s \in sessions.val : s.repositoryID = RepositoryIDForRoot(r.root)
    BY <1>4, <1>6, <2>3
  <2> QED
    BY <2>1, <2>4, <2>5
<1>7. ASSUME live.ok, NEW s \in sessions.val, s.root # <<>>
      PROVE  \E r \in list.val.repositories :
                r.root = s.root /\ (r.id = s.repositoryID \/ r.id \in {x.id : x \in Recorded})
  <2>1. s.root \in LiveRoots(live.val) /\ s.repositoryID = RepositoryIDForRoot(s.root)
    BY <1>4, <1>7 DEF LiveRoots
  <2>2. PICK r \in list.val.repositories : r.root = s.root
    BY <1>3, <1>7, <2>1
  <2>3. IsListed(r, catalog.val, live)
    BY <1>3
  <2>4. (\E x \in catalog.val : x.id = r.id) \/ r.id = RepositoryIDForRoot(r.root)
    BY <2>3 DEF IsListed
  <2> QED
    BY <1>2, <2>1, <2>2, <2>4
<1> HIDE DEF At
<1> QED
  BY <1>5, <1>6, <1>7

\* For any catalog, any live sessions and any lastSeen: what the list, the detail
\* and the sessions say of a repository is the same, also of one that only lives
\* and of one whose record has the ID of an old catalog (work_reader.go:152).
THEOREM RepositoriesAgree == Spec => []RepositoryViewsAgree
<1> QED
  BY WorldInit, WorldStep, ViewsAgree, PTL DEF Spec

-----------------------------------------------------------------------------
(***************************************************************************)
(* The page of a Host links what needs attention.                          *)
(***************************************************************************)

\* The line of a Host is one of the projection.
LEMMA HostLine ==
    ASSUME NEW projection, Listing(projection.hosts), NEW hostID, SelectHost(projection, hostID).ok
    PROVE  LET h == SelectHost(projection, hostID).val
           IN  h \in ToSet(projection.hosts) /\ h.hostID = hostID
<1> DEFINE hosts == projection.hosts
           I == {i \in 1..Len(hosts) : hosts[i].hostID = hostID}
           found == IF I # {} THEN Min(I) ELSE 0
<1>1. SelectHost(projection, hostID) = IF found = 0 THEN Error ELSE Ok(hosts[found])
  BY DEF SelectHost, SelectInSeq
<1>2. I \in SUBSET Nat /\ \A i \in I : hosts[i] \in ToSet(hosts) /\ hosts[i].hostID = hostID
  BY FiniteListing DEF ToSet
<1> HIDE DEF I
<1>3. found # 0 => found \in I
  BY <1>2, MinNat
<1> HIDE DEF found, hosts
<1>4. found # 0 /\ SelectHost(projection, hostID) = Ok(hosts[found])
  BY <1>1, ResultsAre
<1>5. SelectHost(projection, hostID).val = hosts[found]
  BY <1>4, ResultsAre
<1> QED
  BY <1>2, <1>3, <1>4, <1>5 DEF hosts

\* The only local line is that of this Host.
LEMMA LocalLine ==
    ASSUME NEW own, NEW registry, registry \in Seq(ToSet(registry)), NEW observations,
           NEW h \in ToSet(<<LocalHostStatus(own)>> \o PeerStatus(registry, observations)),
           h.source = "local"
    PROVE  h = LocalHostStatus(own)
<1> DEFINE one == <<LocalHostStatus(own)>>
           peers == PeerStatus(registry, observations)
           n == Len(registry)
<1>1. n \in Nat /\ DOMAIN registry = 1..n
  OBVIOUS
<1> HIDE DEF n
<1>2. \A i \in 1..n : peers[i] =
         PeerHostStatus(registry[i], Observation(observations, registry[i].name).val.snapshots)
  BY <1>1 DEF PeerStatus
<1>3. peers = [i \in 1..n |-> peers[i]]
  BY <1>1 DEF PeerStatus
<1> HIDE DEF peers
<1>4. Listing(peers) /\ DOMAIN peers = 1..n
  BY <1>1, <1>3, ListingOf
<1>5. \A p, snapshots : PeerHostStatus(p, snapshots).source = "peer"
  BY DEF PeerHostStatus
<1>6. \A x \in ToSet(peers) : x.source = "peer"
  BY <1>2, <1>4, <1>5 DEF ToSet
<1>7. Listing(one) /\ ToSet(one) = {LocalHostStatus(own)}
  BY ListingTuples, ToSetTuples
<1> HIDE DEF one
<1>8. ToSet(one \o peers) = ToSet(one) \union ToSet(peers)
  BY <1>4, <1>7, ListingConcat
<1>9. h \in ToSet(one \o peers)
  BY DEF one, peers
<1> QED
  BY <1>6, <1>7, <1>8, <1>9

\* What a page links to: the only one of these repositories.
HrefOf(same) ==
    IF Cardinality(same) = 1 THEN (CHOOSE r \in same : TRUE).instance.id ELSE <<>>

\* The repositories a page shows of a Host that came from one of its own.
ShownFrom(projection, hostID, id) ==
    {r \in RepositoriesForHost(projection, hostID) : r.instance.source = id}

\* What a page of a Host is made of (web/federation_host_page.go:85).
LEMMA PageParts ==
    ASSUME NEW projection, NEW hostID, FederationHostPage(projection, hostID).ok
    PROVE  LET page == FederationHostPage(projection, hostID).val
               host == SelectHost(projection, hostID).val
           IN  /\ SelectHost(projection, hostID).ok /\ page.host = host
               /\ page.repositories = RepositoriesForHost(projection, hostID)
               /\ \A a \in page.attention :
                     /\ host.controlPlane # NoControlPlane
                     /\ a.item \in host.controlPlane.attention
                     /\ a.href = HrefOf(ShownFrom(projection, hostID, a.item.id))
<1> DEFINE found == SelectHost(projection, hostID)
           host == found.val
           shown == RepositoriesForHost(projection, hostID)
           From(item) == {r \in shown : r.instance.source = item.id}
           Linked(a) == [item |-> a, href |-> HrefOf(From(a))]
           attention == IF host.controlPlane = NoControlPlane THEN {}
                        ELSE {Linked(a) : a \in host.controlPlane.attention}
           answer == FederationHostPage(projection, hostID)
<1>1. answer = Then(found, LAMBDA h : Ok([host |-> h, repositories |-> shown,
                  attention |-> IF h.controlPlane = NoControlPlane THEN {}
                                ELSE {[item |-> a, href |-> HrefOf(From(a))] :
                                         a \in h.controlPlane.attention}]))
  BY Zenon DEF FederationHostPage, LinkedRepositories, HrefOf
<1>2. found.ok
  <2>1. ~found.ok => answer = Error
    BY <1>1, Zenon DEF Then
  <2> HIDE DEF answer
  <2>2. answer.ok
    BY DEF answer
  <2> QED
    BY <2>1, <2>2, ResultsAre
<1>3. answer = Ok([host |-> host, repositories |-> shown, attention |-> attention])
  BY <1>1, <1>2, Zenon DEF Then
<1> HIDE DEF answer, attention, shown, host
<1>4. answer.val.host = host /\ answer.val.repositories = shown /\ answer.val.attention = attention
  BY <1>3, ResultsAre
<1>5. ASSUME NEW a \in attention
      PROVE  /\ host.controlPlane # NoControlPlane
             /\ a.item \in host.controlPlane.attention
             /\ a.href = HrefOf(ShownFrom(projection, hostID, a.item.id))
  <2>1. host.controlPlane # NoControlPlane
    BY DEF attention
  <2>2. PICK x \in host.controlPlane.attention : a = Linked(x)
    BY <2>1, Zenon DEF attention
  <2>3. a.item = x /\ a.href = HrefOf(From(x))
    BY <2>2
  <2> HIDE DEF Linked
  <2>4. From(x) = ShownFrom(projection, hostID, x.id)
    BY DEF ShownFrom, shown
  <2> HIDE DEF From
  <2> QED
    BY <2>1, <2>3, <2>4
<1> QED
  BY <1>2, <1>4, <1>5 DEF answer, shown, host

\* What is linked to is shown, and came from that repository.
LEMMA LinkIsShown ==
    ASSUME NEW projection, NEW hostID, NEW id,
           HrefOf(ShownFrom(projection, hostID, id)) # <<>>
    PROVE  \E r \in RepositoriesForHost(projection, hostID) :
              /\ r.instance.id = HrefOf(ShownFrom(projection, hostID, id))
              /\ r.instance.source = id /\ r.instance.hostID = hostID
<1> DEFINE same == ShownFrom(projection, hostID, id)
           one == CHOOSE r \in same : TRUE
<1>1. /\ same \subseteq RepositoriesForHost(projection, hostID)
      /\ \A r \in same : r.instance.source = id
  BY DEF ShownFrom
<1>2. Cardinality(same) = 1 /\ HrefOf(same) = one.instance.id
  BY DEF HrefOf
<1> HIDE DEF same
<1>3. same # {}
  <2>1. Cardinality({}) # 1
    BY FS_EmptySet
  <2> QED
    BY <1>2, <2>1, Zenon
<1>4. one \in same
  BY <1>3
<1> HIDE DEF one
<1>5. \A r \in RepositoriesForHost(projection, hostID) : r.instance.hostID = hostID
  BY HostInstances
<1> QED
  BY <1>1, <1>2, <1>4, <1>5 DEF same

\* A snapshot is kept when there is no later one of its Host.
LEMMA LastIsKept ==
    ASSUME NEW kept, NEW seen, KeptFrom(kept, seen), NEW own \in seen,
           \A s \in seen : s.observed \in Nat,
           \A s \in seen : s.hostID = own.hostID => s.observed <= own.observed
    PROVE  own \in kept
<1>1. PICK x \in kept : x.hostID = own.hostID /\ own.observed <= x.observed
  BY DEF KeptFrom
<1>2. x \in seen
  BY DEF KeptFrom
<1>3. x.observed = own.observed
  BY <1>1, <1>2
<1> QED
  BY <1>1, <1>3 DEF KeptFrom

\* An instance of a snapshot that is kept is shown once.
LEMMA OneShown ==
    ASSUME NEW current, OnePerHost(current), NEW own \in current,
           NEW placed, PlacedFrom(placed, AllCandidates(current), AllCandidates(current)),
           NEW projection, projection.federation = Federation(current, placed),
           NEW i \in ToSet(own.instances),
           \A j \in ToSet(own.instances) : j.source = i.source => j = i
    PROVE  HrefOf(ShownFrom(projection, own.hostID, i.source)) = i.id
<1> DEFINE C == AllCandidates(current)
           G == projection.federation.repositories
           shown == RepositoriesForHost(projection, own.hostID)
           same == ShownFrom(projection, own.hostID, i.source)
           x == Sourced(own, i)
<1>1. \A s, j : Sourced(s, j).hostID = s.hostID /\ Sourced(s, j).source = j.source
                /\ Sourced(s, j).id = j.id
  BY DEF Sourced
<1>2. x \in C
  <2>1. x \in CandidatesOf(own)
    BY DEF CandidatesOf, ToSet
  <2> HIDE DEF x
  <2> QED
    BY <2>1 DEF AllCandidates
<1>3. \A y \in C : y.hostID = own.hostID /\ y.source = i.source => y = x
  <2> SUFFICES ASSUME NEW y \in C, y.hostID = own.hostID, y.source = i.source PROVE y = x
    OBVIOUS
  <2>1. PICK s \in current : y \in CandidatesOf(s)
    BY DEF AllCandidates
  <2>2. PICK j \in ToSet(s.instances) : y = Sourced(s, j)
    BY <2>1 DEF CandidatesOf, ToSet
  <2>3. s = own
    BY <1>1, <2>2 DEF OnePerHost
  <2>4. j = i
    BY <1>1, <2>2, <2>3
  <2> QED
    BY <2>2, <2>3, <2>4
<1>4. UNION {ToSet(g.instances) : g \in G} = C
  BY FederationGroups
<1>5. \A g, h \in G : g # h => ToSet(g.instances) \intersect ToSet(h.instances) = {}
  <2>1. SoundGroups(Federation(current, placed), C)
    BY SoundFederation
  <2> QED
    BY <2>1, Zenon DEF SoundGroups, G
<1> HIDE DEF C, G
<1>6. PICK g \in G : x \in ToSet(g.instances)
  BY <1>2, <1>4
<1> DEFINE r == [group |-> g, instance |-> x]
<1>7. shown = UNION {{[group |-> h, instance |-> y] :
                        y \in {z \in ToSet(h.instances) : z.hostID = own.hostID}} : h \in G}
  BY Zenon DEF RepositoriesForHost, G
<1>8. \A t \in shown : \E h \in G : \E y \in ToSet(h.instances) :
         y.hostID = own.hostID /\ t = [group |-> h, instance |-> y]
  BY <1>7
<1>9. same = {t \in shown : t.instance.source = i.source}
  BY DEF ShownFrom
<1>10. x.hostID = own.hostID /\ x.source = i.source /\ x.id = i.id
  BY <1>1
<1> HIDE DEF x, shown, same
<1>11. r \in shown
  <2> DEFINE here == {z \in ToSet(g.instances) : z.hostID = own.hostID}
             Part(h) == {[group |-> h, instance |-> y] :
                            y \in {z \in ToSet(h.instances) : z.hostID = own.hostID}}
  <2>1. x \in here
    BY <1>6, <1>10
  <2>2. r \in Part(g)
    BY <2>1, Zenon
  <2>3. shown = UNION {Part(h) : h \in G}
    BY <1>7, Zenon
  <2> HIDE DEF Part, r
  <2> QED
    BY <2>2, <2>3
<1>12. ASSUME NEW t \in same PROVE t = r
  <2>1. t \in shown /\ t.instance.source = i.source
    BY <1>9
  <2>2. PICK h \in G : \E y \in ToSet(h.instances) :
           y.hostID = own.hostID /\ t = [group |-> h, instance |-> y]
    BY <1>8, <2>1
  <2>3. PICK y \in ToSet(h.instances) :
           y.hostID = own.hostID /\ t = [group |-> h, instance |-> y]
    BY <2>2
  <2>4. y \in C /\ y.source = i.source
    BY <1>4, <2>1, <2>3
  <2>5. y = x
    BY <1>3, <2>3, <2>4
  <2>6. h = g
    BY <1>5, <1>6, <2>3, <2>5
  <2> QED
    BY <2>3, <2>5, <2>6
<1>13. r.instance = x
  OBVIOUS
<1> HIDE DEF r
<1>14. same = {r}
  BY <1>9, <1>10, <1>11, <1>12, <1>13
<1>15. Cardinality(same) = 1
  BY <1>14, FS_Singleton
<1>16. (CHOOSE t \in same : TRUE) = r
  BY <1>14
<1> QED
  BY <1>10, <1>13, <1>15, <1>16 DEF HrefOf, same

\* What needs attention was counted.
LEMMA SummaryAttention ==
    ASSUME NEW latestEvidence, NEW history, NEW counted
    PROVE  LET summary == HostSummary(latestEvidence, history, counted)
           IN  /\ "attention" \in DOMAIN summary
               /\ \A a \in summary.attention : \E n \in counted : a.id = n.id
<1> DEFINE Noted(n) == [id |-> n.id, signals |-> {<<c, n.counts[c]>> : c \in Raised(n)}]
           attention == {Noted(n) : n \in {x \in counted : Raised(x) # {}}}
           summary == HostSummary(latestEvidence, history, counted)
<1>1. "attention" \in DOMAIN summary /\ summary.attention = attention
  BY DEF HostSummary
<1>2. \A n : Noted(n).id = n.id
  OBVIOUS
<1> HIDE DEF Noted, summary
<1>3. \A a \in attention : \E n \in counted : a.id = n.id
  BY <1>2
<1> HIDE DEF attention
<1> QED
  BY <1>1, <1>3 DEF summary

\* The totals of a Host are there when its catalog is, and what needs attention
\* on it are repositories of that catalog.
LEMMA HostAnswerParts ==
    ASSUME NEW q
    PROVE  LET catalog == View(q, <<>>)["hostCatalog"]
           IN  /\ HostAnswer(q).ok <=> catalog.ok
               /\ catalog.ok =>
                     /\ "attention" \in DOMAIN HostAnswer(q).val
                     /\ \A a \in HostAnswer(q).val.attention : \E r \in catalog.val : a.id = r.id
<1> DEFINE catalog == View(q, <<>>)["hostCatalog"]
           ids == {r.id : r \in catalog.val}
           files == [id \in ids |-> q.see[<<"host", <<id>>>>]]
           git == [id \in ids |-> LET step == <<"hostGit", <<id>>>>
                                  IN  IF step \in DOMAIN q.see THEN q.see[step] ELSE Error]
           answer == HostAnswer(q)
<1>1. answer = GetHostControlPlane(catalog, files, git)
  BY Zenon DEF HostAnswer
<1> HIDE DEF catalog, files, git, answer
<1>2. CASE ~catalog.ok
  <2>1. answer = Error
    BY <1>1, <1>2, Zenon DEF GetHostControlPlane, Then
  <2> QED
    BY <1>2, <2>1, ResultsAre DEF catalog, answer
<1>3. CASE catalog.ok
  <2> DEFINE Counted(r) == [id |-> r.id, counts |-> HostCounts(files[r.id], git[r.id], r)]
             counted == {Counted(r) : r \in catalog.val}
             history == History(catalog.val)
             summary == HostSummary(LatestEvidence(files, catalog.val), history, counted)
  <2>1. answer = Ok(summary)
    BY <1>1, <1>3, Zenon DEF GetHostControlPlane, Then
  <2> HIDE DEF summary
  <2>2. answer.ok /\ answer.val = summary
    BY <2>1, ResultsAre
  <2>3. \A r : Counted(r).id = r.id
    OBVIOUS
  <2> HIDE DEF Counted
  <2>4. /\ "attention" \in DOMAIN summary
        /\ \A a \in summary.attention : \E n \in counted : a.id = n.id
    <3> DEFINE latest == LatestEvidence(files, catalog.val)
    <3>1. summary = HostSummary(latest, history, counted)
      BY DEF summary
    <3> HIDE DEF latest, history, counted
    <3> QED
      BY <3>1, SummaryAttention
  <2>5. \A n \in counted : \E r \in catalog.val : n.id = r.id
    BY <2>3
  <2> HIDE DEF counted
  <2>6. \A a \in summary.attention : \E r \in catalog.val : a.id = r.id
    BY <2>4, <2>5, Zenon
  <2> QED
    BY <1>3, <2>2, <2>4, <2>6 DEF catalog, answer
<1> QED
  BY <1>2, <1>3

\* The first record of a root is listed by its ID.
LEMMA AloneListed ==
    ASSUME NEW catalog, catalog.ok, PossibleCatalog(catalog.val), NEW live,
           NEW x \in catalog.val, \A s \in catalog.val : s.root = x.root => s = x
    PROVE  \E r \in ListRepositories(catalog, live).val.repositories : r.id = x.id
<1>1. PICK r \in ListRepositories(catalog, live).val.repositories : r.root = x.root
  BY ListedFrom
<1>2. IsListed(r, catalog.val, live)
  BY ListedFrom
<1>3. \E s \in catalog.val : s.id = r.id /\ s.root = r.root
  BY <1>1, <1>2 DEF IsListed
<1> QED
  BY <1>1, <1>3

\* A repository is found by its ID.
LEMMA FoundID ==
    ASSUME NEW catalog, NEW live, NEW id, FindRepository(catalog, live, id).ok
    PROVE  FindRepository(catalog, live, id).val.id = id
<1> DEFINE found == FindRepository(catalog, live, id)
           mine == {r \in catalog.val : r.id = id}
           one == CHOOSE r \in catalog.val : r.id = id
           roots == {root \in LiveRoots(live.val) : RepositoryIDForRoot(root) = id}
           chosen == CHOOSE root \in roots : TRUE
<1>1. catalog.ok
  BY DEF FindRepository, Then, Error
<1>2. CASE mine # {}
  <2>1. found = Ok(one)
    BY <1>1, <1>2 DEF FindRepository, Then
  <2>2. one.id = id
    BY <1>2
  <2> HIDE DEF found, one
  <2>3. found.val = one
    BY <2>1, ResultsAre
  <2> QED
    BY <2>2, <2>3 DEF found
<1>3. CASE mine = {}
  <2>1. found = Then(live, LAMBDA sessions :
                   IF {root \in LiveRoots(sessions) : RepositoryIDForRoot(root) = id} = {}
                   THEN Error
                   ELSE Ok(TransientRepository(
                            CHOOSE root \in {root \in LiveRoots(sessions) :
                                                RepositoryIDForRoot(root) = id} : TRUE)))
    BY <1>1, <1>3 DEF FindRepository, Then
  <2>2. live.ok
    BY <2>1 DEF Then, Error
  <2>3. found = IF roots = {} THEN Error ELSE Ok(TransientRepository(chosen))
    BY <2>1, <2>2 DEF Then
  <2> HIDE DEF roots, chosen
  <2>4. roots # {} /\ found = Ok(TransientRepository(chosen))
    BY <2>3 DEF Error
  <2>5. RepositoryIDForRoot(chosen) = id
    BY <2>4 DEF chosen, roots
  <2> HIDE DEF found
  <2>6. found.val = TransientRepository(chosen)
    BY <2>4, ResultsAre
  <2>7. TransientRepository(chosen).id = RepositoryIDForRoot(chosen)
    BY DEF TransientRepository
  <2> QED
    BY <2>5, <2>6, <2>7 DEF found
<1> QED
  BY <1>2, <1>3

\* What is built for one repository of the list.
BuiltOf(q, hostID, id) ==
    LET sessions == ListActiveSessions(View(q, <<>>)["sessionCatalog"],
                                       View(q, <<>>)["sessionLive"])
        known == IF sessions.ok THEN sessions.val ELSE {}
        seen == Detail(q, id)
    IN  Then(seen.detail, LAMBDA detail : BuildInstance(hostID, detail, known, seen.dir))

\* Instances are built of the repositories that are listed.
LEMMA BuiltAre ==
    ASSUME NEW q, NEW hostID
    PROVE  BuiltDetails(q, hostID) = {BuiltOf(q, hostID, r.id) : r \in Listed(q).val.repositories}
BY Zenon DEF BuiltDetails, BuiltOf

\* It names the repository it is built for.
LEMMA BuiltSource ==
    ASSUME NEW q, NEW hostID, NEW id, BuiltOf(q, hostID, id).ok
    PROVE  BuiltOf(q, hostID, id).val.source = id
<1> DEFINE sessions == ListActiveSessions(View(q, <<>>)["sessionCatalog"],
                                          View(q, <<>>)["sessionLive"])
           known == IF sessions.ok THEN sessions.val ELSE {}
           seen == Detail(q, id)
           detail == seen.detail.val
           dir == seen.dir
           built == BuiltOf(q, hostID, id)
<1>1. built = Then(seen.detail, LAMBDA x : BuildInstance(hostID, x, known, dir))
  BY Zenon DEF BuiltOf
<1> HIDE DEF known, sessions
<1>2. seen.detail.ok
  <2>1. ~seen.detail.ok => built = Error
    BY <1>1, Zenon DEF Then
  <2> HIDE DEF built
  <2>2. built.ok
    BY DEF built
  <2> QED
    BY <2>1, <2>2, ResultsAre
<1>3. built = BuildInstance(hostID, detail, known, dir)
  BY <1>1, <1>2, Zenon DEF Then
<1>4. detail.repository.id = id
  <2> DEFINE see == View(q, <<id>>)
             scan == see["scan"]
             source == Source(q, <<"git", <<id>>>>)
             found == FindRepository(see["catalog"], see["live"], id)
             answer == GetRepository(see["catalog"], see["live"], scan, source, id)
             summary == RepositorySummary(found.val)
             shown == IF ~scan.ok THEN summary
                      ELSE [summary EXCEPT !.agents = AgentsAt(scan.val, found.val.root),
                                           !.active = AgentsAt(scan.val, found.val.root) # {}]
  <2>1. seen.detail = answer
    <3>1. [detail |-> Error].detail = Error /\ ~Error.ok
      BY DEF Error
    <3> QED
      BY <1>2, <3>1 DEF Detail
  <2> HIDE DEF see, scan, source, seen
  <2>2. found.ok
    BY <1>2, <2>1, ResultsAre DEF GetRepository, Then
  <2>3. answer = Ok([warned |-> ~scan.ok \/ ~source.ok, source |-> source,
                     repository |-> shown])
    BY <2>2 DEF GetRepository, Then
  <2>4. shown.id = summary.id /\ summary.id = found.val.id
    BY DEF RepositorySummary
  <2>5. found.val.id = id
    BY <2>2, FoundID
  <2> HIDE DEF answer, shown, summary, found
  <2>6. answer.val.repository = shown
    BY <2>3, ResultsAre
  <2> QED
    BY <2>1, <2>4, <2>5, <2>6
<1> HIDE DEF detail, dir, seen, built
<1>5. built.ok
  BY DEF built
<1>6. BuildInstance(hostID, detail, known, dir).val.source = detail.repository.id
  BY <1>3, <1>5, BuiltInstance
<1> QED
  BY <1>3, <1>4, <1>6 DEF built

\* What is built is an instance or an error.
LEMMA BuiltOrError ==
    ASSUME NEW q, NEW hostID, NEW id, BuiltOf(q, hostID, id) # Error
    PROVE  BuiltOf(q, hostID, id).ok
<1> DEFINE sessions == ListActiveSessions(View(q, <<>>)["sessionCatalog"],
                                          View(q, <<>>)["sessionLive"])
           known == IF sessions.ok THEN sessions.val ELSE {}
           seen == Detail(q, id)
           detail == seen.detail.val
           dir == seen.dir
           built == BuiltOf(q, hostID, id)
<1>1. built = Then(seen.detail, LAMBDA x : BuildInstance(hostID, x, known, dir))
  BY Zenon DEF BuiltOf
<1>2. built # Error
  OBVIOUS
<1> HIDE DEF known, sessions, built
<1>3. seen.detail.ok
  <2>1. ~seen.detail.ok => built = Error
    BY <1>1, Zenon DEF Then
  <2> QED
    BY <1>2, <2>1
<1>4. built = BuildInstance(hostID, detail, known, dir)
  BY <1>1, <1>3, Zenon DEF Then
<1> HIDE DEF detail, dir, seen
<1>5. built.ok
  BY <1>2, <1>4, ResultsAre DEF BuildInstance
<1> QED
  BY <1>5 DEF built

\* Each listed repository has one instance in the snapshot of this Host.
LEMMA OneBuilt ==
    ASSUME NEW q, NEW hostID, Error \notin BuiltDetails(q, hostID),
           NEW r \in Listed(q).val.repositories
    PROVE  LET I == {b.val : b \in BuiltDetails(q, hostID)}
           IN  \E i \in I : i.source = r.id /\ \A j \in I : j.source = r.id => j = i
<1> DEFINE R == Listed(q).val.repositories
           B == BuiltDetails(q, hostID)
           I == {b.val : b \in B}
           one == BuiltOf(q, hostID, r.id)
<1>1. B = {BuiltOf(q, hostID, x.id) : x \in R}
  BY BuiltAre
<1>2. ASSUME NEW x \in R
      PROVE  BuiltOf(q, hostID, x.id) \in B /\ BuiltOf(q, hostID, x.id).val.source = x.id
  <2>1. BuiltOf(q, hostID, x.id) \in B
    BY <1>1
  <2>2. BuiltOf(q, hostID, x.id) # Error
    BY <2>1
  <2>3. BuiltOf(q, hostID, x.id).ok
    BY <2>2, BuiltOrError
  <2> QED
    BY <2>1, <2>3, BuiltSource
<1> HIDE DEF B, R
<1>3. r \in R
  BY DEF R
<1>4. one.val \in I /\ one.val.source = r.id
  BY <1>2, <1>3
<1>5. ASSUME NEW j \in I, j.source = r.id PROVE j = one.val
  <2>1. PICK x \in R : j = BuiltOf(q, hostID, x.id).val
    BY <1>1
  <2>2. x.id = r.id
    BY <1>2, <1>5, <2>1
  <2> QED
    BY <2>1, <2>2
<1> HIDE DEF one
<1> QED
  BY <1>4, <1>5 DEF B

\* A value is changed nowhere but where it is.
LEMMA WithKeeps ==
    ASSUME NEW f, NEW x, NEW y, y \in DOMAIN f, x # y, NEW v
    PROVE  With(f, x, v)[y] = f[y]
BY DEF With

\* One page of a Host that was answered.
LEMMA OneLinkedPage ==
    ASSUME world \in DOMAIN Worlds, NEW q, MachineSeen(World.machines, q),
           q.op = "/federation/host", StepSet(q) \subseteq DOMAIN q.see, q.at \in Nat,
           NEW hostID, Answer(Made(q), hostID).ok
    PROVE  LinkedPage(Answer(Made(q), hostID).val, View(q, <<>>))
<1> DEFINE m == Made(q)
           see == View(q, <<>>)
           result == ProjectionAnswer(m, hostID)
           p == result.val
           shownID == Arg(q, "host_id")
           page == Answer(m, hostID).val
           own == SnapshotAnswer(m, hostID).val
           registry == see["registry"].val
           observations == see["observations"]
           all == AllSnapshots(own, registry, observations)
           current == CurrentSnapshots(all).val
           placed == PlacedCandidates(Candidates(current))
           C == AllCandidates(current)
<1>1. q.op \in FederationOps
  BY DEF FederationOps
<1>2. result.ok /\ Answer(m, hostID) = Selected(m, p)
  BY <1>1, AnswerFederation, ResultsAre
<1>3. Selected(m, p) = FederationHostPage(p, shownID)
  <2>1. m.op = "/federation/host" /\ Arg(m, "host_id") = shownID
    BY ViewWanted
  <2> HIDE DEF m
  <2> QED
    BY <2>1, Zenon DEF Selected
<1>4. /\ registry \in Seq(ToSet(registry))
      /\ SnapshotAnswer(m, hostID).ok /\ PossibleSnapshot(own)
      /\ ToSet(all) = {own} \union
            UNION {ToSet(Observation(observations, x.name).val.snapshots) : x \in ToSet(registry)}
      /\ \A s \in ToSet(all) : PossibleSnapshot(s)
      /\ KeptFrom(current, ToSet(all)) /\ OnePerHost(current)
      /\ p.federation = Federation(current, placed) /\ PlacedFrom(placed, C, C)
      /\ p.hosts = <<LocalHostStatus(own)>> \o PeerStatus(registry, observations)
  BY <1>1, <1>2, ProjectionMade
<1>5. m.see = q.see /\ m.at = q.at /\ View(m, <<>>) = see
  BY ViewWanted DEF Made
<1>6. {Catalog0, Live0} \subseteq DOMAIN q.see
  BY <1>1, StatusRead
<1> HIDE DEF m
<1>7. MachineSeen(World.machines, m) /\ {Catalog0, Live0} \subseteq DOMAIN m.see
  BY <1>5, <1>6 DEF MachineSeen
<1>8. /\ FederationHostPage(p, shownID).ok
      /\ page = FederationHostPage(p, shownID).val
  BY <1>2, <1>3 DEF m
<1> HIDE DEF own, page, result
<1> DEFINE host == SelectHost(p, shownID).val
<1>9. /\ SelectHost(p, shownID).ok /\ page.host = host
      /\ page.repositories = RepositoriesForHost(p, shownID)
      /\ \A a \in page.attention : /\ host.controlPlane # NoControlPlane
                                   /\ a.item \in host.controlPlane.attention
                                   /\ a.href = HrefOf(ShownFrom(p, shownID, a.item.id))
  BY <1>8, PageParts
<1>10. host \in ToSet(p.hosts) /\ host.hostID = shownID
  <2>1. Listing(p.hosts)
    BY <1>4, StatusLines
  <2> QED
    BY <1>9, <2>1, HostLine
<1>11. ASSUME NEW a \in page.attention, a.href # <<>>
       PROVE  \E r \in page.repositories : /\ r.instance.id = a.href
                                           /\ r.instance.source = a.item.id
                                           /\ r.instance.hostID = page.host.hostID
  <2>1. HrefOf(ShownFrom(p, shownID, a.item.id)) # <<>>
    BY <1>9, <1>11
  <2> QED
    BY <1>9, <1>10, <2>1, LinkIsShown
<1>12. ASSUME NEW a \in page.attention, page.host.source = "local",
              see["hostCatalog"] = see["catalog"],
              \A r, s \in see["catalog"].val : r.id = a.item.id /\ s.root = r.root => s = r,
              NoLaterSnapshot(see, page.host.hostID, page.host.observed)
       PROVE  a.href # <<>>
  <2> DEFINE summary == HostAnswer(m).val
             I == {b.val : b \in BuiltDetails(m, hostID)}
  <2>1. host = LocalHostStatus(own)
    BY <1>4, <1>9, <1>10, <1>12, LocalLine
  <2>2. /\ own.hostID = shownID /\ host.observed = own.observed
        /\ host.controlPlane = own.controlPlane
    BY <1>10, <2>1 DEF LocalHostStatus
  <2>3. /\ Listed(m).ok /\ Error \notin BuiltDetails(m, hostID)
        /\ HostAnswer(m).ok /\ own.controlPlane = With(summary, "host", Hostname)
    BY <1>4, SnapshotParts DEF own
  <2>4. ToSet(own.instances) = I
    BY <1>4, <1>5, <1>7, OwnSnapshot DEF own
  <2>5. /\ see["catalog"].ok /\ "attention" \in DOMAIN summary
        /\ \A x \in summary.attention : \E r \in see["catalog"].val : x.id = r.id
    BY <1>5, <1>12, <2>3, HostAnswerParts
  <2> HIDE DEF summary, I, host
  <2>6. a.item \in summary.attention
    <3>1. With(summary, "host", Hostname).attention = summary.attention
      BY <2>5, WithKeeps
    <3> QED
      BY <1>9, <2>2, <2>3, <3>1
  <2>7. PICK r \in see["catalog"].val : a.item.id = r.id
    BY <2>5, <2>6
  <2>8. PICK listed \in Listed(m).val.repositories : listed.id = r.id
    <3>1. Listed(m) = ListRepositories(see["catalog"], see["live"])
      BY <1>5 DEF Listed
    <3>2. PossibleCatalog(see["catalog"].val)
      BY <1>6, <2>5, ListsPossible DEF Catalog0, Live0
    <3>3. \A s \in see["catalog"].val : s.root = r.root => s = r
      BY <1>12, <2>7
    <3> HIDE DEF see
    <3> QED
      BY <2>5, <3>1, <3>2, <3>3, AloneListed
  <2>9. PICK i \in I : i.source = r.id /\ \A j \in I : j.source = r.id => j = i
    BY <2>3, <2>8, OneBuilt DEF I
  <2>10. own \in current
    <3>1. \A s \in ToSet(all) : s.hostID = own.hostID => s.observed <= own.observed
      <4>1. own.observed <= own.observed
        BY <1>4 DEF PossibleSnapshot
      <4>2. \A x \in ToSet(registry) :
               \A s \in ToSet(Observation(observations, x.name).val.snapshots) :
                  s.hostID = own.hostID => s.observed <= own.observed
        BY <1>9, <1>10, <1>12, <2>2 DEF NoLaterSnapshot
      <4> HIDE DEF registry, observations, all
      <4> QED
        BY <1>4, <4>1, <4>2
    <3>2. \A s \in ToSet(all) : s.observed \in Nat
      BY <1>4 DEF PossibleSnapshot
    <3>3. own \in ToSet(all)
      BY <1>4
    <3> HIDE DEF all, current
    <3> QED
      BY <1>4, <3>1, <3>2, <3>3, LastIsKept
  <2> HIDE DEF current, placed
  <2>11. HrefOf(ShownFrom(p, own.hostID, i.source)) = i.id
    BY <1>4, <2>4, <2>9, <2>10, OneShown DEF C
  <2>12. i.id = <<own.hostID, i.root>>
    BY <1>4, <2>4, InstancesApart
  <2> QED
    BY <1>9, <2>2, <2>7, <2>9, <2>11, <2>12
<1> HIDE DEF see
<1> QED
  BY <1>11, <1>12, Zenon DEF LinkedPage, page, m, see

\* For any machine that changes while it is read: the page of a Host links what
\* needs attention to an instance of that Host that came from the repository of
\* that ID, and on this machine it links all of it, unless the list and the
\* totals saw two catalogs or a peer has a later snapshot of this Host
\* (web/federation_host_page.go:85).
THEOREM AttentionIsLinked == Spec => []AttentionLinked
<1>1. ASSUME WorldInv, TypedInv, AnswerInv
      PROVE  AttentionLinked
  <2>1. ASSUME NEW w \in Worker, Done(w, {"/federation/host"}), work[w].answer.ok
        PROVE  LinkedPage(work[w].answer.val, View(work[w], <<>>))
    <3> DEFINE q == work[w]
               hostID == held[Owner[w]]
    <3>1. /\ world \in DOMAIN Worlds /\ MachineSeen(World.machines, q)
          /\ q.op = "/federation/host" /\ StepSet(q) \subseteq DOMAIN q.see
          /\ q.at \in Nat /\ q.answer = Answer(Made(q), hostID)
      BY <1>1, <2>1, DoneRequest
    <3>2. q.answer.ok
      BY <2>1
    <3> HIDE DEF q, hostID
    <3>3. LinkedPage(Answer(Made(q), hostID).val, View(q, <<>>))
      BY <3>1, <3>2, OneLinkedPage
    <3> QED
      BY <3>1, <3>3 DEF q
  <2> QED
    BY <2>1, Zenon DEF AttentionLinked
<1> QED
  BY <1>1, IdentityStarts, IdentityKept, FreshInit, FreshStep, WorldInit, WorldStep,
     TypedInit, TypedStep, AnswerInit, AnswerStep, PTL DEF Spec

-----------------------------------------------------------------------------
(***************************************************************************)
(* The snapshot a peer is answered, and why it fails.                      *)
(***************************************************************************)

\* The repositories of a list can be told apart, and put in order.
ListedRecords(R) ==
    /\ \A r \in R : /\ r.id # <<>> /\ r.root \in DOMAIN RootRank
                    /\ r.lastSeen \in Nat /\ r.active \in BOOLEAN
    /\ \A r, s \in R : r.root = s.root => r = s

\* A list has each root once.
LEMMA ListedApart ==
    ASSUME NEW catalog, catalog.ok, PossibleCatalog(catalog.val),
           NEW live, live.ok => PossibleSessions(live.val)
    PROVE  ListedRecords(ListRepositories(catalog, live).val.repositories)
<1> DEFINE listed == {r \in catalog.val :
                         \A s \in catalog.val : s.root = r.root => s.lastSeen >= r.lastSeen}
           known == {r.root : r \in listed}
           Shown(root) == IF root \in known THEN CHOOSE r \in listed : r.root = root
                                        ELSE TransientRepository(root)
           At(root) == RepositorySummary(Shown(root))
           Live(root) == [At(root) EXCEPT !.active = root \in LiveRoots(live.val),
                                          !.agents = AgentsAt(live.val, root)]
           all == known \union LiveRoots(live.val)
           R == ListRepositories(catalog, live).val.repositories
           Fit(r, root) == /\ r.root = root /\ r.id # <<>> /\ r.lastSeen \in Nat
                           /\ r.active \in BOOLEAN
<1>1. /\ ~live.ok => R = {At(root) : root \in known}
      /\ live.ok => R = {Live(root) : root \in all}
  <2>1. ListRepositories(catalog, live) =
           IF ~live.ok THEN Ok([warned |-> TRUE, repositories |-> {At(root) : root \in known}])
           ELSE Ok([warned |-> FALSE, repositories |-> {Live(root) : root \in all}])
    BY DEF ListRepositories
  <2> HIDE DEF At, Live, known, all
  <2> QED
    BY <2>1 DEF Ok
<1>2. /\ \A r \in catalog.val : r.root \in DOMAIN RootRank /\ r.id # <<>> /\ r.lastSeen \in Nat
      /\ live.ok => \A root \in LiveRoots(live.val) : root \in DOMAIN RootRank
  BY DEF PossibleCatalog, PossibleSessions, LiveRoots
<1>3. ASSUME NEW root
      PROVE  Shown(root).root = root /\ Shown(root).id # <<>> /\ Shown(root).lastSeen \in Nat
  <2>1. CASE root \in known
    <3>1. \E r \in listed : r.root = root
      BY <2>1
    <3>2. Shown(root) \in listed /\ Shown(root).root = root
      BY <2>1, <3>1
    <3> HIDE DEF Shown
    <3> QED
      BY <1>2, <3>2
  <2>2. CASE root \notin known
    <3>1. Shown(root) = TransientRepository(root)
      BY <2>2
    <3>2. RepositoryIDForRoot(root) # <<>>
      BY DEF RepositoryIDForRoot
    <3> HIDE DEF Shown
    <3> QED
      BY <3>1, <3>2 DEF TransientRepository
  <2> QED
    BY <2>1, <2>2
<1>4. known \subseteq DOMAIN RootRank
  BY <1>2
<1> HIDE DEF Shown, known, R
<1>5. \A root : Fit(At(root), root)
  <2> TAKE root
  <2>1. /\ At(root).root = Shown(root).root /\ At(root).id = Shown(root).id
        /\ At(root).lastSeen = Shown(root).lastSeen
        /\ At(root).active = Active(Shown(root))
    BY DEF RepositorySummary
  <2>2. Active(Shown(root)) \in BOOLEAN
    BY DEF Active
  <2> HIDE DEF At
  <2> QED
    BY <1>3, <2>1, <2>2
<1>6. \A root : Fit(Live(root), root)
  <2> TAKE root
  <2>1. /\ Live(root).root = At(root).root /\ Live(root).id = At(root).id
        /\ Live(root).lastSeen = At(root).lastSeen
        /\ Live(root).active = (root \in LiveRoots(live.val))
    BY DEF RepositorySummary
  <2> HIDE DEF At, Live
  <2> QED
    BY <1>5, <2>1
<1> HIDE DEF At, Live
<1>7. CASE ~live.ok
  BY <1>1, <1>4, <1>5, <1>7 DEF ListedRecords, R
<1>8. CASE live.ok
  BY <1>1, <1>2, <1>4, <1>6, <1>8 DEF ListedRecords, R
<1> QED
  BY <1>7, <1>8

\* The order in which repositories are gone through.
Earlier(a, b) ==
    \/ a.active /\ ~b.active
    \/ a.active = b.active /\ a.lastSeen > b.lastSeen
    \/ /\ a.active = b.active
       /\ a.lastSeen = b.lastSeen
       /\ RootRank[a.root] < RootRank[b.root]

\* All that is listed is gone through.
LEMMA InOrderAll ==
    ASSUME NEW R, IsFiniteSet(R), ListedRecords(R)
    PROVE  ToSet(InOrder(R)) = R
<1> DEFINE O == {p \in R \X R : Earlier(p[1], p[2])}
           s == [i \in 1..Cardinality(R) |->
                    CHOOSE x \in R : Cardinality({y \in R : Earlier(y, x)}) = i - 1]
<1>1. InOrder(R) = SubSeq(s, 1, Cardinality(R))
  BY DEF InOrder, Sorted, Earlier
<1>2. /\ \A x \in R : RootRank[x.root] \in Nat
      /\ \A x, y \in R : RootRank[x.root] = RootRank[y.root] => x = y
  BY RankAssumption DEF IsInjective, ListedRecords
<1>3. Orders(O, R)
  <2>1. \A x \in R : x.lastSeen \in Nat /\ x.active \in BOOLEAN
    BY DEF ListedRecords
  <2>2. \A x \in R : ~Earlier(x, x)
    BY <1>2, <2>1 DEF Earlier
  <2>3. \A x, y \in R : x # y => Earlier(x, y) \/ Earlier(y, x)
    BY <1>2, <2>1 DEF Earlier
  <2>4. \A x, y, z \in R : Earlier(x, y) /\ Earlier(y, z) => Earlier(x, z)
    BY <1>2, <2>1 DEF Earlier
  <2>5. \A x, y \in R : <<x, y>> \in O <=> Earlier(x, y)
    OBVIOUS
  <2> HIDE DEF O
  <2> QED
    BY <2>2, <2>3, <2>4, <2>5 DEF Orders
<1>4. \A x \in R : Below(O, R, x) = {y \in R : Earlier(y, x)}
  BY DEF Below
<1> HIDE DEF O
<1>5. \A i \in 1..Cardinality(R) : s[i] \in R /\ Cardinality(Below(O, R, s[i])) = i - 1
  <2> SUFFICES ASSUME NEW i \in 1..Cardinality(R)
               PROVE  s[i] \in R /\ Cardinality(Below(O, R, s[i])) = i - 1
    OBVIOUS
  <2>1. \E x \in R : Cardinality(Below(O, R, x)) = i - 1
    BY <1>3, Ranked
  <2>2. \E x \in R : Cardinality({y \in R : Earlier(y, x)}) = i - 1
    BY <1>4, <2>1
  <2>3. s[i] \in R /\ Cardinality({y \in R : Earlier(y, s[i])}) = i - 1
    BY <2>2
  <2> HIDE DEF s
  <2> QED
    BY <1>4, <2>3
<1> HIDE DEF s
<1> DEFINE t == SubSeq(s, 1, Cardinality(R))
<1>6. ToSet(t) = R
  BY <1>3, <1>5, InPlace
<1> QED
  BY <1>1, <1>6 DEF t

\* There is a list when the catalog can be read.
LEMMA ListedOK ==
    ASSUME NEW catalog, NEW live
    PROVE  ListRepositories(catalog, live).ok <=> catalog.ok
BY DEF ListRepositories, Error, Ok

\* A repository was asked for, and was gone.
GoneAt(q, id) ==
    /\ {<<"catalog", <<id>>>>, <<"live", <<id>>>>} \subseteq DOMAIN q.see
    /\ ~SeenRepository(View(q, <<id>>), id).ok

\* A repository was asked for and found, and what it takes to show it was read.
ReadAt(q, id) ==
    /\ \A name \in {"catalog", "live", "scan", "git", "config"} : <<name, <<id>>>> \in DOMAIN q.see
    /\ SeenRepository(View(q, <<id>>), id).ok

\* Once the repositories of the list are gone through, one of them was gone or
\* all of them were read.
LEMMA DetailsRead ==
    ASSUME world \in DOMAIN Worlds, NEW q, MachineSeen(World.machines, q),
           Read(q, FirstSnapshotSteps), Listed(q).ok, Read(q, DetailSteps(q))
    PROVE  \/ \E r \in Listed(q).val.repositories : GoneAt(q, r.id)
           \/ \A r \in Listed(q).val.repositories : ReadAt(q, r.id)
<1> DEFINE First(id) == Of(<<"catalog", "live">>, id)
           Rest(id) == IF SeenRepository(View(q, <<id>>), id).ok
                       THEN Of(<<"scan", "git", "config">>, id) ELSE <<>>
           Mine(id) == After(q, First(id), Rest(id))
           R == Listed(q).val.repositories
           order == InOrder(R)
           gone == {i \in 1..Len(order) :
                      /\ Read(q, First(order[i].id))
                      /\ ~SeenRepository(View(q, <<order[i].id>>), order[i].id).ok}
           end == IF gone # {} THEN Min(gone) ELSE 0
           asked == IF end = 0 THEN order ELSE SubSeq(order, 1, end)
           all == [i \in DOMAIN asked |-> Mine(asked[i].id)]
<1>1. DetailSteps(q) = FlattenSeq(all)
  BY DEF DetailSteps, SelectInSeq
<1>2. ASSUME NEW id
      PROVE  /\ Listing(First(id)) /\ Listing(Rest(id))
             /\ ToSet(First(id)) = {<<"catalog", <<id>>>>, <<"live", <<id>>>>}
             /\ SeenRepository(View(q, <<id>>), id).ok =>
                   ToSet(Rest(id)) = {<<"scan", <<id>>>>, <<"git", <<id>>>>, <<"config", <<id>>>>}
  <2> DEFINE a == <<"catalog", "live">>
             b == <<"scan", "git", "config">>
  <2>1. /\ Listing(a) /\ ToSet(a) = {"catalog", "live"}
        /\ Listing(b) /\ ToSet(b) = {"scan", "git", "config"} /\ Listing(<<>>)
    BY ListingTuples
  <2> HIDE DEF a, b
  <2>2. /\ Listing(Of(a, id)) /\ ToSet(Of(a, id)) = {<<n, <<id>>>> : n \in {"catalog", "live"}}
        /\ Listing(Of(b, id))
        /\ ToSet(Of(b, id)) = {<<n, <<id>>>> : n \in {"scan", "git", "config"}}
    BY <2>1, OfListing
  <2>3. /\ First(id) = Of(a, id)
        /\ Rest(id) = IF SeenRepository(View(q, <<id>>), id).ok THEN Of(b, id) ELSE <<>>
    BY DEF a, b
  <2> HIDE DEF First, Rest
  <2> QED
    BY <2>1, <2>2, <2>3
<1> HIDE DEF First, Rest
<1>3. ASSUME NEW id, Read(q, Mine(id))
      PROVE  GoneAt(q, id) \/ ReadAt(q, id)
  <2>1. Read(q, First(id)) /\ Read(q, Rest(id))
    BY <1>2, <1>3, ListingAfter
  <2>2. CASE SeenRepository(View(q, <<id>>), id).ok
    <3>1. {<<"catalog", <<id>>>>, <<"live", <<id>>>>, <<"scan", <<id>>>>, <<"git", <<id>>>>,
           <<"config", <<id>>>>} \subseteq DOMAIN q.see
      BY <1>2, <2>1, <2>2 DEF Read
    <3> QED
      BY <2>2, <3>1 DEF ReadAt
  <2>3. CASE ~SeenRepository(View(q, <<id>>), id).ok
    BY <1>2, <2>1, <2>3 DEF Read, GoneAt
  <2> QED
    BY <2>2, <2>3
<1>4. \A id : Listing(Mine(id))
  BY <1>2, ListingAfter
<1> HIDE DEF Mine
<1>5. Listing(order) /\ ToSet(order) = R
  <2> DEFINE catalog == View(q, <<>>)["catalog"]
             live == View(q, <<>>)["live"]
             T == ListRepositories(catalog, live).val.repositories
  <2>1. Listed(q) = ListRepositories(catalog, live)
    BY DEF Listed
  <2>2. Catalog0 \in DOMAIN q.see /\ Live0 \in DOMAIN q.see
    BY FirstStepsAre DEF Read
  <2>3. /\ catalog.ok => PossibleCatalog(catalog.val)
        /\ live.ok => PossibleSessions(live.val)
    BY <2>2, ListsPossible DEF Catalog0, Live0
  <2> HIDE DEF catalog, live
  <2>4. catalog.ok
    BY <2>1, ListedOK
  <2>5. IsFiniteSet(T) /\ ListedRecords(T)
    BY <2>1, <2>3, <2>4, ListedFinite, ListedApart
  <2>6. R = T
    BY <2>1
  <2> HIDE DEF R, T
  <2> QED
    BY <2>5, <2>6, InOrderListing, InOrderAll
<1> HIDE DEF order, R
<1>6. DOMAIN order = 1..Len(order) /\ Len(order) \in Nat /\ R = {order[i] : i \in 1..Len(order)}
  <2>1. DOMAIN order = 1..Len(order) /\ Len(order) \in Nat
    BY <1>5 DEF Listing
  <2> QED
    BY <1>5, <2>1 DEF ToSet
<1>7. CASE gone # {}
  <2>1. PICK i \in 1..Len(order) : /\ Read(q, First(order[i].id))
                                   /\ ~SeenRepository(View(q, <<order[i].id>>), order[i].id).ok
    BY <1>7
  <2>2. order[i] \in R
    BY <1>6
  <2>3. GoneAt(q, order[i].id)
    BY <1>2, <2>1 DEF GoneAt, Read
  <2> QED
    BY <2>2, <2>3 DEF R
<1>8. CASE gone = {}
  <2>1. asked = order
    BY <1>8
  <2> HIDE DEF asked
  <2>2. /\ all = [i \in 1..Len(order) |-> all[i]]
        /\ \A i \in 1..Len(order) : all[i] = Mine(order[i].id)
    BY <1>6, <2>1
  <2> HIDE DEF all
  <2>3. \A i \in 1..Len(order) : Listing(all[i])
    BY <1>4, <2>2
  <2>4. ToSet(FlattenSeq(all)) = UNION {ToSet(all[i]) : i \in 1..Len(order)}
    BY <1>6, <2>2, <2>3, ListingFlat
  <2>5. \A i \in 1..Len(order) : Read(q, all[i])
    BY <1>1, <2>4 DEF Read
  <2>6. \A i \in 1..Len(order) : GoneAt(q, order[i].id) \/ ReadAt(q, order[i].id)
    BY <1>3, <2>2, <2>5
  <2> QED
    BY <1>6, <2>6 DEF R
<1> QED
  BY <1>7, <1>8

\* What a snapshot that can be made has read.
LEMMA SnapshotRead ==
    ASSUME world \in DOMAIN Worlds, NEW q, MachineSeen(World.machines, q),
           Read(q, SnapshotSteps(q)), Listed(q).ok, View(q, <<>>)["hostCatalog"].ok
    PROVE  Read(q, DetailSteps(q))
<1> DEFINE steps == Solo(<<"sessionCatalog", "sessionLive">>) \o HostSteps(q)
           more == After(q, steps, DetailSteps(q))
<1>1. SnapshotSteps(q) = After(q, FirstSnapshotSteps, more)
  BY DEF SnapshotSteps, FirstSnapshotSteps
<1>2. Listing(steps)
  <2>1. Listing(Solo(<<"sessionCatalog", "sessionLive">>))
    BY ListingTuples, OfListing
  <2> QED
    BY <2>1, HostListing, ListingConcat
<1>3. Listing(FirstSnapshotSteps)
  BY FirstStepsAre
<1>4. Read(q, FirstSnapshotSteps)
  BY SnapshotListing
<1>5. Listing(DetailSteps(q))
  BY <1>4, DetailListing
<1> HIDE DEF steps
<1>6. /\ Listing(more)
      /\ Read(q, more) => Read(q, DetailSteps(q))
  BY <1>2, <1>5, ListingAfter
<1> HIDE DEF more
<1> QED
  BY <1>1, <1>3, <1>6, ListingAfter

\* A request for a snapshot that is answered has read what the snapshot is of.
LEMMA SnapshotStepsRead ==
    ASSUME world \in DOMAIN Worlds, NEW q, MachineSeen(World.machines, q),
           q.op \in SnapshotOps, StepSet(q) \subseteq DOMAIN q.see
    PROVE  /\ Catalog0 \in DOMAIN q.see /\ Live0 \in DOMAIN q.see
           /\ Listed(q).ok /\ View(q, <<>>)["hostCatalog"].ok =>
                 \/ \E r \in Listed(q).val.repositories : GoneAt(q, r.id)
                 \/ \A r \in Listed(q).val.repositories : ReadAt(q, r.id)
<1> DEFINE p == Wanted(q)
<1>1. p.op = q.op /\ p.see = q.see /\ \A sub : View(p, sub) = View(q, sub)
  BY ViewWanted
<1>2. MachineSeen(World.machines, p)
  BY <1>1 DEF MachineSeen
<1> HIDE DEF p
<1>3. Steps(p) = After(p, SnapshotSteps(p), <<>>)
  <2>1. /\ p.op \in SnapshotOps \union FederationOps /\ p.op \notin FederationOps
        /\ p.op \notin {"list_repositories", "list_active_sessions"}
        /\ p.op \notin RepositoryOps /\ p.op # "get_repository_control_plane"
        /\ p.op \notin ItemOps
        /\ p.op \notin HostOps /\ p.op \notin StorePages /\ p.op \notin FilePages
        /\ p.op # "get_execution_history" /\ p.op # "/history" /\ p.op # "/history/session"
    BY <1>1 DEF ItemOps, RepositoryOps, HostOps, StorePages, FilePages, SnapshotOps,
                FederationOps
  <2> QED
    BY <2>1, Zenon DEF Steps
<1>4. /\ Listing(SnapshotSteps(p)) /\ Listing(<<>>)
      /\ Read(p, SnapshotSteps(p)) => Read(p, FirstSnapshotSteps)
  BY <1>2, SnapshotListing, ListingTuples
<1>5. /\ Listing(Steps(p))
      /\ Read(p, Steps(p)) => Read(p, SnapshotSteps(p))
  BY <1>3, <1>4, ListingAfter
<1>6. StepSet(q) = ToSet(Steps(p))
  BY <1>5, StepSetIs DEF Listing, p
<1>7. Read(p, SnapshotSteps(p)) /\ Read(p, FirstSnapshotSteps)
  BY <1>1, <1>4, <1>5, <1>6 DEF Read
<1>8. Catalog0 \in DOMAIN q.see /\ Live0 \in DOMAIN q.see
  BY <1>1, <1>7, FirstStepsAre DEF Read
<1>9. ASSUME Listed(q).ok, View(q, <<>>)["hostCatalog"].ok
      PROVE  \/ \E r \in Listed(q).val.repositories : GoneAt(q, r.id)
             \/ \A r \in Listed(q).val.repositories : ReadAt(q, r.id)
  <2>1. Listed(p) = Listed(q)
    BY <1>1 DEF Listed
  <2>2. Read(p, DetailSteps(p))
    BY <1>1, <1>2, <1>7, <1>9, <2>1, SnapshotRead
  <2>3. \/ \E r \in Listed(p).val.repositories : GoneAt(p, r.id)
        \/ \A r \in Listed(p).val.repositories : ReadAt(p, r.id)
    BY <1>2, <1>7, <1>9, <2>1, <2>2, DetailsRead
  <2>4. \A id : (GoneAt(p, id) <=> GoneAt(q, id)) /\ (ReadAt(p, id) <=> ReadAt(q, id))
    BY <1>1 DEF GoneAt, ReadAt
  <2> QED
    BY <2>1, <2>3, <2>4
<1> QED
  BY <1>8, <1>9

\* Where a repository that is found was found.
LEMMA FoundFrom ==
    ASSUME NEW catalog, NEW live, NEW id, FindRepository(catalog, live, id).ok
    PROVE  LET root == FindRepository(catalog, live, id).val.root
           IN  /\ catalog.ok
               /\ \/ \E r \in catalog.val : r.id = id /\ r.root = root
                  \/ live.ok /\ root \in LiveRoots(live.val) /\ id = RepositoryIDForRoot(root)
<1> DEFINE found == FindRepository(catalog, live, id)
           mine == {r \in catalog.val : r.id = id}
           one == CHOOSE r \in catalog.val : r.id = id
           roots == {root \in LiveRoots(live.val) : RepositoryIDForRoot(root) = id}
           chosen == CHOOSE root \in roots : TRUE
<1>1. catalog.ok
  BY DEF FindRepository, Then, Error
<1>2. CASE mine # {}
  <2>1. found = Ok(one)
    BY <1>1, <1>2 DEF FindRepository, Then
  <2>2. one \in catalog.val /\ one.id = id
    BY <1>2
  <2> HIDE DEF found, one
  <2>3. found.val = one
    BY <2>1, ResultsAre
  <2> QED
    BY <1>1, <2>2, <2>3 DEF found
<1>3. CASE mine = {}
  <2>1. found = Then(live, LAMBDA sessions :
                   IF {root \in LiveRoots(sessions) : RepositoryIDForRoot(root) = id} = {}
                   THEN Error
                   ELSE Ok(TransientRepository(
                            CHOOSE root \in {root \in LiveRoots(sessions) :
                                                RepositoryIDForRoot(root) = id} : TRUE)))
    BY <1>1, <1>3 DEF FindRepository, Then
  <2>2. live.ok
    BY <2>1 DEF Then, Error
  <2>3. found = IF roots = {} THEN Error ELSE Ok(TransientRepository(chosen))
    BY <2>1, <2>2 DEF Then
  <2> HIDE DEF roots, chosen
  <2>4. roots # {} /\ found = Ok(TransientRepository(chosen))
    BY <2>3 DEF Error
  <2>5. chosen \in LiveRoots(live.val) /\ RepositoryIDForRoot(chosen) = id
    BY <2>4 DEF chosen, roots
  <2> HIDE DEF found
  <2>6. found.val = TransientRepository(chosen)
    BY <2>4, ResultsAre
  <2>7. TransientRepository(chosen).root = chosen
    BY DEF TransientRepository
  <2> QED
    BY <1>1, <2>2, <2>5, <2>6, <2>7 DEF found
<1> QED
  BY <1>2, <1>3

\* A repository that is not found is lost.
LEMMA GoneIsLost ==
    ASSUME NEW q, NEW id, GoneAt(q, id)
    PROVE  \E s \in DOMAIN q.see : s[1] = "live" /\ s[2] # <<>> /\ Lost(q, s[2][1])
<1> DEFINE catalog == View(q, <<id>>)["catalog"]
           live == View(q, <<id>>)["live"]
           found == FindRepository(catalog, live, id)
           mine == {r \in catalog.val : r.id = id}
           roots == {root \in LiveRoots(live.val) : RepositoryIDForRoot(root) = id}
           chosen == CHOOSE root \in roots : TRUE
           s == <<"live", <<id>>>>
<1>1. s \in DOMAIN q.see /\ s[1] = "live" /\ s[2] # <<>> /\ s[2][1] = id
  BY DEF GoneAt
<1>2. ~found.ok
  BY DEF GoneAt, SeenRepository
<1>3. ASSUME catalog.ok PROVE mine = {}
  <2>1. mine # {} => found = Ok(CHOOSE r \in catalog.val : r.id = id)
    BY <1>3 DEF FindRepository, Then
  <2> HIDE DEF found, mine
  <2> QED
    BY <1>2, <2>1, ResultsAre
<1>4. ASSUME catalog.ok, live.ok PROVE roots = {}
  <2>1. mine = {}
    BY <1>3, <1>4
  <2>2. found = Then(live, LAMBDA sessions :
                   IF {root \in LiveRoots(sessions) : RepositoryIDForRoot(root) = id} = {}
                   THEN Error
                   ELSE Ok(TransientRepository(
                            CHOOSE root \in {root \in LiveRoots(sessions) :
                                                RepositoryIDForRoot(root) = id} : TRUE)))
    BY <1>4, <2>1 DEF FindRepository, Then
  <2>3. found = IF roots = {} THEN Error ELSE Ok(TransientRepository(chosen))
    BY <1>4, <2>2 DEF Then
  <2> HIDE DEF found, roots, chosen
  <2> QED
    BY <1>2, <2>3, ResultsAre
<1>5. Lost(q, id)
  BY <1>3, <1>4 DEF Lost
<1> HIDE DEF s
<1> QED
  BY <1>1, <1>5

\* A repository that was read has its detail, of the root it was found at.
LEMMA DetailIs ==
    ASSUME NEW q, NEW id, ReadAt(q, id)
    PROVE  /\ Detail(q, id).detail.ok
           /\ Detail(q, id).detail.val.repository.root
                 = SeenRepository(View(q, <<id>>), id).val.root
<1> DEFINE see == View(q, <<id>>)
           catalog == see["catalog"]
           live == see["live"]
           scan == see["scan"]
           source == Source(q, <<"git", <<id>>>>)
           answer == GetRepository(catalog, live, scan, source, id)
           found == FindRepository(catalog, live, id)
           names == <<"catalog", "live", "git">>
<1>1. Read(q, Of(names, id))
  <2>1. Listing(names) /\ ToSet(names) = {"catalog", "live", "git"}
    BY ListingTuples
  <2> HIDE DEF names
  <2>2. ToSet(Of(names, id)) = {<<n, <<id>>>> : n \in {"catalog", "live", "git"}}
    BY <2>1, OfListing
  <2> QED
    BY <2>2 DEF Read, ReadAt
<1>2. Detail(q, id).detail = answer
  <2>1. Detail(q, id) = [detail |-> answer, dir |-> DirAt(see["config"],
                                                           answer.val.repository.root)]
    BY <1>1 DEF Detail
  <2> HIDE DEF answer, see
  <2> QED
    BY <2>1
<1>3. found.ok /\ SeenRepository(see, id) = found
  BY DEF ReadAt, SeenRepository
<1> HIDE DEF see, catalog, live, scan, source, names
<1>4. answer.ok /\ answer.val.repository.root = found.val.root
  <2> DEFINE summary == RepositorySummary(found.val)
             shown == IF ~scan.ok THEN summary
                      ELSE [summary EXCEPT !.agents = AgentsAt(scan.val, found.val.root),
                                           !.active = AgentsAt(scan.val, found.val.root) # {}]
  <2>1. answer = Ok([warned |-> ~scan.ok \/ ~source.ok, source |-> source,
                     repository |-> shown])
    BY <1>3 DEF GetRepository, Then
  <2>2. shown.root = summary.root /\ summary.root = found.val.root
    BY DEF RepositorySummary
  <2> HIDE DEF answer, shown
  <2>3. answer.ok /\ answer.val.repository = shown
    BY <2>1, ResultsAre
  <2> QED
    BY <2>2, <2>3
<1> HIDE DEF answer, found
<1> QED
  BY <1>2, <1>3, <1>4 DEF see

\* An instance is built of a repository that was read.
LEMMA BuiltOK ==
    ASSUME world \in DOMAIN Worlds, NEW q, MachineSeen(World.machines, q), NEW id,
           ReadAt(q, id), NEW hostID \in Hosts
    PROVE  LET b == BuiltOf(q, hostID, id)
               root == SeenRepository(View(q, <<id>>), id).val.root
           IN  /\ b.ok /\ b.val.root = root /\ b.val.id = <<hostID, root>> /\ b.val.source = id
               /\ root \in DOMAIN RootRank
<1> DEFINE sessions == ListActiveSessions(View(q, <<>>)["sessionCatalog"],
                                          View(q, <<>>)["sessionLive"])
           known == IF sessions.ok THEN sessions.val ELSE {}
           seen == Detail(q, id)
           detail == seen.detail.val
           dir == seen.dir
           b == BuiltOf(q, hostID, id)
           made == BuildInstance(hostID, detail, known, dir)
           root == SeenRepository(View(q, <<id>>), id).val.root
<1>1. b = Then(seen.detail, LAMBDA x : BuildInstance(hostID, x, known, dir))
  BY Zenon DEF BuiltOf
<1> HIDE DEF known, sessions, b
<1>2. seen.detail.ok /\ detail.repository.root = root
  BY DetailIs
<1>3. b = made
  BY <1>1, <1>2, Zenon DEF Then
<1>4. root \in DOMAIN RootRank /\ root # <<>>
  BY <1>2, DetailRoot, RankAssumption
<1> HIDE DEF seen, detail, dir, root
<1>5. RepositoryInstanceID(hostID, detail.repository.root).ok
  BY <1>2, <1>4, ResultsAre DEF RepositoryInstanceID
<1>6. made.ok
  BY <1>5, ResultsAre DEF BuildInstance
<1>7. made.val.root = root /\ made.val.id = <<hostID, root>>
  BY <1>2, <1>6, BuiltInstance
<1> HIDE DEF made
<1>8. b.val.source = id
  BY <1>3, <1>6, BuiltSource DEF b
<1> QED
  BY <1>3, <1>4, <1>6, <1>7, <1>8 DEF b, root

\* A repository of the list is found at its root, however much the machine has
\* changed since.
LEMMA SameRoot ==
    ASSUME world \in DOMAIN Worlds, NEW q, MachineSeen(World.machines, q),
           Catalog0 \in DOMAIN q.see, Live0 \in DOMAIN q.see, Listed(q).ok,
           NEW r \in Listed(q).val.repositories, ReadAt(q, r.id)
    PROVE  SeenRepository(View(q, <<r.id>>), r.id).val.root = r.root
<1> DEFINE id == r.id
           machines == World.machines
           catalog == View(q, <<>>)["catalog"]
           live == View(q, <<>>)["live"]
           later == View(q, <<id>>)["catalog"]
           alive == View(q, <<id>>)["live"]
           root == FindRepository(later, alive, id).val.root
<1>1. /\ <<"catalog", <<>>>> \in DOMAIN q.see /\ <<"live", <<>>>> \in DOMAIN q.see
      /\ <<"catalog", <<id>>>> \in DOMAIN q.see /\ <<"live", <<id>>>> \in DOMAIN q.see
  BY DEF ReadAt, Catalog0, Live0
<1>2. /\ catalog.ok => PossibleCatalog(catalog.val)
      /\ live.ok => PossibleSessions(live.val)
      /\ later.ok => PossibleCatalog(later.val)
      /\ alive.ok => PossibleSessions(alive.val)
  BY <1>1, ListsPossible
<1>3. FindRepository(later, alive, id).ok
  BY DEF ReadAt, SeenRepository
<1>4. Listed(q) = ListRepositories(catalog, live)
  BY DEF Listed
<1>5. RootsKept(machines)
  BY RootsAssumption DEF World
<1> HIDE DEF machines
<1>6. PICK m \in machines : catalog = m.catalog
  BY <1>1, CatalogSeen DEF machines
<1>7. PICK n \in machines : later = n.catalog
  BY <1>1, CatalogSeen DEF machines
<1> HIDE DEF catalog, live, later, alive
<1>8. catalog.ok
  BY <1>4, ListedOK
<1>9. IsListed(r, catalog.val, live)
  BY <1>2, <1>4, <1>8, ListedFrom
<1>10. /\ later.ok
       /\ \/ \E t \in later.val : t.id = id /\ t.root = root
          \/ alive.ok /\ root \in LiveRoots(alive.val) /\ id = RepositoryIDForRoot(root)
  BY <1>3, FoundFrom
<1> HIDE DEF root
<1>11. \A s \in catalog.val, t \in later.val : s.id = t.id => s.root = t.root
  BY <1>5, <1>6, <1>7, <1>8, <1>10 DEF RootsKept
<1>12. /\ live.ok /\ r.root \in LiveRoots(live.val) => r.root \in DOMAIN RootRank
       /\ alive.ok /\ root \in LiveRoots(alive.val) => root \in DOMAIN RootRank
  BY <1>2 DEF LiveRoots, PossibleSessions
<1>13. /\ \A s \in catalog.val : \A x \in DOMAIN RootRank :
             s.id = RepositoryIDForRoot(x) => s.root = x
       /\ \A s \in later.val : \A x \in DOMAIN RootRank :
             s.id = RepositoryIDForRoot(x) => s.root = x
  BY <1>2, <1>8, <1>10 DEF PossibleCatalog
<1>14. \A x, y : RepositoryIDForRoot(x) = RepositoryIDForRoot(y) => x = y
  BY DEF RepositoryIDForRoot
<1>15. root = r.root
  <2>1. CASE \E s \in catalog.val : s.id = r.id /\ s.root = r.root
    BY <1>10, <1>11, <1>12, <1>13, <2>1
  <2>2. CASE r.id = RepositoryIDForRoot(r.root) /\ live.ok /\ r.root \in LiveRoots(live.val)
    BY <1>10, <1>12, <1>13, <1>14, <2>2
  <2> QED
    BY <1>9, <2>1, <2>2 DEF IsListed
<1> QED
  BY <1>15 DEF root, later, alive, SeenRepository

\* Instances, in the order of their roots.
ByRoot(I) == Sorted(I, LAMBDA a, b : RootRank[a.root] < RootRank[b.root])

\* The instances of a Host, in their order, have IDs of their own.
LEMMA ByRootIs ==
    ASSUME NEW I, IsFiniteSet(I), \A i \in I : i.root \in DOMAIN RootRank,
           \A x, y \in I : x.root = y.root => x = y,
           \A x, y \in I : x.id = y.id => x = y
    PROVE  LET t == ByRoot(I)
           IN  /\ \A i \in DOMAIN t : t[i] \in I
               /\ Distinct([i \in DOMAIN t |-> t[i].id])
<1> DEFINE O == {p \in I \X I : RootRank[p[1].root] < RootRank[p[2].root]}
           s == [i \in 1..Cardinality(I) |->
                    CHOOSE x \in I : Cardinality({y \in I :
                       RootRank[y.root] < RootRank[x.root]}) = i - 1]
           t == SubSeq(s, 1, Cardinality(I))
           n == Cardinality(I)
<1>1. ByRoot(I) = t
  BY DEF ByRoot, Sorted
<1>2. RootRank \in [DOMAIN RootRank -> Nat] /\ IsInjective(RootRank)
  BY RankAssumption
<1>3. \A x, y \in I : x # y => RootRank[x.root] # RootRank[y.root]
  BY <1>2 DEF IsInjective
<1>4. \A x \in I : RootRank[x.root] \in Nat
  BY <1>2
<1>5. Orders(O, I)
  BY <1>3, <1>4 DEF Orders
<1>6. \A x \in I : Below(O, I, x) = {y \in I : RootRank[y.root] < RootRank[x.root]}
  BY DEF Below
<1> HIDE DEF O
<1>7. \A i \in 1..Cardinality(I) : s[i] \in I /\ Cardinality(Below(O, I, s[i])) = i - 1
  <2> SUFFICES ASSUME NEW i \in 1..Cardinality(I)
               PROVE  s[i] \in I /\ Cardinality(Below(O, I, s[i])) = i - 1
    OBVIOUS
  <2>1. \E x \in I : Cardinality(Below(O, I, x)) = i - 1
    BY <1>5, Ranked
  <2>2. \E x \in I : Cardinality({y \in I : RootRank[y.root] < RootRank[x.root]}) = i - 1
    BY <1>6, <2>1
  <2>3. s[i] \in I /\ Cardinality({y \in I : RootRank[y.root] < RootRank[s[i].root]}) = i - 1
    BY <2>2
  <2> HIDE DEF s
  <2> QED
    BY <1>6, <2>3
<1> HIDE DEF s
<1>8. /\ t \in Seq(I) /\ Len(t) = n
      /\ \A i \in 1..Len(t) : t[i] \in I
      /\ \A i, j \in 1..Len(t) : i # j => t[i] # t[j]
  BY <1>5, <1>7, InPlace
<1>9. n \in Nat
  BY FS_CardinalityType
<1> HIDE DEF t, n
<1>10. DOMAIN t = 1..n
  BY <1>8
<1> DEFINE ids == [i \in DOMAIN t |-> t[i].id]
<1>11. ids = [i \in 1..n |-> ids[i]] /\ \A i \in 1..n : ids[i] = t[i].id
  BY <1>10
<1>12. \A i, j \in 1..n : ids[i] = ids[j] => i = j
  BY <1>8, <1>11
<1> HIDE DEF ids
<1>13. Len(ids) = n /\ DOMAIN ids = 1..n
  BY <1>9, <1>11, ListingOf
<1>14. ids \in Bijection(1..n, ToSet(ids))
  <2>1. ids \in Surjection(1..n, ToSet(ids))
    BY <1>11, <1>13 DEF Surjection, ToSet
  <2>2. ids \in Injection(1..n, ToSet(ids))
    BY <1>12, <1>13, <2>1 DEF Injection, IsInjective, Surjection
  <2> QED
    BY <2>1, <2>2 DEF Bijection
<1>15. Cardinality(ToSet(ids)) = n
  <2>1. IsFiniteSet(1..n) /\ Cardinality(1..n) = IF 1 > n THEN 0 ELSE n - 1 + 1
    BY <1>9, FS_Interval
  <2>2. Cardinality(1..n) = n
    BY <1>9, <2>1
  <2>3. ExistsBijection(1..n, ToSet(ids))
    BY <1>14 DEF ExistsBijection
  <2> QED
    BY <2>1, <2>2, <2>3, FS_Bijection
<1>16. Distinct(ids)
  BY <1>13, <1>15 DEF Distinct
<1>17. \A i \in DOMAIN t : t[i] \in I
  BY <1>8, <1>10
<1> QED
  BY <1>1, <1>16, <1>17 DEF ids

\* The instances of a Host are as a peer expects them.
HostsInstances(hostID, I) ==
    /\ IsFiniteSet(I)
    /\ \A i \in I : /\ i.root \in DOMAIN RootRank /\ i.id = <<hostID, i.root>>
                    /\ i.source # <<>>
    /\ \A x, y \in I : x.root = y.root => x = y

\* A snapshot of such instances is valid, in either schema.
LEMMA ValidOwn ==
    ASSUME NEW hostID \in Hosts, NEW I, HostsInstances(hostID, I), NEW s,
           s.hostID = hostID, s.hostname = Hostname, s.observed # 0, s.instances = ByRoot(I),
           \/ s.version = 1 /\ s.controlPlane = NoControlPlane
           \/ s.version = 2 /\ s.controlPlane.host = Hostname
    PROVE  ValidSnapshot(s)
<1> DEFINE t == ByRoot(I)
<1>1. /\ \A i \in DOMAIN t : t[i] \in I
      /\ Distinct([i \in DOMAIN t |-> t[i].id])
  <2>1. \A x, y \in I : x.id = y.id => x = y
    BY DEF HostsInstances
  <2> QED
    BY <2>1, ByRootIs DEF HostsInstances
<1> HIDE DEF t
<1>2. s.instances = t
  BY DEF t
<1>3. \A i \in DOMAIN t : /\ t[i].source # <<>>
                          /\ RepositoryInstanceID(hostID, t[i].root) = Ok(t[i].id)
  BY <1>1, RankAssumption DEF HostsInstances, RepositoryInstanceID
<1>4. Hostname # ""
  BY HostAssumption
<1>5. NoControlPlane.host = ""
  BY DEF NoControlPlane
<1>6. \/ s.version = 1 /\ s.controlPlane = NoControlPlane
      \/ s.version = 2 /\ s.controlPlane # NoControlPlane /\ s.controlPlane.host = s.hostname
  BY <1>4, <1>5
<1> QED
  BY <1>1, <1>2, <1>3, <1>4, <1>6 DEF ValidSnapshot

\* When all that is listed was read, the instances of this Host are those of it.
LEMMA InstancesBuilt ==
    ASSUME world \in DOMAIN Worlds, NEW q, MachineSeen(World.machines, q),
           Catalog0 \in DOMAIN q.see, Live0 \in DOMAIN q.see, Listed(q).ok,
           \A r \in Listed(q).val.repositories : ReadAt(q, r.id), NEW hostID \in Hosts
    PROVE  /\ \A b \in BuiltDetails(q, hostID) : b.ok
           /\ HostsInstances(hostID, {b.val : b \in BuiltDetails(q, hostID)})
<1> DEFINE R == Listed(q).val.repositories
           B == BuiltDetails(q, hostID)
           I == {b.val : b \in B}
           f == [r \in R |-> BuiltOf(q, hostID, r.id)]
           g == [b \in B |-> b.val]
<1>1. B = {BuiltOf(q, hostID, r.id) : r \in R}
  BY BuiltAre
<1>2. IsFiniteSet(R) /\ ListedRecords(R)
  <2> DEFINE catalog == View(q, <<>>)["catalog"]
             live == View(q, <<>>)["live"]
  <2>1. Listed(q) = ListRepositories(catalog, live)
    BY DEF Listed
  <2>2. /\ catalog.ok => PossibleCatalog(catalog.val)
        /\ live.ok => PossibleSessions(live.val)
    BY ListsPossible DEF Catalog0, Live0
  <2> HIDE DEF catalog, live
  <2>3. catalog.ok
    BY <2>1, ListedOK
  <2>4. /\ IsFiniteSet(ListRepositories(catalog, live).val.repositories)
        /\ ListedRecords(ListRepositories(catalog, live).val.repositories)
    BY <2>1, <2>2, <2>3, ListedFinite, ListedApart
  <2> QED
    BY <2>1, <2>4
<1>3. ASSUME NEW r \in R
      PROVE  LET b == BuiltOf(q, hostID, r.id)
             IN  /\ b.ok /\ b.val.root = r.root /\ b.val.id = <<hostID, r.root>>
                 /\ b.val.source = r.id /\ r.root \in DOMAIN RootRank
  <2>1. ReadAt(q, r.id)
    OBVIOUS
  <2>2. SeenRepository(View(q, <<r.id>>), r.id).val.root = r.root
    BY <2>1, SameRoot
  <2> QED
    BY <2>1, <2>2, BuiltOK
<1> HIDE DEF B, R
<1>4. \A b \in B : b.ok
  BY <1>1, <1>3
<1>5. IsFiniteSet(B)
  <2>1. B = {f[r] : r \in R}
    BY <1>1
  <2> HIDE DEF f
  <2> QED
    BY <1>2, <2>1, FiniteImage
<1>6. IsFiniteSet(I)
  <2>1. I = {g[b] : b \in B}
    OBVIOUS
  <2> HIDE DEF g, I
  <2> QED
    BY <1>5, <2>1, FiniteImage
<1>7. \A i \in I : \E r \in R : i = BuiltOf(q, hostID, r.id).val
  BY <1>1
<1>8. \A i \in I : /\ i.root \in DOMAIN RootRank /\ i.id = <<hostID, i.root>>
                   /\ i.source # <<>>
  <2> SUFFICES ASSUME NEW i \in I
               PROVE  /\ i.root \in DOMAIN RootRank /\ i.id = <<hostID, i.root>>
                      /\ i.source # <<>>
    OBVIOUS
  <2>1. PICK r \in R : i = BuiltOf(q, hostID, r.id).val
    BY <1>7
  <2>2. /\ i.root = r.root /\ i.id = <<hostID, r.root>> /\ i.source = r.id
        /\ r.root \in DOMAIN RootRank
    BY <1>3, <2>1
  <2>3. r.id # <<>>
    BY <1>2 DEF ListedRecords
  <2> QED
    BY <2>2, <2>3
<1>9. \A x, y \in I : x.root = y.root => x = y
  <2> SUFFICES ASSUME NEW x \in I, NEW y \in I, x.root = y.root PROVE x = y
    OBVIOUS
  <2>1. PICK r \in R : x = BuiltOf(q, hostID, r.id).val
    BY <1>7
  <2>2. PICK s \in R : y = BuiltOf(q, hostID, s.id).val
    BY <1>7
  <2>3. r.root = s.root
    BY <1>3, <2>1, <2>2
  <2>4. r = s
    BY <1>2, <2>3 DEF ListedRecords
  <2> QED
    BY <2>1, <2>2, <2>4
<1> HIDE DEF I
<1>10. HostsInstances(hostID, I)
  BY <1>6, <1>8, <1>9 DEF HostsInstances
<1> QED
  BY <1>4, <1>10 DEF I, B

\* The snapshot of this Host, once its instances are built and its totals there.
OwnOf(q, hostID, I, summary) ==
    [version |-> 2, hostID |-> hostID, hostname |-> Hostname, observed |-> q.at + 1,
     controlPlane |-> With(summary, "host", Hostname),
     warned |-> \/ Listed(q).val.warned
                \/ ~ListActiveSessions(View(q, <<>>)["sessionCatalog"],
                                       View(q, <<>>)["sessionLive"]).ok,
     instances |-> ByRoot(I)]

LEMMA SnapshotIs ==
    ASSUME NEW q, NEW hostID, Listed(q).ok, HostAnswer(q).ok, Error \notin BuiltDetails(q, hostID),
           \A a, b \in {x.val : x \in BuiltDetails(q, hostID)} : a.id = b.id => a = b
    PROVE  SnapshotAnswer(q, hostID) =
              IfValid(OwnOf(q, hostID, {b.val : b \in BuiltDetails(q, hostID)},
                            HostAnswer(q).val))
<1> DEFINE list == Listed(q)
           sessions == ListActiveSessions(View(q, <<>>)["sessionCatalog"],
                                          View(q, <<>>)["sessionLive"])
           known == IF sessions.ok THEN sessions.val ELSE {}
           host == HostAnswer(q)
           ids == {r.id : r \in list.val.repositories}
           details == [id \in ids |-> Detail(q, id)]
           Built(d) == Then(d.detail, LAMBDA detail : BuildInstance(hostID, detail, known, d.dir))
           built == {Built(details[r.id]) : r \in list.val.repositories}
           instances == {b.val : b \in built}
           Snapshot(summary) ==
              [version |-> 2, hostID |-> hostID, hostname |-> Hostname, observed |-> q.at + 1,
               controlPlane |-> With(summary, "host", Hostname),
               warned |-> list.val.warned \/ ~sessions.ok,
               instances |-> Sorted(instances, LAMBDA a, b : RootRank[a.root] < RootRank[b.root])]
           Assembled(summary) == IF \E a, b \in instances : a # b /\ a.id = b.id THEN Error
                                 ELSE IfValid(Snapshot(summary))
           Published == IF Error \in built THEN Error
                        ELSE Then(host, LAMBDA summary : Assembled(summary))
           answer == SnapshotAnswer(q, hostID)
<1>1. answer = BuildSnapshot(hostID, q.at + 1, list, sessions, host, details)
  BY DEF SnapshotAnswer
<1>2. BuildSnapshot(hostID, q.at + 1, list, sessions, host, details) =
         Then(list, LAMBDA listed :
            LET all == {Built(details[r.id]) : r \in listed.repositories}
            IN  IF Error \in all THEN Error
                ELSE Then(host, LAMBDA summary :
                        IF \E a, b \in {b.val : b \in all} : a # b /\ a.id = b.id THEN Error
                        ELSE IfValid([version |-> 2, hostID |-> hostID, hostname |-> Hostname,
                                observed |-> q.at + 1,
                                controlPlane |-> With(summary, "host", Hostname),
                                warned |-> list.val.warned \/ ~sessions.ok,
                                instances |-> Sorted({b.val : b \in all},
                                   LAMBDA a, b : RootRank[a.root] < RootRank[b.root])])))
  BY Zenon DEF BuildSnapshot
<1>3. list.ok /\ host.ok
  OBVIOUS
<1>4. built = BuiltDetails(q, hostID)
  <2> DEFINE listed == list.val.repositories
  <2>1. \A id \in ids : details[id] = Detail(q, id)
    BY Zenon DEF details
  <2>2. \A r \in listed : r.id \in ids
    OBVIOUS
  <2> HIDE DEF ids, details
  <2>3. \A r \in listed : details[r.id] = Detail(q, r.id)
    BY <2>1, <2>2
  <2> HIDE DEF listed, Built
  <2>4. built = {Built(Detail(q, r.id)) : r \in listed}
    BY <2>3 DEF listed
  <2> QED
    BY <2>4, Zenon DEF BuiltDetails, sessions, known, listed, Built
<1>5. Error \notin built /\ \A a, b \in instances : a.id = b.id => a = b
  BY <1>4
<1> HIDE DEF sessions, host, known, details
<1>6. answer = Published
  BY <1>1, <1>2, <1>3, Zenon DEF Then
<1> HIDE DEF answer
<1>7. answer = Then(host, LAMBDA summary : Assembled(summary))
  BY <1>5, <1>6
<1> HIDE DEF Assembled
<1>8. answer = Assembled(host.val)
  BY <1>3, <1>7, Zenon DEF Then
<1> HIDE DEF Snapshot, built
<1>9. Assembled(host.val) = IF \E a, b \in instances : a # b /\ a.id = b.id THEN Error
                            ELSE IfValid(Snapshot(host.val))
  BY DEF Assembled
<1> DEFINE dup == \E a, b \in instances : a # b /\ a.id = b.id
<1>10. ~dup
  BY <1>5
<1>11. Assembled(host.val) = IfValid(Snapshot(host.val))
  <2> HIDE DEF dup, Snapshot
  <2> QED
    BY <1>9, <1>10 DEF dup
<1>12. Snapshot(host.val) = OwnOf(q, hostID, instances, host.val)
  BY Zenon DEF Snapshot, OwnOf, ByRoot, list, sessions
<1>13. instances = {b.val : b \in BuiltDetails(q, hostID)}
  BY <1>4
<1> HIDE DEF instances, Snapshot, Assembled
<1> QED
  BY <1>8, <1>11, <1>12, <1>13 DEF answer, host

\* What a peer is answered.
LEMMA AnswerSnapshot ==
    ASSUME NEW q, NEW hostID, q.op \in SnapshotOps
    PROVE  Answer(Made(q), hostID) = Served(Made(q), SnapshotAnswer(Made(q), hostID))
<1> DEFINE p == Made(q)
<1>1. p.op \in SnapshotOps
  BY ViewWanted
<1> HIDE DEF p
<1>2. /\ p.op # "list_repositories" /\ p.op # "list_active_sessions" /\ p.op # "get_repository"
      /\ p.op # "list_worktrees" /\ p.op # "list_work_items" /\ p.op # "get_work_item"
      /\ p.op # "get_evidence" /\ p.op # "get_acceptance"
      /\ p.op # "get_repository_control_plane"
      /\ p.op \notin HostOps /\ p.op # "/project" /\ p.op # "/project/spec"
      /\ p.op # "/project/evidence" /\ p.op # "/project/acceptance"
      /\ p.op # "get_execution_history" /\ p.op # "/history" /\ p.op # "/history/session"
      /\ p.op \notin FederationOps
  BY <1>1 DEF HostOps, SnapshotOps, FederationOps
<1>3. Answer(p, hostID) = Served(p, SnapshotAnswer(p, hostID))
  BY <1>1, <1>2, Zenon DEF Answer
<1> QED
  BY <1>3 DEF p

\* The snapshot of this Host is served, in either schema, when the list and the
\* totals are there and all that is listed was read.
LEMMA SnapshotServed ==
    ASSUME world \in DOMAIN Worlds, NEW q, MachineSeen(World.machines, q),
           Catalog0 \in DOMAIN q.see, Live0 \in DOMAIN q.see, q.at \in Nat,
           Listed(q).ok, View(q, <<>>)["hostCatalog"].ok,
           \A r \in Listed(q).val.repositories : ReadAt(q, r.id), NEW hostID \in Hosts
    PROVE  Served(q, SnapshotAnswer(q, hostID)).ok
<1> DEFINE I == {b.val : b \in BuiltDetails(q, hostID)}
           own == OwnOf(q, hostID, I, HostAnswer(q).val)
           older == V1(own)
           sent == IF q.op = "/federation/v1/snapshot" THEN older ELSE own
           answer == SnapshotAnswer(q, hostID)
<1>1. HostAnswer(q).ok
  BY HostAnswerParts
<1>2. HostsInstances(hostID, I) /\ Error \notin BuiltDetails(q, hostID)
  BY InstancesBuilt, ResultsAre
<1>3. \A a, b \in I : a.id = b.id => a = b
  <2> HIDE DEF I
  <2> QED
    BY <1>2 DEF HostsInstances
<1>4. answer = IfValid(own)
  BY <1>1, <1>2, <1>3, SnapshotIs
<1> HIDE DEF answer, I
<1>5. /\ own.version = 2 /\ own.hostID = hostID /\ own.hostname = Hostname
      /\ own.observed = q.at + 1 /\ own.controlPlane = With(HostAnswer(q).val, "host", Hostname)
      /\ own.instances = ByRoot(I)
  BY DEF OwnOf
<1>6. With(HostAnswer(q).val, "host", Hostname).host = Hostname
  BY DEF With
<1>7. /\ older.version = 1 /\ older.hostID = hostID /\ older.hostname = Hostname
      /\ older.observed = q.at + 1 /\ older.controlPlane = NoControlPlane
      /\ older.instances = ByRoot(I)
  BY DEF OwnOf, V1
<1>8. q.at + 1 # 0
  OBVIOUS
<1> HIDE DEF own, older
<1>9. ValidSnapshot(own)
  BY <1>2, <1>5, <1>6, <1>8, ValidOwn
<1>10. ValidSnapshot(older)
  BY <1>2, <1>7, <1>8, ValidOwn
<1>11. answer.ok /\ answer.val = own
  BY <1>4, <1>9, ResultsAre DEF IfValid
<1>12. Served(q, answer) = IfValid(sent)
  BY <1>11, Zenon DEF Served, Then, older
<1>13. ValidSnapshot(sent)
  BY <1>9, <1>10
<1> HIDE DEF sent
<1>14. IfValid(sent).ok
  BY <1>13, ResultsAre DEF IfValid
<1> QED
  BY <1>12, <1>14 DEF answer

\* One snapshot that was answered.
LEMMA OneServed ==
    ASSUME world \in DOMAIN Worlds, NEW q, MachineSeen(World.machines, q),
           q.op \in SnapshotOps, StepSet(q) \subseteq DOMAIN q.see, q.at \in Nat,
           NEW hostID \in Hosts
    PROVE  \/ Answer(Made(q), hostID).ok
           \/ ~View(q, <<>>)["catalog"].ok
           \/ ~View(q, <<>>)["hostCatalog"].ok
           \/ \E s \in DOMAIN q.see : s[1] = "live" /\ s[2] # <<>> /\ Lost(q, s[2][1])
<1> SUFFICES ASSUME View(q, <<>>)["catalog"].ok, View(q, <<>>)["hostCatalog"].ok,
                    \A id : ~GoneAt(q, id)
             PROVE  Answer(Made(q), hostID).ok
  BY GoneIsLost
<1> DEFINE m == Made(q)
<1>1. m.see = q.see /\ m.at = q.at /\ \A sub : View(m, sub) = View(q, sub)
  BY ViewWanted DEF Made
<1>2. Answer(m, hostID) = Served(m, SnapshotAnswer(m, hostID))
  BY AnswerSnapshot
<1> HIDE DEF m
<1>3. Listed(q).ok /\ Listed(m) = Listed(q)
  BY <1>1, ListedOK DEF Listed
<1>4. /\ Catalog0 \in DOMAIN q.see /\ Live0 \in DOMAIN q.see
      /\ \A r \in Listed(q).val.repositories : ReadAt(q, r.id)
  BY <1>3, SnapshotStepsRead
<1>5. \A r \in Listed(m).val.repositories : ReadAt(m, r.id)
  BY <1>1, <1>3, <1>4 DEF ReadAt
<1>6. MachineSeen(World.machines, m)
  BY <1>1 DEF MachineSeen
<1>7. Served(m, SnapshotAnswer(m, hostID)).ok
  BY <1>1, <1>3, <1>4, <1>5, <1>6, SnapshotServed
<1> QED
  BY <1>2, <1>7 DEF m

\* A process that is up holds a Host ID.
UpHolds == \A p \in Process : start[p] = "up" => held[p] \in HostID

LEMMA UpHoldsInit == Init => UpHolds
BY DEF Init, IdentityInit, UpHolds

LEMMA UpHoldsStep == IdentityInv /\ UpHolds /\ [Next]_vars => UpHolds'
<1> SUFFICES ASSUME IdentityInv, UpHolds, [IdentityNext]_identityVars
             PROVE  UpHolds'
  BY NextKeepsIdentity
<1>1. CASE UNCHANGED identityVars
  BY <1>1 DEF UpHolds, identityVars
<1>2. ASSUME NEW p \in Process, IdentityStep(p) \/ Kill(p) PROVE UpHolds'
  BY <1>2 DEF IdentityInv, IdentityTypeOK, OneWriter, UpHolds, IdentityStep, Launch, Look,
              Create, Reload, WriteHost, Kill, LoadHost, Told, Stopped, GoTo
<1> QED
  BY <1>1, <1>2 DEF IdentityNext

\* For any machine that changes while it is read, repository by repository: no
\* snapshot of this Host fails, in either schema, but for a catalog that could
\* not be read or a repository of the list that was lost before it was asked for
\* (federation/snapshot.go:128).
THEOREM OnlyLostFailsSnapshots == Spec => []SnapshotFailsOnlyForLost
<1>1. ASSUME WorldInv, TypedInv, AnswerInv, UpHolds
      PROVE  SnapshotFailsOnlyForLost
  <2> SUFFICES ASSUME NEW w \in Worker, Done(w, SnapshotOps)
               PROVE
         LET q    == work[w]
             see  == View(q, <<>>)
         IN  \/ q.answer.ok
             \/ ~see["catalog"].ok
             \/ ~see["hostCatalog"].ok
             \/ \E s \in DOMAIN q.see : s[1] = "live" /\ s[2] # <<>> /\ Lost(q, s[2][1])
    BY Zenon DEF SnapshotFailsOnlyForLost
  <2> DEFINE q == work[w]
             hostID == held[Owner[w]]
  <2>1. /\ world \in DOMAIN Worlds /\ MachineSeen(World.machines, q)
        /\ q.op \in SnapshotOps /\ StepSet(q) \subseteq DOMAIN q.see
        /\ q.at \in Nat /\ q.answer = Answer(Made(q), hostID)
    BY <1>1, DoneRequest
  <2>2. hostID \in Hosts
    <3>1. work[w].phase = "done"
      BY DEF Done
    <3>2. work[w] # Idle
      BY <3>1, PhaseIdle
    <3>3. start[Owner[w]] = "up" /\ Owner[w] \in Process
      BY <1>1, <3>2, OwnerAssumption DEF TypedInv, Running
    <3> QED
      BY <1>1, <3>3, HostAssumption DEF UpHolds
  <2> HIDE DEF q, hostID
  <2>3. \/ Answer(Made(q), hostID).ok
        \/ ~View(q, <<>>)["catalog"].ok
        \/ ~View(q, <<>>)["hostCatalog"].ok
        \/ \E s \in DOMAIN q.see : s[1] = "live" /\ s[2] # <<>> /\ Lost(q, s[2][1])
    BY <2>1, <2>2, OneServed
  <2> QED
    BY <2>1, <2>3 DEF q
<1> QED
  BY <1>1, IdentityStarts, IdentityKept, FreshInit, FreshStep, WorldInit, WorldStep,
     TypedInit, TypedStep, AnswerInit, AnswerStep, UpHoldsInit, UpHoldsStep, PTL DEF Spec
=============================================================================
