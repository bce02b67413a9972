-------------------------- MODULE ReadAnswersProofs --------------------------
(***************************************************************************)
(* Proofs about the answers of ReadService for any worlds, workers and     *)
(* processes: every answer is made of what its steps have read, and what   *)
(* get_acceptance accepts is borne out by the evidence that was read.      *)
(***************************************************************************)
EXTENDS ReadServiceProofs

\* Every request has its next step, and an answer is made, at some time, of what
\* was read.
AnswerInv ==
    \A w \in Worker : work[w] # Idle =>
        /\ NextOfSteps(work[w])
        /\ work[w].phase = "done" =>
              /\ work[w].next = <<>>
              /\ work[w].at \in Nat
              /\ work[w].answer = Answer(Made(work[w]), held[Owner[w]])

\* What a request wants to read does not depend on its phase.
LEMMA SameSteps ==
    ASSUME NEW q, NEW n, NextOfSteps(q),
           n.op = q.op, n.args = q.args, n.see = q.see, n.next = q.next
    PROVE  NextOfSteps(n)
<1>1. Wanted(n) = Wanted(q)
  BY DEF Wanted
<1>2. StepSet(n) = StepSet(q)
  BY <1>1 DEF StepSet
<1> QED
  BY <1>2 DEF NextOfSteps

\* A step of a worker whose process stays up.
LEMMA OneAnswered ==
    ASSUME AnswerInv, NEW w \in Worker, Others(w), UNCHANGED held,
           work'[w] # Idle =>
              /\ NextOfSteps(work'[w])
              /\ work'[w].phase = "done" =>
                    /\ work'[w].next = <<>>
                    /\ work'[w].at \in Nat
                    /\ work'[w].answer = Answer(Made(work'[w]), held[Owner[w]])
    PROVE  AnswerInv'
BY DEF AnswerInv, Others

LEMMA WorkerAnswered ==
    ASSUME FreshInv, AnswerInv, NEW w \in Worker, Step(w) \/ Cancel(w)
    PROVE  AnswerInv'
<1> DEFINE q == work[w]
           n == work'[w]
<1>1. UNCHANGED held
  BY DEF Step, ReadNext, Lookup, Ask, Store, Reply, Cancel, Answered, worldVars, identityVars
<1>2. ASSUME q # Idle, Others(w), n.op = q.op, n.args = q.args, n.see = q.see,
             n.next = q.next, n.phase # "done"
      PROVE  AnswerInv'
  <2>1. NextOfSteps(q)
    BY <1>2 DEF AnswerInv
  <2>2. NextOfSteps(n)
    BY <1>2, <2>1, SameSteps
  <2> QED
    BY <1>1, <1>2, <2>2, OneAnswered
<1>3. CASE ReadNext(w)
  <2>1. Others(w) /\ n.phase \in {"lookup", "read"} /\ NextOfSteps(n)
    BY <1>3, ReadNextShape
  <2> QED
    BY <1>1, <2>1, OneAnswered
<1>4. CASE Lookup(w)
  <2>1. q.phase # "idle"
    BY <1>4 DEF Lookup
  <2> DEFINE r == RemoteOf(q)
             entry == cache[Service(w, q)][r]
  <2>2. Got(w, entry.context, entry.stored) \/ work' = [work EXCEPT ![w].phase = "ask"]
    BY <1>4 DEF Lookup
  <2> HIDE DEF entry
  <2>3. /\ q # Idle /\ Others(w) /\ n.see = q.see /\ n.op = q.op /\ n.args = q.args
        /\ n.next = q.next /\ n.phase # "done"
    BY <2>1, <2>2, GotShape, MissShape
  <2> QED
    BY <1>2, <2>3
<1>5. ASSUME NEW context, Answered(w, context) PROVE AnswerInv'
  <2>1. /\ q # Idle /\ Others(w) /\ n.see = q.see /\ n.op = q.op /\ n.args = q.args
        /\ n.next = q.next /\ n.phase # "done"
    BY <1>5, AnsweredShape
  <2> QED
    BY <1>2, <2>1
<1>6. CASE Store(w)
  <2>1. q.phase # "idle" /\ Got(w, q.answer.val, clock)
    BY <1>6 DEF Store
  <2>2. /\ q # Idle /\ Others(w) /\ n.see = q.see /\ n.op = q.op /\ n.args = q.args
        /\ n.next = q.next /\ n.phase # "done"
    BY <2>1, GotShape
  <2> QED
    BY <1>2, <2>2
<1>7. CASE Reply(w)
  <2>1. /\ q # Idle /\ Others(w) /\ n.see = q.see /\ n.op = q.op /\ n.args = q.args
        /\ n.next = q.next /\ n.next = <<>> /\ n.answer = Answer(Made(n), held[Owner[w]])
        /\ n.at = clock /\ clock \in Nat
    BY <1>7, ReplyShape DEF FreshInv
  <2>2. NextOfSteps(q)
    BY <2>1 DEF AnswerInv
  <2>3. NextOfSteps(n)
    BY <2>1, <2>2, SameSteps
  <2> QED
    BY <1>1, <2>1, <2>3, OneAnswered
<1> QED
  BY <1>3, <1>4, <1>5, <1>6, <1>7 DEF Step, Ask, Cancel

LEMMA NewRequestAnswered ==
    ASSUME FreshInv, AnswerInv, NEW w \in Worker, NEW op, NEW args, NEW id, UNCHANGED held,
           work' = [work EXCEPT ![w] = Onward(Request(op, args, id))]
    PROVE  AnswerInv'
<1>1. Others(w) /\ work'[w].phase = "read" /\ NextOfSteps(work'[w])
  BY NewRequestShape
<1> QED
  BY <1>1, OneAnswered

LEMMA AnswerInit == Init => AnswerInv
BY DEF Init, AnswerInv

LEMMA AnswerStep == IdentityInv /\ FreshInv /\ TypedInv /\ AnswerInv /\ [Next]_vars => AnswerInv'
<1> SUFFICES ASSUME IdentityInv, FreshInv, TypedInv, AnswerInv, [Next]_vars
             PROVE  AnswerInv'
  OBVIOUS
<1>1. CASE UNCHANGED <<held, work>>
  BY <1>1 DEF AnswerInv
<1>2. ASSUME NEW p \in Process, Begin(p) PROVE AnswerInv'
  <2>1. start[p] # "up" /\ UNCHANGED work
    BY <1>2 DEF Begin, IdentityStep, Launch, Look, Create, Reload, WriteHost, readVars
  <2>2. \A o \in Process \ {p} : held'[o] = held[o]
    BY <1>2 DEF Begin, IdentityStep, Launch, Look, Create, Reload, WriteHost, LoadHost, Told,
                Stopped, GoTo, IdentityInv, IdentityTypeOK
  <2>3. \A w \in Worker : work[w] # Idle => Owner[w] \in Process \ {p}
    BY <2>1, OwnerAssumption DEF TypedInv, Running
  <2> QED
    BY <2>1, <2>2, <2>3 DEF AnswerInv
<1>3. ASSUME NEW p \in Process, Die(p) PROVE AnswerInv'
  <2>1. /\ work' = [w \in Worker |-> IF Owner[w] = p THEN Idle ELSE work[w]]
        /\ \A o \in Process \ {p} : held'[o] = held[o]
    BY <1>3 DEF Die, Kill, Stopped, IdentityInv, IdentityTypeOK
  <2>2. \A w \in Worker : work'[w] # Idle => Owner[w] \in Process \ {p} /\ work'[w] = work[w]
    BY <2>1, OwnerAssumption
  <2> QED
    BY <2>1, <2>2 DEF AnswerInv
<1>4. CASE TakeLine
  <2>1. UNCHANGED held /\ Session \in Worker
    BY <1>4, OwnerAssumption DEF TakeLine, identityVars
  <2>2. CASE work' = [work EXCEPT ![Session] = Idle]
    <3>1. Others(Session) /\ work'[Session] = Idle
      BY <2>1, <2>2 DEF FreshInv, Others
    <3> QED
      BY <2>1, <3>1, OneAnswered
  <2> QED
    BY <1>4, <2>1, <2>2, NewRequestAnswered DEF TakeLine
<1>5. ASSUME NEW w \in Worker, Browse(w) PROVE AnswerInv'
  <2>1. UNCHANGED held
    BY <1>5 DEF Browse, identityVars
  <2>2. PICK page : work' = [work EXCEPT ![w] = Onward(Request(page.op, page.args, 0))]
    BY <1>5 DEF Browse
  <2> QED
    BY <2>1, <2>2, NewRequestAnswered
<1>6. CASE Environment \/ Tick
  BY <1>1, <1>6 DEF Environment, Tick, identityVars
<1> QED
  BY <1>1, <1>2, <1>3, <1>4, <1>5, <1>6, WorkerAnswered
     DEF Next, vars, readVars, identityVars

(***************************************************************************)
(* The evidence and its decision.                                          *)
(***************************************************************************)
\* NativeAdapter.Scan finds every file.
LEMMA ScanFinds ==
    ASSUME NEW evidence, evidence.ok, PossibleFiles(evidence.val)
    PROVE  Scan(evidence).ok /\ ToSet(Scan(evidence).val) = evidence.val
<1> DEFINE S == evidence.val
           R == {p \in S \X S : p[1].path < p[2].path}
           rank(x) == Cardinality({y \in S : y.path < x.path})
           s == [i \in 1..Cardinality(S) |-> CHOOSE x \in S : rank(x) = i - 1]
<1>1. Scan(evidence).ok /\ Scan(evidence).val = SubSeq(s, 1, Cardinality(S))
  BY DEF Scan, Then, Ok, Sorted
<1>2. \A x, y \in S : <<x, y>> \in R <=> x.path < y.path
  OBVIOUS
<1>3. /\ IsFiniteSet(S) /\ \A x \in S : x.path \in Nat
      /\ \A x, y \in S : x.path = y.path => x = y
  BY DEF PossibleFiles
<1> HIDE DEF S, R
<1>4. Orders(R, S)
  BY <1>2, <1>3 DEF Orders
<1>5. \A x \in S : Below(R, S, x) = {y \in S : y.path < x.path}
  BY <1>2 DEF Below
<1>6. \A i \in 1..Cardinality(S) : s[i] \in S /\ Cardinality(Below(R, S, s[i])) = i - 1
  <2> SUFFICES ASSUME NEW i \in 1..Cardinality(S)
               PROVE  s[i] \in S /\ Cardinality(Below(R, S, s[i])) = i - 1
    OBVIOUS
  <2>1. \E x \in S : Cardinality(Below(R, S, x)) = i - 1
    BY <1>3, <1>4, Ranked
  <2>2. \E x \in S : rank(x) = i - 1
    BY <1>5, <2>1
  <2> HIDE DEF rank
  <2>3. s[i] \in S /\ rank(s[i]) = i - 1
    BY <2>2
  <2> QED
    BY <1>5, <2>3 DEF rank
<1> HIDE DEF s
<1>7. ToSet(SubSeq(s, 1, Cardinality(S))) = S
  BY <1>3, <1>4, <1>6, InPlace
<1> QED
  BY <1>1, <1>7 DEF S

\* Evidence lists the files of a work item.
LEMMA EvidenceLists ==
    ASSUME NEW project, NEW tree, NEW item, Evidence(project, tree, item).ok,
           NEW evidence, evidence = DirAt(tree, project.root).evidence,
           PossibleFiles(evidence.val)
    PROVE  /\ Evidence(project, tree, item).val \in Seq({r \in evidence.val : r.item = item})
           /\ ToSet(Evidence(project, tree, item).val) = {r \in evidence.val : r.item = item}
<1> DEFINE S == {r \in evidence.val : r.item = item}
           Before(a, b) == Newer(a, b) \/ (~Newer(b, a) /\ a.path < b.path)
           R == {p \in S \X S : Before(p[1], p[2])}
           rank(x) == Cardinality({y \in S : Before(y, x)})
           s == [i \in 1..Cardinality(S) |-> CHOOSE x \in S : rank(x) = i - 1]
           scanned == Scan(evidence)
<1>1. evidence.ok /\ item # 0
  BY DEF Evidence, Scan, Then, Error
<1>2. scanned.ok /\ ToSet(scanned.val) = evidence.val
  BY <1>1, ScanFinds
<1> HIDE DEF scanned
<1> DEFINE T == {r \in ToSet(scanned.val) : r.item = item}
           InOrderOf(U) ==
              SubSeq([i \in 1..Cardinality(U) |->
                         CHOOSE x \in U : Cardinality({y \in U : Before(y, x)}) = i - 1],
                     1, Cardinality(U))
           Matches(records) == Ok(Sorted({r \in ToSet(records) : r.item = item}, Before))
<1>3. Evidence(project, tree, item) = Then(scanned, Matches)
  BY <1>1 DEF Evidence, scanned
<1>4. Matches(scanned.val).val = InOrderOf(T)
  BY DEF Ok, Sorted
<1> HIDE DEF Matches
<1>5. Then(scanned, Matches) = Matches(scanned.val)
  BY <1>2 DEF Then
<1> HIDE DEF InOrderOf
<1>13. InOrderOf(T) = InOrderOf(S)
  BY <1>2
<1>14. Evidence(project, tree, item).val = SubSeq(s, 1, Cardinality(S))
  BY <1>3, <1>4, <1>5, <1>13 DEF InOrderOf
<1>6. \A x, y \in S : <<x, y>> \in R <=> Before(x, y)
  OBVIOUS
<1>7. /\ IsFiniteSet(S)
      /\ \A x \in S : x.path \in Nat /\ x.id \in Nat /\ x.observed \in Nat
      /\ \A x, y \in S : x.path = y.path => x = y
  <2>1. IsFiniteSet(evidence.val) /\ S \in SUBSET evidence.val
    BY DEF PossibleFiles
  <2> QED
    BY <2>1, FS_Subset DEF PossibleFiles
<1> HIDE DEF S, R
<1>8. Orders(R, S)
  BY <1>6, <1>7 DEF Orders, Newer
<1>9. \A x \in S : Below(R, S, x) = {y \in S : Before(y, x)}
  BY <1>6 DEF Below
<1> HIDE DEF Before
<1>10. \A i \in 1..Cardinality(S) : s[i] \in S /\ Cardinality(Below(R, S, s[i])) = i - 1
  <2> SUFFICES ASSUME NEW i \in 1..Cardinality(S)
               PROVE  s[i] \in S /\ Cardinality(Below(R, S, s[i])) = i - 1
    OBVIOUS
  <2>1. \E x \in S : Cardinality(Below(R, S, x)) = i - 1
    BY <1>7, <1>8, Ranked
  <2>2. \E x \in S : rank(x) = i - 1
    BY <1>9, <2>1
  <2> HIDE DEF rank
  <2>3. s[i] \in S /\ rank(s[i]) = i - 1
    BY <2>2
  <2> QED
    BY <1>9, <2>3 DEF rank
<1> HIDE DEF s
<1>11. LET t == SubSeq(s, 1, Cardinality(S)) IN t \in Seq(S) /\ ToSet(t) = S
  BY <1>7, <1>8, <1>10, InPlace
<1> QED
  BY <1>1, <1>7, <1>11, <1>14 DEF S

\* The newest of some records.
LEMMA NewestIsNew ==
    ASSUME NEW S, \A r \in S : {r.path, r.id, r.observed} \subseteq Nat,
           NEW records \in Seq(S), NEW some, some \subseteq 1..Len(records), some # {}
    PROVE  \E i \in some : /\ Newest(records, some) = records[i]
                           /\ \A j \in some : records[j].observed <= records[i].observed
<1> DEFINE Earlier(i, j) ==
              \/ Newer(records[i], records[j])
              \/ ~Newer(records[j], records[i]) /\ i < j
           R == {p \in some \X some : Earlier(p[1], p[2])}
<1>1. /\ IsFiniteSet(some) /\ \A i \in some : i \in Nat
      /\ \A i \in some : records[i] \in S
  <2>1. Len(records) \in Nat /\ IsFiniteSet(1..Len(records))
    BY FS_Interval
  <2>2. some \in SUBSET (1..Len(records)) /\ \A i \in some : i \in Nat
    BY <2>1
  <2>3. IsFiniteSet(some)
    BY <2>1, <2>2, FS_Subset
  <2> QED
    BY <2>2, <2>3
<1> DEFINE o == [i \in some |-> records[i].observed]
           d == [i \in some |-> records[i].id]
<1>2. \A i \in some : o[i] \in Nat /\ d[i] \in Nat
  BY <1>1
<1>3. \A i, j \in some : <<i, j>> \in R <=>
         \/ o[i] > o[j]
         \/ o[i] = o[j] /\ d[i] > d[j]
         \/ o[i] = o[j] /\ d[i] = d[j] /\ i < j
  <2> SUFFICES ASSUME NEW i \in some, NEW j \in some
               PROVE  Earlier(i, j) <=> \/ o[i] > o[j]
                                        \/ o[i] = o[j] /\ d[i] > d[j]
                                        \/ o[i] = o[j] /\ d[i] = d[j] /\ i < j
    OBVIOUS
  <2>1. \A x, y \in some : Newer(records[x], records[y]) <=>
           o[x] > o[y] \/ (o[x] = o[y] /\ d[x] > d[y])
    BY DEF Newer
  <2> HIDE DEF o, d
  <2> QED
    BY <1>1, <1>2, <2>1
<1>15. \A i, j \in some : <<i, j>> \in R <=> Earlier(i, j)
  OBVIOUS
<1> HIDE DEF R, o, d
<1>4. Orders(R, some)
  <2>1. \A x \in some : x \in Nat /\ o[x] \in Nat /\ d[x] \in Nat
    BY <1>1, <1>2
  <2>2. \A x \in some : <<x, x>> \notin R
    BY <1>3, <2>1
  <2>3. ASSUME NEW x \in some, NEW y \in some, x # y
        PROVE  <<x, y>> \in R \/ <<y, x>> \in R
    <3>1. /\ x \in Nat /\ o[x] \in Nat /\ d[x] \in Nat
          /\ y \in Nat /\ o[y] \in Nat /\ d[y] \in Nat
      BY <2>1
    <3>2. o[x] > o[y] \/ o[y] > o[x] \/ d[x] > d[y] \/ d[y] > d[x] \/ x < y \/ y < x
      BY <2>3, <3>1
    <3> QED
      BY <1>3, <2>3, <3>1, <3>2
  <2>4. ASSUME NEW x \in some, NEW y \in some, NEW z \in some,
               <<x, y>> \in R, <<y, z>> \in R
        PROVE  <<x, z>> \in R
    <3>1. /\ x \in Nat /\ o[x] \in Nat /\ d[x] \in Nat
          /\ y \in Nat /\ o[y] \in Nat /\ d[y] \in Nat
          /\ z \in Nat /\ o[z] \in Nat /\ d[z] \in Nat
      BY <2>1
    <3>2. \/ o[x] > o[y]
          \/ o[x] = o[y] /\ d[x] > d[y]
          \/ o[x] = o[y] /\ d[x] = d[y] /\ x < y
      BY <1>3, <2>4
    <3>3. \/ o[y] > o[z]
          \/ o[y] = o[z] /\ d[y] > d[z]
          \/ o[y] = o[z] /\ d[y] = d[z] /\ y < z
      BY <1>3, <2>4
    <3>4. \/ o[x] > o[z]
          \/ o[x] = o[z] /\ d[x] > d[z]
          \/ o[x] = o[z] /\ d[x] = d[z] /\ x < z
      BY <3>1, <3>2, <3>3
    <3> QED
      BY <1>3, <3>4
  <2> QED
    BY <2>2, <2>3, <2>4 DEF Orders
<1>5. PICK i \in some : \A j \in some : <<j, i>> \notin R
  BY <1>1, <1>4, FirstOf
<1>6. \A j \in some : /\ ~Newer(records[j], records[i])
                      /\ j < i => Newer(records[i], records[j])
  BY <1>5, <1>15
<1> DEFINE c == CHOOSE x \in some :
                   \A j \in some : /\ ~Newer(records[j], records[x])
                                   /\ j < x => Newer(records[x], records[j])
<1>7. c \in some /\ \A j \in some : ~Newer(records[j], records[c])
  BY <1>6
<1>8. Newest(records, some) = records[c]
  BY DEF Newest
<1> HIDE DEF c
<1>9. \A j \in some : records[j].observed <= records[c].observed
  BY <1>2, <1>7 DEF Newer, o, d
<1> QED
  BY <1>7, <1>8, <1>9

\* A decision that satisfies a requirement rests on a record that supports it.
LEMMA CheckSupported ==
    ASSUME NEW S, \A r \in S : {r.path, r.id, r.observed} \subseteq Nat,
           NEW records \in Seq(S), NEW requirement, NEW item, NEW revision,
           Satisfies(requirement,
                     EvaluateRequirement(requirement, item, revision, records).state)
    PROVE  LET own == {r \in ToSet(records) :
                          r.item = item /\ r.check = requirement.check /\ r.revision = revision}
           IN  \E r \in own : /\ Supports(r, requirement)
                              /\ \A s \in own : s.observed <= r.observed
<1> DEFINE matching == Matching(requirement, item, records)
           current == {i \in matching : records[i].revision = revision}
           own == {r \in ToSet(records) :
                      r.item = item /\ r.check = requirement.check /\ r.revision = revision}
           decision == EvaluateRequirement(requirement, item, revision, records)
           otherwise == IF matching # {} THEN "stale" ELSE "missing"
<1>1. DOMAIN records = 1..Len(records)
  OBVIOUS
<1>2. current \subseteq 1..Len(records) /\ own = {records[i] : i \in current}
  BY <1>1 DEF Matching, ToSet
<1>3. decision = CheckDecision(requirement, records, current, otherwise)
  BY DEF EvaluateRequirement
<1>4. otherwise \in {"stale", "missing"}
  OBVIOUS
<1> HIDE DEF current, own, otherwise
<1>5. current # {}
  <2> SUFFICES ASSUME current = {} PROVE FALSE
    OBVIOUS
  <2>1. decision.state = otherwise
    BY <1>3 DEF CheckDecision
  <2> HIDE DEF decision
  <2>2. decision.state \in {"passed", "skipped"}
    BY DEF Satisfies, decision
  <2> QED
    BY <1>4, <2>1, <2>2
<1>6. PICK i \in current : /\ Newest(records, current) = records[i]
                           /\ \A j \in current : records[j].observed <= records[i].observed
  BY <1>2, <1>5, NewestIsNew
<1>7. decision.state = StateForRecord(records[i])
  BY <1>3, <1>5, <1>6 DEF CheckDecision
<1> HIDE DEF decision
<1>8. Satisfies(requirement, StateForRecord(records[i]))
  BY <1>7 DEF decision
<1>9. Supports(records[i], requirement)
  BY <1>8 DEF Satisfies, StateForRecord, HasError, Supports
<1>10. records[i] \in own /\ \A s \in own : s.observed <= records[i].observed
  BY <1>2, <1>6
<1> QED
  BY <1>9, <1>10 DEF own

\* The innermost of the worktrees around a directory.
LEMMA InnermostWorktree ==
    ASSUME NEW root, NEW trees, PossibleTrees(trees),
           ContainingWorktree(root, trees) # NoWorktree
    PROVE  LET around == {t \in ToSet(trees) :
                             IsPrefix(CanonicalPath(t.path), CanonicalPath(root))}
               t == ContainingWorktree(root, trees)
           IN  /\ t \in around /\ t.dirty \in Nat
               /\ \A u \in around : Len(CanonicalPath(u.path)) <= Len(CanonicalPath(t.path))
<1> DEFINE path(i) == CanonicalPath(trees[i].path)
           around == {i \in DOMAIN trees : IsPrefix(path(i), CanonicalPath(root))}
           Longest(i) == \A j \in around : Len(path(j)) <= Len(path(i))
           First(i) == \A j \in around : Longest(j) => i <= j
           at == CHOOSE i \in around : Longest(i) /\ First(i)
           R == {p \in around \X around :
                    \/ Len(path(p[1])) > Len(path(p[2]))
                    \/ Len(path(p[1])) = Len(path(p[2])) /\ p[1] < p[2]}
<1>1. /\ DOMAIN trees = 1..Len(trees) /\ Len(trees) \in Nat
      /\ \A i \in DOMAIN trees : trees[i] \in ToSet(trees)
  BY DEF PossibleTrees, ToSet
<1>2. \A i \in around : Len(path(i)) \in Nat /\ i \in Nat /\ trees[i].dirty \in Nat
  BY <1>1 DEF PossibleTrees
<1> DEFINE long == [i \in around |-> Len(path(i))]
<1>3. IsFiniteSet(around)
  <2>1. around \in SUBSET (1..Len(trees)) /\ IsFiniteSet(1..Len(trees))
    BY <1>1, FS_Interval
  <2> HIDE DEF around
  <2> QED
    BY <2>1, FS_Subset
<1>4. around # {} /\ ContainingWorktree(root, trees) = trees[at]
  BY DEF ContainingWorktree
<1>5. {t \in ToSet(trees) : IsPrefix(CanonicalPath(t.path), CanonicalPath(root))}
         = {trees[i] : i \in around}
  BY DEF ToSet
<1> HIDE DEF around
<1>6. \A i, j \in around : <<i, j>> \in R <=>
         long[i] > long[j] \/ (long[i] = long[j] /\ i < j)
  OBVIOUS
<1>13. \A i \in around : long[i] = Len(path(i)) /\ long[i] \in Nat /\ i \in Nat
  BY <1>2
<1> HIDE DEF R, path, long
<1>7. Orders(R, around)
  BY <1>6, <1>13 DEF Orders
<1>8. PICK i \in around : \A j \in around : <<j, i>> \notin R
  BY <1>3, <1>4, <1>7, FirstOf
<1>9. \A j \in around : /\ Len(path(j)) <= Len(path(i))
                        /\ Len(path(j)) = Len(path(i)) => i <= j
  <2> SUFFICES ASSUME NEW j \in around
               PROVE  /\ Len(path(j)) <= Len(path(i))
                      /\ Len(path(j)) = Len(path(i)) => i <= j
    OBVIOUS
  <2>1. ~(long[j] > long[i] \/ (long[j] = long[i] /\ j < i))
    BY <1>6, <1>8
  <2>2. long[j] <= long[i] /\ (long[j] = long[i] => i <= j)
    BY <1>13, <2>1
  <2> QED
    BY <1>13, <2>2
<1>10. Longest(i)
  BY <1>9
<1>11. First(i)
  <2> SUFFICES ASSUME NEW j \in around, Longest(j) PROVE i <= j
    OBVIOUS
  <2>1. Len(path(i)) <= Len(path(j)) /\ Len(path(j)) <= Len(path(i))
    BY <1>9
  <2>2. Len(path(i)) = Len(path(j))
    BY <1>2, <2>1
  <2> QED
    BY <1>9, <2>2
<1> HIDE DEF Longest, First
<1>12. at \in around /\ Longest(at)
  BY <1>10, <1>11
<1> QED
  BY <1>2, <1>4, <1>5, <1>12 DEF Longest, path

\* A revision that git resolves is that of the innermost worktree, a clean one.
LEMMA ResolvedClean ==
    ASSUME NEW root, NEW git, PossibleTrees(git.worktrees), ResolveGit(root, git).available
    PROVE  LET around == {t \in ToSet(git.worktrees) :
                             IsPrefix(CanonicalPath(t.path), CanonicalPath(root))}
           IN  \E t \in around :
                  /\ t.dirty = 0 /\ t.head # ""
                  /\ ResolveGit(root, git).revision = <<"git", t.head>>
                  /\ \A u \in around : Len(CanonicalPath(u.path)) <= Len(CanonicalPath(t.path))
<1> DEFINE t == ContainingWorktree(root, git.worktrees)
           at == ResolveGit(root, git)
<1>1. at = IF t = NoWorktree THEN Resolution(NoRevision, <<>>, "worktree_not_found")
           ELSE IF t.dirty > 0 THEN Resolution(NoRevision, t.path, "dirty_worktree")
           ELSE IF t.head = "" THEN Resolution(NoRevision, t.path, "head_unavailable")
           ELSE Resolution(<<"git", t.head>>, t.path, "")
  BY DEF ResolveGit
<1>2. /\ ~Resolution(NoRevision, <<>>, "worktree_not_found").available
      /\ ~Resolution(NoRevision, t.path, "dirty_worktree").available
      /\ ~Resolution(NoRevision, t.path, "head_unavailable").available
      /\ Resolution(<<"git", t.head>>, t.path, "").revision = <<"git", t.head>>
  BY DEF Resolution
<1>3. t # NoWorktree
  BY <1>1, <1>2
<1>4. t.dirty \in Nat
  BY <1>3, InnermostWorktree
<1> HIDE DEF t
<1>5. ~(t.dirty > 0) /\ t.head # ""
  BY <1>1, <1>2, <1>3
<1>6. at = Resolution(<<"git", t.head>>, t.path, "")
  BY <1>1, <1>3, <1>5, Zenon
<1>7. t.dirty = 0
  <2> DEFINE d == t.dirty
  <2>1. d \in Nat /\ ~(d > 0)
    BY <1>4, <1>5
  <2> HIDE DEF d
  <2>2. d = 0
    BY <2>1
  <2> QED
    BY <2>2 DEF d
<1> QED
  BY <1>2, <1>3, <1>5, <1>6, <1>7, InnermostWorktree DEF t

\* An accepted evaluation satisfies every requirement of the policy.
LEMMA EvaluatedAccepted ==
    ASSUME NEW policy, NEW item, NEW revision, NEW records,
           Evaluate(policy, item, revision, records).ok,
           Evaluate(policy, item, revision, records).val.state = "accepted"
    PROVE  /\ Evaluate(policy, item, revision, records).val.revision = revision
           /\ \A i \in DOMAIN policy :
                 Satisfies(policy[i],
                           EvaluateRequirement(policy[i], item, revision, records).state)
<1> DEFINE checks == [i \in DOMAIN policy |->
                         EvaluateRequirement(policy[i], item, revision, records)]
           made == Evaluate(policy, item, revision, records)
           free == Decision(item, revision, "unconfigured", <<>>)
           decided == Decision(item, revision, DecisionState(policy, checks), checks)
<1>1. made \in {Error, Ok(free), Ok(decided)}
  BY DEF Evaluate
<1>2. ~Error.ok /\ Ok(free).val = free /\ Ok(decided).val = decided
  BY DEF Error, Ok
<1>3. /\ free.state = "unconfigured"
      /\ decided.state = DecisionState(policy, checks) /\ decided.revision = revision
  BY DEF Decision
<1> HIDE DEF made, free, decided
<1>4. made.val.state = "accepted" /\ made.ok
  BY DEF made
<1>5. made.val = decided
  BY <1>1, <1>2, <1>3, <1>4
<1>6. DecisionState(policy, checks) = "accepted"
  BY <1>3, <1>4, <1>5
<1>7. \A i \in DOMAIN policy : Satisfies(policy[i], checks[i].state)
  BY <1>6 DEF DecisionState
<1> QED
  BY <1>3, <1>5, <1>7 DEF made

\* What EvaluateAcceptance accepts rests on the evidence of a clean revision.
LEMMA AcceptanceSupported ==
    ASSUME NEW project, NEW item, NEW git, NEW tree,
           LET result == EvaluateAcceptance(project, item, git, tree)
           IN  result.ok /\ result.val.decision.state = "accepted",
           NEW evidence, evidence = DirAt(tree, project.root).evidence,
           evidence.ok => PossibleFiles(evidence.val)
    PROVE  LET at == ResolveGit(project.root, git)
               result == EvaluateAcceptance(project, item, git, tree).val
           IN  /\ project.policy # <<>> /\ at.available
               /\ result.decision.revision = at.revision
               /\ \A i \in DOMAIN project.policy :
                     LET own == {r \in evidence.val : /\ r.item = item
                                                      /\ r.check = project.policy[i].check
                                                      /\ r.revision = at.revision}
                     IN  \E r \in own : /\ Supports(r, project.policy[i])
                                        /\ \A s \in own : s.observed <= r.observed
<1> DEFINE at == ResolveGit(project.root, git)
           policy == project.policy
           found == Evidence(project, tree, item)
           records == found.val
           decision == Evaluate(policy, item, at.revision, records)
           made == EvaluateAcceptance(project, item, git, tree)
           free == AcceptanceResult(Decision(0, NoRevision, "unconfigured", <<>>),
                                    NoResolution, 0, FALSE)
           open == AcceptanceResult(Decision(item, NoRevision, "waiting", <<>>),
                                    at, Len(records), TRUE)
           judged == AcceptanceResult(decision.val, at, Len(records), FALSE)
<1>1. /\ made \in {Error, Ok(free), Ok(open), Ok(judged)}
      /\ made = Ok(free) \/ made = Error \/ (policy # <<>> /\ found.ok /\ item # 0)
      /\ made = Ok(open) \/ made = Ok(free) \/ made = Error \/ (at.available /\ decision.ok)
  BY DEF EvaluateAcceptance, Then
<1>2. ~Error.ok /\ Ok(free).val = free /\ Ok(open).val = open /\ Ok(judged).val = judged
  BY DEF Error, Ok
<1>3. /\ free.decision.state = "unconfigured" /\ open.decision.state = "waiting"
      /\ judged.decision = decision.val
  BY DEF AcceptanceResult, Decision
<1> HIDE DEF made, free, open, judged, decision
<1>4. made.ok /\ made.val.decision.state = "accepted"
  BY DEF made
<1>5. made = Ok(judged) /\ made # Ok(free) /\ made # Ok(open) /\ made # Error
  <2>1. made # Ok(free) /\ made # Ok(open) /\ made # Error
    BY <1>2, <1>3, <1>4
  <2> QED
    BY <1>1, <2>1
<1>6. policy # <<>> /\ found.ok /\ at.available /\ decision.ok
  BY <1>1, <1>5
<1>7. made.val.decision = decision.val /\ decision.val.state = "accepted"
  BY <1>2, <1>3, <1>4, <1>5
<1>8. /\ decision.val.revision = at.revision
      /\ \A i \in DOMAIN policy :
            Satisfies(policy[i],
                      EvaluateRequirement(policy[i], item, at.revision, records).state)
  <2> HIDE DEF policy, at, records
  <2> QED
    BY <1>6, <1>7, EvaluatedAccepted DEF decision
<1> DEFINE own == {r \in evidence.val : r.item = item}
<1>9. evidence.ok
  BY <1>6 DEF Evidence, Scan, Then, Error
<1>10. records \in Seq(own) /\ ToSet(records) = own
  <2>1. PossibleFiles(evidence.val)
    BY <1>9
  <2>2. Evidence(project, tree, item).ok
    BY <1>6
  <2>4. evidence = DirAt(tree, project.root).evidence
    OBVIOUS
  <2> HIDE DEF own
  <2>3. /\ Evidence(project, tree, item).val \in Seq({r \in evidence.val : r.item = item})
        /\ ToSet(Evidence(project, tree, item).val) = {r \in evidence.val : r.item = item}
    BY <2>1, <2>2, <2>4, EvidenceLists
  <2> QED
    BY <2>3 DEF own
<1>11. \A r \in own : {r.path, r.id, r.observed} \subseteq Nat
  BY <1>9 DEF PossibleFiles
<1> HIDE DEF own, records, found, at
<1>12. ASSUME NEW i \in DOMAIN policy
       PROVE  LET mine == {r \in ToSet(records) : r.item = item /\ r.check = policy[i].check
                                                    /\ r.revision = at.revision}
              IN  \E r \in mine : /\ Supports(r, policy[i])
                                  /\ \A s \in mine : s.observed <= r.observed
  <2> DEFINE requirement == policy[i]
  <2>1. Satisfies(requirement, EvaluateRequirement(requirement, item, at.revision, records).state)
    BY <1>8
  <2> HIDE DEF requirement
  <2> QED
    BY <1>10, <1>11, <2>1, CheckSupported DEF requirement
<1>13. \A i \in DOMAIN policy :
          {r \in evidence.val : /\ r.item = item /\ r.check = policy[i].check
                                /\ r.revision = at.revision}
          = {r \in ToSet(records) : /\ r.item = item /\ r.check = policy[i].check
                                    /\ r.revision = at.revision}
  BY <1>10 DEF own
<1> QED
  BY <1>6, <1>7, <1>8, <1>12, <1>13 DEF made, at

(***************************************************************************)
(* The steps of requests.                                                  *)
(***************************************************************************)
LEMMA ToSetConcat ==
    ASSUME NEW S, NEW s \in Seq(S), NEW t \in Seq(S)
    PROVE  s \o t \in Seq(S) /\ ToSet(s \o t) = ToSet(s) \union ToSet(t)
<1> DEFINE m == Len(s)
           n == Len(t)
           u == s \o t
<1>1. /\ u \in Seq(S) /\ m \in Nat /\ n \in Nat /\ Len(u) = m + n
      /\ \A i \in 1..m + n : u[i] = IF i <= m THEN s[i] ELSE t[i - m]
  OBVIOUS
<1>2. DOMAIN s = 1..m /\ DOMAIN t = 1..n /\ DOMAIN u = 1..m + n
  BY <1>1
<1> HIDE DEF m, n, u
<1>3. \A i \in 1..m : i \in 1..m + n /\ u[i] = s[i]
  BY <1>1
<1>4. \A i \in 1..n : m + i \in 1..m + n /\ u[m + i] = t[i]
  BY <1>1
<1>5. \A i \in 1..m + n : (i \in 1..m /\ u[i] = s[i]) \/ (i - m \in 1..n /\ u[i] = t[i - m])
  BY <1>1
<1>6. ToSet(u) \subseteq ToSet(s) \union ToSet(t)
  BY <1>2, <1>5 DEF ToSet
<1>7. ToSet(s) \subseteq ToSet(u)
  BY <1>2, <1>3 DEF ToSet
<1>8. ToSet(t) \subseteq ToSet(u)
  BY <1>2, <1>4 DEF ToSet
<1> QED
  BY <1>1, <1>6, <1>7, <1>8 DEF u

LEMMA ToSetTuples ==
    /\ ToSet(<<>>) = {}
    /\ \A a : ToSet(<<a>>) = {a}
    /\ \A a, b, c, d, e : ToSet(<<a, b, c, d, e>>) = {a, b, c, d, e}
<1>1. ToSet(<<>>) = {}
  BY DEF ToSet
<1>2. ASSUME NEW a PROVE ToSet(<<a>>) = {a}
  <2>1. DOMAIN <<a>> = {1} /\ <<a>>[1] = a
    OBVIOUS
  <2> QED
    BY <2>1 DEF ToSet
<1>3. ASSUME NEW a, NEW b, NEW c, NEW d, NEW e
      PROVE  ToSet(<<a, b, c, d, e>>) = {a, b, c, d, e}
  <2> DEFINE s == <<a, b, c, d, e>>
  <2>1. DOMAIN s = {1, 2, 3, 4, 5} /\ s[1] = a /\ s[2] = b /\ s[3] = c /\ s[4] = d /\ s[5] = e
    OBVIOUS
  <2> HIDE DEF s
  <2>2. ToSet(s) = {a, b, c, d, e}
    BY <2>1 DEF ToSet
  <2> QED
    BY <2>2 DEF s
<1> QED
  BY <1>1, <1>2, <1>3

LEMMA SoloSteps ==
    ASSUME NEW S, NEW names \in Seq(S)
    PROVE  /\ Solo(names) \in Seq(S \X {<<>>})
           /\ ToSet(Solo(names)) = {<<n, <<>>>> : n \in ToSet(names)}
<1>1. DOMAIN names = 1..Len(names) /\ Len(names) \in Nat
  OBVIOUS
<1>2. Solo(names) = [i \in 1..Len(names) |-> <<names[i], <<>>>>]
  BY <1>1 DEF Solo
<1>3. \A i \in 1..Len(names) : names[i] \in S
  OBVIOUS
<1>4. Solo(names) \in Seq(S \X {<<>>})
  BY <1>1, <1>2, <1>3
<1> QED
  BY <1>1, <1>2, <1>4 DEF ToSet

LEMMA AfterSteps ==
    ASSUME NEW S, NEW q, NEW steps \in Seq(S), NEW more \in Seq(S)
    PROVE  /\ After(q, steps, more) \in Seq(S)
           /\ Read(q, steps) =>
                 ToSet(After(q, steps, more)) = ToSet(steps) \union ToSet(more)
           /\ ~Read(q, steps) => ToSet(After(q, steps, more)) = ToSet(steps)
<1>1. <<>> \in Seq(S) /\ ToSet(<<>>) = {}
  BY DEF ToSet
<1> DEFINE follow == IF ToSet(steps) \subseteq DOMAIN q.see THEN more ELSE <<>>
<1>2. /\ follow \in Seq(S)
      /\ ToSet(follow) = IF ToSet(steps) \subseteq DOMAIN q.see THEN ToSet(more) ELSE {}
  BY <1>1
<1>3. After(q, steps, more) = steps \o follow
  BY DEF After
<1> HIDE DEF follow
<1>4. steps \o follow \in Seq(S) /\ ToSet(steps \o follow) = ToSet(steps) \union ToSet(follow)
  BY <1>2, ToSetConcat
<1> QED
  BY <1>2, <1>3, <1>4 DEF Read

LEMMA StepSetIs ==
    ASSUME NEW S, NEW q, Steps(Wanted(q)) \in Seq(S)
    PROVE  StepSet(q) = ToSet(Steps(Wanted(q)))
<1>1. DOMAIN Steps(Wanted(q)) = 1..Len(Steps(Wanted(q)))
  OBVIOUS
<1> QED
  BY <1>1 DEF StepSet, ToSet

\* A view shows what was read.
LEMMA ViewAt ==
    ASSUME NEW q, NEW sub, NEW n, <<n, sub>> \in DOMAIN q.see
    PROVE  n \in DOMAIN View(q, sub) /\ View(q, sub)[n] = q.see[<<n, sub>>]
<1>1. n \in {s[1] : s \in {x \in DOMAIN q.see : x[2] = sub}}
  OBVIOUS
<1> QED
  BY <1>1 DEF View

LEMMA ViewWanted ==
    ASSUME NEW q
    PROVE  /\ \A sub : View(Wanted(q), sub) = View(q, sub) /\ View(Made(q), sub) = View(q, sub)
           /\ \A name : Arg(Wanted(q), name) = Arg(q, name) /\ Arg(Made(q), name) = Arg(q, name)
           /\ Wanted(q).op = q.op /\ Made(q).op = q.op
           /\ Wanted(q).see = q.see /\ Made(q).see = q.see
BY DEF View, Wanted, Made, Arg

-----------------------------------------------------------------------------
ItemFirst == {<<n, <<>>>> : n \in {"catalog", "live", "convention", "config", "items"}}
Git0 == <<"git", <<>>>>
Evidence0 == <<"evidence", <<>>>>

LEMMA AcceptanceSteps ==
    ASSUME NEW q, q.op = "get_acceptance"
    PROVE  LET see == View(q, <<>>)
               git == /\ Policied(see, Arg(q, "repository_id"))
                      /\ GetWorkItem(see, Arg(q, "repository_id"), Arg(q, "work_item_id")).ok
           IN  StepSet(q) =
                  ItemFirst \union
                  (IF ItemFirst \subseteq DOMAIN q.see
                   THEN (IF git THEN {Git0} ELSE {}) \union {Evidence0} ELSE {})
<1> DEFINE see == View(q, <<>>)
           git == /\ Policied(see, Arg(q, "repository_id"))
                  /\ GetWorkItem(see, Arg(q, "repository_id"), Arg(q, "work_item_id")).ok
           names == <<"catalog", "live", "convention", "config", "items">>
           S == {"catalog", "live", "convention", "config", "items", "git", "evidence"}
           more == (IF git THEN <<"git">> ELSE <<>>) \o <<"evidence">>
           p == Wanted(q)
<1>1. /\ p.op = q.op /\ p.see = q.see /\ View(p, <<>>) = see
      /\ Arg(p, "repository_id") = Arg(q, "repository_id")
      /\ Arg(p, "work_item_id") = Arg(q, "work_item_id")
  BY ViewWanted
<1> HIDE DEF p, see
<1>2. p.op = "get_acceptance"
  BY <1>1
<1>3. Steps(p) = ItemSteps(p)
  <2>1. /\ p.op \in ItemOps
        /\ p.op \notin {"list_repositories", "list_active_sessions"}
        /\ p.op \notin RepositoryOps /\ p.op # "get_repository_control_plane"
        /\ p.op \notin HostOps /\ p.op \notin StorePages /\ p.op \notin FilePages
        /\ p.op # "get_execution_history" /\ p.op # "/history" /\ p.op # "/history/session"
        /\ p.op \notin SnapshotOps \union FederationOps
    BY <1>2 DEF ItemOps, RepositoryOps, HostOps, StorePages, FilePages, SnapshotOps,
                FederationOps
  <2> QED
    BY <2>1, Zenon DEF Steps
<1>4. ItemSteps(p) = After(p, Solo(names), Solo(more))
  BY <1>1, <1>2 DEF ItemSteps
<1>5. names \in Seq(S) /\ ToSet(names) = {"catalog", "live", "convention", "config", "items"}
  <2>1. names \in Seq(S)
    OBVIOUS
  <2> QED
    BY <2>1, ToSetTuples
<1>6. more \in Seq(S) /\ ToSet(more) = (IF git THEN {"git"} ELSE {}) \union {"evidence"}
  <2> DEFINE a == IF git THEN <<"git">> ELSE <<>>
             b == <<"evidence">>
  <2>1. a \in Seq(S) /\ ToSet(a) = (IF git THEN {"git"} ELSE {})
    <3>1. <<"git">> \in Seq(S) /\ <<>> \in Seq(S)
      OBVIOUS
    <3> HIDE DEF S
    <3>2. CASE git
      BY <3>1, <3>2, ToSetTuples
    <3>3. CASE ~git
      BY <3>1, <3>3, ToSetTuples
    <3> QED
      BY <3>2, <3>3
  <2>2. b \in Seq(S) /\ ToSet(b) = {"evidence"}
    BY ToSetTuples
  <2> HIDE DEF a, b
  <2>3. a \o b \in Seq(S) /\ ToSet(a \o b) = ToSet(a) \union ToSet(b)
    BY <2>1, <2>2, ToSetConcat
  <2> QED
    BY <2>1, <2>2, <2>3 DEF a, b
<1> HIDE DEF names, more, S
<1> DEFINE first == Solo(names)
           others == Solo(more)
<1>7. /\ first \in Seq(S \X {<<>>}) /\ ToSet(first) = ItemFirst
      /\ others \in Seq(S \X {<<>>})
      /\ ToSet(others) = (IF git THEN {Git0} ELSE {}) \union {Evidence0}
  <2>1. /\ first \in Seq(S \X {<<>>}) /\ others \in Seq(S \X {<<>>})
        /\ ToSet(first) = {<<n, <<>>>> : n \in ToSet(names)}
        /\ ToSet(others) = {<<n, <<>>>> : n \in ToSet(more)}
    BY <1>5, <1>6, SoloSteps
  <2> HIDE DEF first, others
  <2>2. ToSet(first) = ItemFirst
    BY <1>5, <2>1 DEF ItemFirst
  <2>3. ToSet(others) = (IF git THEN {Git0} ELSE {}) \union {Evidence0}
    BY <1>6, <2>1 DEF Git0, Evidence0
  <2> QED
    BY <2>1, <2>2, <2>3
<1> HIDE DEF first, others
<1>8. /\ Steps(p) \in Seq(S \X {<<>>})
      /\ ToSet(Steps(p)) = ItemFirst \union
            (IF ItemFirst \subseteq DOMAIN p.see
             THEN (IF git THEN {Git0} ELSE {}) \union {Evidence0} ELSE {})
  <2>1. Steps(p) = After(p, first, others)
    BY <1>3, <1>4 DEF first, others
  <2> HIDE DEF git
  <2>2. /\ After(p, first, others) \in Seq(S \X {<<>>})
        /\ ToSet(After(p, first, others)) = ToSet(first) \union
              (IF ToSet(first) \subseteq DOMAIN p.see THEN ToSet(others) ELSE {})
    <3> DEFINE U == S \X {<<>>}
    <3>1. first \in Seq(U) /\ others \in Seq(U)
      BY <1>7
    <3> HIDE DEF U
    <3>2. /\ After(p, first, others) \in Seq(U)
          /\ Read(p, first) =>
                ToSet(After(p, first, others)) = ToSet(first) \union ToSet(others)
          /\ ~Read(p, first) => ToSet(After(p, first, others)) = ToSet(first)
      BY <3>1, AfterSteps
    <3> QED
      BY <3>2 DEF U, Read
  <2> QED
    BY <1>7, <2>1, <2>2
<1>9. StepSet(q) = ToSet(Steps(p))
  BY <1>8, StepSetIs DEF p
<1> QED
  BY <1>1, <1>8, <1>9 DEF see

Catalog0 == <<"catalog", <<>>>>
Live0 == <<"live", <<>>>>

\* What git said to a request for an acceptance, at the root of its repository.
GitOfRequest(machines, q) ==
    q.op = "get_acceptance" /\ Git0 \in DOMAIN q.see =>
        /\ Catalog0 \in DOMAIN q.see /\ Live0 \in DOMAIN q.see
        /\ \E m \in machines : q.see[Git0] = InspectGit(m.git, RootOf(q, Git0))

GitInv == \A w \in Worker : work[w] # Idle => GitOfRequest(World.machines, work[w])

\* Where a request for an acceptance asks git.
LEMMA RootOfRequest ==
    ASSUME NEW q, q.op = "get_acceptance", Catalog0 \in DOMAIN q.see, Live0 \in DOMAIN q.see
    PROVE  /\ RootOf(q, Git0) = FindRepository(q.see[Catalog0], q.see[Live0],
                                               Arg(q, "repository_id")).val.root
           /\ SeenRepository(View(q, <<>>), Arg(q, "repository_id"))
                 = FindRepository(q.see[Catalog0], q.see[Live0], Arg(q, "repository_id"))
<1>1. /\ View(q, <<>>)["catalog"] = q.see[Catalog0]
      /\ View(q, <<>>)["live"] = q.see[Live0]
  BY ViewAt DEF Catalog0, Live0
<1>2. SeenRepository(View(q, <<>>), Arg(q, "repository_id"))
         = FindRepository(q.see[Catalog0], q.see[Live0], Arg(q, "repository_id"))
  BY <1>1 DEF SeenRepository
<1>3. q.op \notin StorePages \union FilePages
  BY DEF StorePages, FilePages
<1>4. Git0[1] = "git" /\ Git0[2] = <<>>
  BY DEF Git0
<1>5. RootOf(q, Git0) = SeenRepository(View(q, <<>>), Arg(q, "repository_id")).val.root
  BY <1>3, <1>4 DEF RootOf
<1> QED
  BY <1>2, <1>5

\* A request that has read no more, or nothing that was read before.
LEMMA GitOfSame ==
    ASSUME NEW machines, NEW q, NEW n, GitOfRequest(machines, q),
           n.op = q.op, n.args = q.args, n.see = q.see
    PROVE  GitOfRequest(machines, n)
<1> SUFFICES ASSUME n.op = "get_acceptance", Git0 \in DOMAIN n.see
             PROVE  /\ Catalog0 \in DOMAIN n.see /\ Live0 \in DOMAIN n.see
                    /\ \E m \in machines : n.see[Git0] = InspectGit(m.git, RootOf(n, Git0))
  BY DEF GitOfRequest
<1>1. /\ Catalog0 \in DOMAIN q.see /\ Live0 \in DOMAIN q.see
      /\ \E m \in machines : q.see[Git0] = InspectGit(m.git, RootOf(q, Git0))
  BY DEF GitOfRequest
<1>2. RootOf(n, Git0) = RootOf(q, Git0)
  BY <1>1, RootOfRequest DEF Arg
<1> QED
  BY <1>1, <1>2

LEMMA GitOfNext ==
    ASSUME NEW machines, NEW m \in machines, NEW q, NEW n, GitOfRequest(machines, q),
           NEW step, step \in StepSet(q) \ DOMAIN q.see,
           n.op = q.op, n.args = q.args, n.see = With(q.see, step, Observed(q, step, m))
    PROVE  GitOfRequest(machines, n)
<1> SUFFICES ASSUME n.op = "get_acceptance", Git0 \in DOMAIN n.see
             PROVE  /\ Catalog0 \in DOMAIN n.see /\ Live0 \in DOMAIN n.see
                    /\ \E x \in machines : n.see[Git0] = InspectGit(x.git, RootOf(n, Git0))
  BY DEF GitOfRequest
<1>1. /\ DOMAIN n.see = DOMAIN q.see \union {step}
      /\ \A s \in DOMAIN q.see : n.see[s] = q.see[s]
      /\ n.see[step] = Observed(q, step, m)
  BY DEF With
<1>2. /\ Catalog0 \in DOMAIN q.see /\ Live0 \in DOMAIN q.see
      /\ \E x \in machines : n.see[Git0] = InspectGit(x.git, RootOf(q, Git0))
  <2>1. CASE Git0 \in DOMAIN q.see
    BY <1>1, <2>1 DEF GitOfRequest
  <2>2. CASE Git0 \notin DOMAIN q.see
    <3>1. step = Git0
      BY <1>1, <2>2
    <3>2. Git0 \in StepSet(q)
      BY <3>1
    <3>3. Git0 \notin ItemFirst /\ Catalog0 \in ItemFirst /\ Live0 \in ItemFirst
      BY DEF Git0, Catalog0, Live0, ItemFirst
    <3>4. ItemFirst \subseteq DOMAIN q.see
      BY <3>2, <3>3, AcceptanceSteps
    <3>5. IsGit(Git0)
      BY DEF IsGit, Git0
    <3>6. n.see[Git0] = InspectGit(m.git, RootOf(q, Git0))
      BY <1>1, <3>1, <3>5 DEF Observed
    <3> QED
      BY <3>3, <3>4, <3>6
  <2> QED
    BY <2>1, <2>2
<1>3. RootOf(n, Git0) = RootOf(q, Git0)
  <2>1. n.see[Catalog0] = q.see[Catalog0] /\ n.see[Live0] = q.see[Live0]
    BY <1>1, <1>2
  <2>2. Catalog0 \in DOMAIN n.see /\ Live0 \in DOMAIN n.see
    BY <1>1, <1>2
  <2> QED
    BY <1>2, <2>1, <2>2, RootOfRequest DEF Arg
<1> QED
  BY <1>1, <1>2, <1>3

\* A step that touches one request only.
LEMMA OneGit ==
    ASSUME GitInv, NEW w \in Worker, Others(w), UNCHANGED world,
           work'[w] # Idle => GitOfRequest(World.machines, work'[w])
    PROVE  GitInv'
BY DEF GitInv, Others, World

LEMMA WorkerGit ==
    ASSUME FreshInv, WorldInv, AnswerInv, GitInv, NEW w \in Worker, Step(w) \/ Cancel(w)
    PROVE  GitInv'
<1> DEFINE q == work[w]
           n == work'[w]
           M == World.machines
<1>1. UNCHANGED world
  BY DEF Step, ReadNext, Lookup, Ask, Store, Reply, Cancel, Answered, worldVars
<1>2. ASSUME q # Idle, Others(w), n.op = q.op, n.args = q.args, n.see = q.see
      PROVE  GitInv'
  <2>1. GitOfRequest(M, q)
    BY <1>2 DEF GitInv
  <2> HIDE DEF M
  <2>2. GitOfRequest(M, n)
    BY <1>2, <2>1, GitOfSame
  <2> QED
    BY <1>1, <1>2, <2>2, OneGit DEF M
<1>3. CASE ReadNext(w)
  <2> DEFINE step == Head(q.next)
  <2>1. /\ Others(w) /\ q # Idle /\ q.next # <<>> /\ n.op = q.op /\ n.args = q.args
        /\ n.see = With(q.see, step, Observed(q, step, now))
    BY <1>3, ReadNextShape
  <2>2. /\ GitOfRequest(M, q) /\ now \in M
        /\ step \in StepSet(q) \ DOMAIN q.see
    BY <2>1 DEF GitInv, WorldInv, AnswerInv, NextOfSteps
  <2> HIDE DEF M, step
  <2>3. GitOfRequest(M, n)
    BY <2>1, <2>2, GitOfNext
  <2> QED
    BY <1>1, <2>1, <2>3, OneGit DEF M
<1>4. CASE Lookup(w)
  <2>1. q.phase # "idle"
    BY <1>4 DEF Lookup
  <2> DEFINE r == RemoteOf(q)
             entry == cache[Service(w, q)][r]
  <2>2. Got(w, entry.context, entry.stored) \/ work' = [work EXCEPT ![w].phase = "ask"]
    BY <1>4 DEF Lookup
  <2> HIDE DEF entry
  <2>3. q # Idle /\ Others(w) /\ n.see = q.see /\ n.op = q.op /\ n.args = q.args
    BY <2>1, <2>2, GotShape, MissShape
  <2> QED
    BY <1>2, <2>3
<1>5. ASSUME NEW context, Answered(w, context) PROVE GitInv'
  <2>1. q # Idle /\ Others(w) /\ n.see = q.see /\ n.op = q.op /\ n.args = q.args
    BY <1>5, AnsweredShape
  <2> QED
    BY <1>2, <2>1
<1>6. CASE Store(w)
  <2>1. q.phase # "idle" /\ Got(w, q.answer.val, clock)
    BY <1>6 DEF Store
  <2>2. q # Idle /\ Others(w) /\ n.see = q.see /\ n.op = q.op /\ n.args = q.args
    BY <2>1, GotShape
  <2> QED
    BY <1>2, <2>2
<1>7. CASE Reply(w)
  <2>1. q # Idle /\ Others(w) /\ n.see = q.see /\ n.op = q.op /\ n.args = q.args
    BY <1>7, ReplyShape
  <2> QED
    BY <1>2, <2>1
<1> QED
  BY <1>3, <1>4, <1>5, <1>6, <1>7 DEF Step, Ask, Cancel

LEMMA NewRequestGit ==
    ASSUME FreshInv, GitInv, NEW w \in Worker, NEW op, NEW args, NEW id, UNCHANGED world,
           work' = [work EXCEPT ![w] = Onward(Request(op, args, id))]
    PROVE  GitInv'
<1>1. Others(w) /\ work'[w].see = <<>>
  BY NewRequestShape
<1>2. Git0 \notin DOMAIN work'[w].see
  BY <1>1 DEF Git0
<1> QED
  BY <1>1, <1>2, OneGit DEF GitOfRequest

LEMMA GitInit == Init => GitInv
BY DEF Init, GitInv

LEMMA GitStep == FreshInv /\ WorldInv /\ AnswerInv /\ GitInv /\ [Next]_vars => GitInv'
<1> SUFFICES ASSUME FreshInv, WorldInv, AnswerInv, GitInv, [Next]_vars
             PROVE  GitInv'
  OBVIOUS
<1>1. CASE UNCHANGED <<world, work>>
  BY <1>1 DEF GitInv, World
<1>2. ASSUME NEW p \in Process, Begin(p) \/ Die(p) PROVE GitInv'
  <2>1. /\ UNCHANGED world
        /\ \A w \in Worker : work'[w] # Idle => work'[w] = work[w]
    BY <1>2 DEF Begin, Die, readVars, worldVars
  <2> QED
    BY <2>1 DEF GitInv, World
<1>3. CASE TakeLine
  <2>1. UNCHANGED world /\ Session \in Worker
    BY <1>3, OwnerAssumption DEF TakeLine, worldVars
  <2>2. CASE work' = [work EXCEPT ![Session] = Idle]
    <3>1. Others(Session) /\ work'[Session] = Idle
      BY <2>1, <2>2 DEF FreshInv, Others
    <3> QED
      BY <2>1, <3>1, OneGit
  <2> QED
    BY <1>3, <2>1, <2>2, NewRequestGit DEF TakeLine
<1>4. ASSUME NEW w \in Worker, Browse(w) PROVE GitInv'
  <2>1. UNCHANGED world
    BY <1>4 DEF Browse
  <2>2. PICK page : work' = [work EXCEPT ![w] = Onward(Request(page.op, page.args, 0))]
    BY <1>4 DEF Browse
  <2> QED
    BY <2>1, <2>2, NewRequestGit
<1>5. CASE Environment \/ Tick
  BY <1>1, <1>5 DEF Environment, Tick, worldVars
<1> QED
  BY <1>1, <1>2, <1>3, <1>4, <1>5, WorkerGit DEF Next, vars, readVars, worldVars

\* A project belongs to the repository at whose root it was looked for.
LEMMA ResolveRoot ==
    ASSUME NEW root, NEW first, NEW second, Resolve(root, first, second).ok
    PROVE  Resolve(root, first, second).val.repositoryRoot = root
<1> DEFINE detected == DetectConvention(first)
           found == Resolve(root, first, second)
           bare == Project(root, root, detected.val, detected.val.path, <<>>)
           loaded == LoadConfig(second.lines)
           follow == Then(loaded, LAMBDA cfg : Ok(Configured(root, cfg)))
           chosen == CASE second.config = "unreadable" -> Error
                       [] second.config = "absent" -> Ok(bare)
                       [] OTHER -> follow
<1>1. found = Error \/ found = chosen
  BY DEF Resolve, Then
<1>2. chosen \in {Error, Ok(bare), follow}
  <2> HIDE DEF follow, bare
  <2>1. "unreadable" # "absent"
    OBVIOUS
  <2> QED
    BY <2>1, Zenon
<1>3. follow \in {Error, Ok(Configured(root, loaded.val))}
  BY DEF Then
<1>4. ~Error.ok /\ \A v : Ok(v).val = v
  BY DEF Error, Ok
<1>5. bare.repositoryRoot = root /\ Configured(root, loaded.val).repositoryRoot = root
  BY DEF Configured, Project
<1> HIDE DEF found, bare, chosen, follow
<1>6. found.ok
  BY DEF found
<1>7. found.val.repositoryRoot = root
  BY <1>1, <1>2, <1>3, <1>4, <1>5, <1>6
<1> QED
  BY <1>7 DEF found

\* What an answer to get_acceptance is made of.
LEMMA AcceptanceParts ==
    ASSUME NEW see, NEW id, NEW item, GetAcceptance(see, id, item).ok
    PROVE  LET r == SeenRepository(see, id)
               p == SeenProject(see, r.val.root)
               git == GitFor(p.val, see["git"])
               result == EvaluateAcceptance(p.val, item, git.val, see["evidence"])
           IN  /\ r.ok /\ p.ok /\ git.ok /\ result.ok
               /\ GetWorkItem(see, id, item).ok
               /\ GetAcceptance(see, id, item).val.decision = result.val.decision
<1> DEFINE r == SeenRepository(see, id)
           p == SeenProject(see, r.val.root)
           git == GitFor(p.val, see["git"])
           result == EvaluateAcceptance(p.val, item, git.val, see["evidence"])
           all == OfProject(see, id)
           item0 == GetWorkItem(see, id, item)
           made == GetAcceptance(see, id, item)
           told == [policy |-> p.val.policy, item |-> item, decision |-> result.val.decision,
                    revision |-> result.val.revision, pending |-> result.val.pending,
                    evidenceCount |-> result.val.evidenceCount]
<1>1. ~Error.ok /\ \A v : Ok(v).ok /\ Ok(v).val = v
  BY DEF Error, Ok
<1>2. item0.ok /\ all.ok
  BY <1>1 DEF GetAcceptance, Then
<1>3. r.ok /\ p.ok /\ all = Ok([repository |-> r.val, project |-> p.val])
  BY <1>1, <1>2 DEF OfProject, Then
<1>4. all.val.project = p.val /\ all.val.repository = r.val
  BY <1>1, <1>3
<1> HIDE DEF r, p, all, item0
<1>5. made = Then(git, LAMBDA g :
                Then(EvaluateAcceptance(p.val, item, g, see["evidence"]), LAMBDA found :
                    Ok([policy |-> p.val.policy, item |-> item, decision |-> found.decision,
                        revision |-> found.revision, pending |-> found.pending,
                        evidenceCount |-> found.evidenceCount])))
  BY <1>2, <1>4 DEF GetAcceptance, Then, all, item0
<1>6. git.ok /\ result.ok /\ made = Ok(told)
  <2>1. git.ok
    BY <1>1, <1>5 DEF Then
  <2>2. made = Then(result, LAMBDA found :
                  Ok([policy |-> p.val.policy, item |-> item, decision |-> found.decision,
                      revision |-> found.revision, pending |-> found.pending,
                      evidenceCount |-> found.evidenceCount]))
    BY <1>5, <2>1 DEF Then
  <2> HIDE DEF result, git, made
  <2>3. result.ok
    BY <1>1, <2>2 DEF Then, made
  <2> QED
    BY <2>1, <2>2, <2>3 DEF Then
<1> HIDE DEF result, made, git
<1>7. made.val.decision = result.val.decision
  <2>1. told.decision = result.val.decision
    OBVIOUS
  <2> HIDE DEF told
  <2> QED
    BY <1>1, <1>6, <2>1
<1> QED
  BY <1>2, <1>3, <1>6, <1>7 DEF r, p, all, item0, result, made, git

\* The files of evidence in a machine, and the worktrees git lists, are possible.
LEMMA MachinePossible ==
    ASSUME world \in DOMAIN Worlds, NEW m \in World.machines
    PROVE  /\ \A root : LET evidence == DirAt(m.tree, root).evidence
                        IN  evidence.ok => PossibleFiles(evidence.val)
           /\ \A root : LET git == InspectGit(m.git, root)
                        IN  git.ok => PossibleTrees(git.val.worktrees)
<1>1. /\ \A root \in DOMAIN m.git : m.git[root].ok => PossibleTrees(m.git[root].val.worktrees)
      /\ \A root \in DOMAIN m.tree : m.tree[root].evidence.ok =>
            PossibleFiles(m.tree[root].evidence.val)
  BY MachinesAssumption DEF World, PossibleDir
<1>2. PossibleFiles(EmptyDir.evidence.val)
  <2>1. EmptyDir.evidence.val = {}
    BY DEF EmptyDir, Ok
  <2> QED
    BY <2>1, FS_EmptySet DEF PossibleFiles
<1>3. ASSUME NEW root, DirAt(m.tree, root).evidence.ok
      PROVE  PossibleFiles(DirAt(m.tree, root).evidence.val)
  BY <1>1, <1>2, <1>3 DEF DirAt
<1>4. ASSUME NEW root, InspectGit(m.git, root).ok
      PROVE  PossibleTrees(InspectGit(m.git, root).val.worktrees)
  BY <1>1, <1>4 DEF InspectGit, Error
<1> QED
  BY <1>3, <1>4

LEMMA AnswerAcceptance ==
    ASSUME NEW q, NEW hostID, q.op = "get_acceptance"
    PROVE  Answer(Made(q), hostID) =
              GetAcceptance(View(q, <<>>), Arg(q, "repository_id"), Arg(q, "work_item_id"))
<1> DEFINE p == Made(q)
<1>1. /\ p.op = "get_acceptance" /\ View(p, <<>>) = View(q, <<>>)
      /\ Arg(p, "repository_id") = Arg(q, "repository_id")
      /\ Arg(p, "work_item_id") = Arg(q, "work_item_id")
  BY ViewWanted
<1> HIDE DEF p
<1>2. /\ p.op # "list_repositories" /\ p.op # "list_active_sessions" /\ p.op # "get_repository"
      /\ p.op # "list_worktrees" /\ p.op # "list_work_items" /\ p.op # "get_work_item"
      /\ p.op # "get_evidence" /\ p.op # "get_repository_control_plane"
      /\ p.op \notin HostOps /\ p.op # "/project" /\ p.op # "/project/spec"
      /\ p.op # "/project/evidence" /\ p.op # "/project/acceptance"
      /\ p.op # "get_execution_history" /\ p.op # "/history" /\ p.op # "/history/session"
      /\ p.op \notin SnapshotOps /\ p.op \notin FederationOps
  BY <1>1 DEF HostOps, SnapshotOps, FederationOps
<1>3. Answer(p, hostID) =
         GetAcceptance(View(p, <<>>), Arg(p, "repository_id"), Arg(p, "work_item_id"))
  BY <1>1, <1>2, Zenon DEF Answer
<1> QED
  BY <1>1, <1>3 DEF p

\* An accepted answer is borne out by what was read.
LEMMA AcceptedBorneOut ==
    ASSUME world \in DOMAIN Worlds, NEW q, q.op = "get_acceptance",
           TypedRequest(World.machines, q), GitOfRequest(World.machines, q),
           StepSet(q) \subseteq DOMAIN q.see,
           NEW hostID, q.answer = Answer(Made(q), hostID),
           q.answer.ok, q.answer.val.decision.state = "accepted"
    PROVE  BorneOut(q)
<1> DEFINE see == View(q, <<>>)
           id == Arg(q, "repository_id")
           item == Arg(q, "work_item_id")
           r == SeenRepository(see, id)
           p == SeenProject(see, r.val.root)
           git == GitFor(p.val, see["git"])
           result == EvaluateAcceptance(p.val, item, git.val, see["evidence"])
           evidence == DirAt(see["evidence"], p.val.root).evidence
           at == ResolveGit(p.val.root, git.val)
           M == World.machines
<1>1. q.answer = GetAcceptance(see, id, item)
  BY AnswerAcceptance
<1> HIDE DEF see, id, item
<1>2. /\ r.ok /\ p.ok /\ git.ok /\ result.ok /\ GetWorkItem(see, id, item).ok
      /\ q.answer.val.decision = result.val.decision
  BY <1>1, AcceptanceParts
<1>3. ItemFirst \subseteq DOMAIN q.see /\ Evidence0 \in DOMAIN q.see
  BY AcceptanceSteps
<1>4. evidence.ok => PossibleFiles(evidence.val)
  <2>1. see["evidence"] = q.see[Evidence0]
    BY <1>3, ViewAt DEF see, Evidence0
  <2>2. PICK m \in M : SeenIn(q.see[Evidence0], Evidence0, m)
    BY <1>3 DEF TypedRequest
  <2>3. ~IsGit(Evidence0) /\ Evidence0[1] = "evidence"
    BY DEF IsGit, Evidence0
  <2>4. Found(m, "evidence") = m.tree
    BY Zenon DEF Found
  <2>5. see["evidence"] = m.tree
    BY <2>1, <2>2, <2>3, <2>4 DEF SeenIn
  <2> QED
    BY <2>5, MachinePossible
<1>5. /\ p.val.policy # <<>> /\ at.available
      /\ result.val.decision.revision = at.revision
      /\ \A i \in DOMAIN p.val.policy :
            LET own == {x \in evidence.val : /\ x.item = item
                                             /\ x.check = p.val.policy[i].check
                                             /\ x.revision = at.revision}
            IN  \E x \in own : /\ Supports(x, p.val.policy[i])
                               /\ \A s \in own : s.observed <= x.observed
  <2> DEFINE project == p.val
             g == git.val
             tree == see["evidence"]
  <2>1. /\ EvaluateAcceptance(project, item, g, tree).ok
        /\ EvaluateAcceptance(project, item, g, tree).val.decision.state = "accepted"
    BY <1>2
  <2>2. /\ evidence = DirAt(tree, project.root).evidence
        /\ evidence.ok => PossibleFiles(evidence.val)
    BY <1>4
  <2> HIDE DEF project, g, tree, evidence
  <2>3. LET at_ == ResolveGit(project.root, g)
            made == EvaluateAcceptance(project, item, g, tree).val
        IN  /\ project.policy # <<>> /\ at_.available
            /\ made.decision.revision = at_.revision
            /\ \A i \in DOMAIN project.policy :
                  LET own == {x \in evidence.val : /\ x.item = item
                                                   /\ x.check = project.policy[i].check
                                                   /\ x.revision = at_.revision}
                  IN  \E x \in own : /\ Supports(x, project.policy[i])
                                     /\ \A s \in own : s.observed <= x.observed
    BY <2>1, <2>2, AcceptanceSupported
  <2> QED
    BY <2>3 DEF project, g, tree
<1>6. Policied(see, id)
  BY <1>2, <1>5 DEF Policied, Then, Ok
<1>7. Git0 \in DOMAIN q.see
  BY <1>2, <1>3, <1>6, AcceptanceSteps DEF see, id, item
<1>8. see["git"] = q.see[Git0] /\ git = see["git"]
  <2>1. see["git"] = q.see[Git0]
    BY <1>7, ViewAt DEF see, Git0
  <2> QED
    BY <1>5, <2>1 DEF GitFor
<1>9. PICK m \in M : q.see[Git0] = InspectGit(m.git, RootOf(q, Git0))
  BY <1>7 DEF GitOfRequest
<1>10. RootOf(q, Git0) = r.val.root
  <2>1. Catalog0 \in DOMAIN q.see /\ Live0 \in DOMAIN q.see
    BY <1>7 DEF GitOfRequest
  <2> QED
    BY <2>1, RootOfRequest DEF see, id
<1>11. p.val.repositoryRoot = r.val.root
  BY <1>2, ResolveRoot DEF SeenProject
<1>12. see["git"] = InspectGit(m.git, p.val.repositoryRoot)
  BY <1>8, <1>9, <1>10, <1>11
<1>13. PossibleTrees(git.val.worktrees)
  BY <1>2, <1>8, <1>12, MachinePossible
<1> DEFINE around == {t \in ToSet(git.val.worktrees) :
                         IsPrefix(CanonicalPath(t.path), CanonicalPath(p.val.root))}
<1>14. \E t \in around :
          /\ t.dirty = 0 /\ t.head # "" /\ at.revision = <<"git", t.head>>
          /\ \A u \in around : Len(CanonicalPath(u.path)) <= Len(CanonicalPath(t.path))
  <2> DEFINE root == p.val.root
             g == git.val
  <2>1. PossibleTrees(g.worktrees) /\ ResolveGit(root, g).available
    BY <1>5, <1>13
  <2> HIDE DEF root, g
  <2>2. LET near == {t \in ToSet(g.worktrees) :
                       IsPrefix(CanonicalPath(t.path), CanonicalPath(root))}
        IN  \E t \in near :
               /\ t.dirty = 0 /\ t.head # ""
               /\ ResolveGit(root, g).revision = <<"git", t.head>>
               /\ \A u \in near : Len(CanonicalPath(u.path)) <= Len(CanonicalPath(t.path))
    BY <2>1, ResolvedClean
  <2> QED
    BY <2>2 DEF root, g
<1>15. q.answer.val.decision.revision = at.revision
  BY <1>2, <1>5
<1> DEFINE revision == q.answer.val.decision.revision
           near == {t \in ToSet(see["git"].val.worktrees) :
                       IsPrefix(CanonicalPath(t.path), CanonicalPath(p.val.root))}
<1>16. \E t \in near :
          /\ t.dirty = 0 /\ t.head # "" /\ revision = <<"git", t.head>>
          /\ \A u \in near : Len(CanonicalPath(u.path)) <= Len(CanonicalPath(t.path))
  <2>1. near = around
    BY <1>8
  <2> HIDE DEF near, around
  <2> QED
    BY <1>14, <1>15, <2>1
<1> HIDE DEF r, git, result, at
<1>17. \A i \in DOMAIN p.val.policy :
          LET own == {x \in evidence.val : /\ x.item = item
                                           /\ x.check = p.val.policy[i].check
                                           /\ x.revision = revision}
          IN  \E x \in own : /\ Supports(x, p.val.policy[i])
                             /\ \A s \in own : s.observed <= x.observed
  <2>1. revision = at.revision
    BY <1>15
  <2> HIDE DEF revision, evidence, item, p
  <2> QED
    BY <1>5, <2>1
<1> QED
  BY <1>5, <1>12, <1>16, <1>17 DEF BorneOut, see, id, item, r

-----------------------------------------------------------------------------
\* For any machine that changes in any way while it is read, whatever the
\* evidence, the policies and the worktrees: what get_acceptance accepts is
\* borne out by a clean worktree around the project and by the newest valid
\* record of every required check at its head (acceptance.go:72).
THEOREM AcceptanceIsBorneOut == Spec => []AcceptedOnCurrentEvidence
<1>1. ASSUME IdentityInv, FreshInv, WorldInv, TypedInv, AnswerInv, GitInv
      PROVE  AcceptedOnCurrentEvidence
  <2> SUFFICES ASSUME NEW w \in Worker, Done(w, {"get_acceptance"}), work[w].answer.ok,
                      work[w].answer.val.decision.state = "accepted"
               PROVE  BorneOut(work[w])
    BY DEF AcceptedOnCurrentEvidence
  <2> DEFINE q == work[w]
             hostID == held[Owner[w]]
  <2>1. q.phase = "done" /\ q.op = "get_acceptance"
    BY DEF Done
  <2>2. q # Idle
    BY <2>1, PhaseIdle
  <2>3. /\ q.answer = Answer(Made(q), hostID) /\ StepSet(q) \subseteq DOMAIN q.see
        /\ TypedRequest(World.machines, q) /\ GitOfRequest(World.machines, q)
        /\ world \in DOMAIN Worlds
    BY <1>1, <2>1, <2>2 DEF AnswerInv, NextOfSteps, TypedInv, GitInv, WorldInv
  <2> HIDE DEF q, hostID
  <2>4. q.answer.ok /\ q.answer.val.decision.state = "accepted"
    BY DEF q
  <2>5. BorneOut(q)
    BY <2>1, <2>3, <2>4, AcceptedBorneOut
  <2> QED
    BY <2>5 DEF q
<1>2. Init => IdentityInv
  BY InvInit DEF Init
<1>3. IdentityInv /\ [Next]_vars => IdentityInv'
  BY InvStep, NextKeepsIdentity
<1> QED
  BY <1>1, <1>2, <1>3, FreshInit, FreshStep, WorldInit, WorldStep, TypedInit, TypedStep,
     AnswerInit, AnswerStep, GitInit, GitStep, PTL DEF Spec
===============================================================================
