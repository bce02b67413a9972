----------------------- MODULE RepositoryAnswersProofs -----------------------
(***************************************************************************)
(* Proofs about what a machine says of its repositories while nothing      *)
(* changes, for any worlds: config.Init keeps the convention of a project, *)
(* the totals of the Host are those of its repositories, and the overview  *)
(* of acceptance, the pages and get_acceptance say the same.               *)
(***************************************************************************)
EXTENDS FederationAnswersProofs

(* The file that config.Init leaves.                                       *)

\* The lines up to one, of which it is the last.
LEMMA LastLine ==
    ASSUME NEW n \in Nat, NEW T \in SUBSET (1..n), T # {}
    PROVE  Max(T) \in T /\ \A y \in T : Max(T) >= y
<1> DEFINE D == {n - y : y \in T}
<1>1. D \in SUBSET Nat /\ D # {}
  <2>1. \A y \in T : y \in 1..n /\ n - y \in Nat
    OBVIOUS
  <2>2. \E y : y \in T
    OBVIOUS
  <2> QED
    BY <2>1, <2>2
<1>2. Min(D) \in D /\ \A d \in D : Min(D) <= d
  BY <1>1, MinNat
<1>3. PICK x \in T : Min(D) = n - x
  BY <1>2
<1>4. \A y \in T : n - y \in D
  OBVIOUS
<1> HIDE DEF D
<1>5. \A y \in T : x >= y
  BY <1>2, <1>3, <1>4
<1> QED
  BY <1>5 DEF Max

\* h is the state of the parser after some of the lines.
Parsed(h, T, text) ==
    h[T] = IF T = {} THEN ParserStart ELSE ParseLine(h[T \ {Max(T)}], text[Max(T)])

IsParse(h, text, n) ==
    h = [T \in SUBSET (1..n) |-> IF T = {} THEN ParserStart
                                 ELSE LET x == Max(T)
                                      IN  ParseLine(h[T \ {x}], text[x])]

\* There is such a parse, made for one line more at a time.
LEMMA ParseExists ==
    ASSUME NEW n \in Nat, NEW text
    PROVE  \E h : IsParse(h, text, n)
<1> DEFINE S == 1..n
           Small(k) == {T \in SUBSET S : Cardinality(T) <= k}
           Upto(k) == \E h : DOMAIN h = SUBSET S /\ \A T \in Small(k) : Parsed(h, T, text)
           N == {k \in Nat : ~Upto(k)}
<1>1. IsFiniteSet(S) /\ \A T \in SUBSET S : IsFiniteSet(T) /\ Cardinality(T) \in Nat
  <2>1. IsFiniteSet(S)
    BY FS_Interval
  <2> HIDE DEF S
  <2> QED
    BY <2>1, FS_Subset, FS_CardinalityType
<1>2. \A T \in SUBSET S : T # {} => Max(T) \in T
  BY LastLine
<1>3. Upto(0)
  <2> DEFINE h == [T \in SUBSET S |-> ParserStart]
  <2>1. \A T \in Small(0) : T = {}
    BY <1>1, FS_EmptySet
  <2>2. DOMAIN h = SUBSET S /\ \A T \in Small(0) : Parsed(h, T, text)
    BY <2>1 DEF Parsed
  <2> QED
    BY <2>2
<1>4. ASSUME NEW k \in Nat, Upto(k) PROVE Upto(k + 1)
  <2>1. PICK h : DOMAIN h = SUBSET S /\ \A T \in Small(k) : Parsed(h, T, text)
    BY <1>4
  <2> DEFINE g == [T \in SUBSET S |-> IF Cardinality(T) <= k THEN h[T]
                                      ELSE ParseLine(h[T \ {Max(T)}], text[Max(T)])]
  <2>2. \A T \in SUBSET S : ~(Cardinality(T) <= k) => T # {}
    <3>1. Cardinality({}) <= k
      BY FS_EmptySet
    <3> QED
      BY <3>1
  <2>3. DOMAIN g = SUBSET S
    OBVIOUS
  <2>4. ASSUME NEW T \in Small(k + 1) PROVE Parsed(g, T, text)
    <3>1. T = {} \/ (T # {} /\ T \ {Max(T)} \in SUBSET S /\ Cardinality(T \ {Max(T)}) <= k)
      <4>1. T \in SUBSET S /\ IsFiniteSet(T) /\ Cardinality(T) \in Nat /\ Cardinality(T) <= k + 1
        BY <1>1
      <4>2. T # {} => Max(T) \in T
        BY <1>2, <4>1
      <4> HIDE DEF S, Small
      <4>3. T # {} => Cardinality(T \ {Max(T)}) = Cardinality(T) - 1
        BY <4>1, <4>2, FS_RemoveElement
      <4> QED
        BY <4>1, <4>2, <4>3
    <3>2. T = {} => Cardinality(T) <= k
      BY FS_EmptySet
    <3>3. T # {} => g[T \ {Max(T)}] = h[T \ {Max(T)}]
      BY <3>1
    <3>4. CASE Cardinality(T) <= k
      <4>1. g[T] = h[T] /\ Parsed(h, T, text)
        BY <2>1, <3>4
      <4> HIDE DEF g
      <4> QED
        BY <3>3, <4>1 DEF Parsed
    <3>5. CASE ~(Cardinality(T) <= k)
      <4>1. g[T] = ParseLine(h[T \ {Max(T)}], text[Max(T)]) /\ T # {}
        BY <3>2, <3>5
      <4> HIDE DEF g
      <4> QED
        BY <3>3, <4>1 DEF Parsed
    <3> QED
      BY <3>4, <3>5
  <2> HIDE DEF g
  <2> QED
    BY <2>3, <2>4
<1>5. Cardinality(S) \in Nat
  BY <1>1
<1> HIDE DEF Upto
<1>6. N = {}
  <2> SUFFICES ASSUME N # {} PROVE FALSE
    OBVIOUS
  <2> DEFINE m == Min(N)
  <2>1. m \in N /\ \A y \in N : m <= y
    BY MinNat
  <2> HIDE DEF m
  <2>2. m # 0 /\ m \in Nat
    BY <1>3, <2>1
  <2>3. m - 1 \in Nat /\ m - 1 \notin N
    BY <2>1, <2>2
  <2>4. Upto(m - 1 + 1)
    BY <1>4, <2>3
  <2> QED
    BY <2>1, <2>2, <2>4
<1>7. Upto(Cardinality(S))
  BY <1>5, <1>6
<1>8. PICK h : DOMAIN h = SUBSET S /\ \A T \in Small(Cardinality(S)) : Parsed(h, T, text)
  BY <1>7 DEF Upto
<1>9. \A T \in SUBSET S : T \in Small(Cardinality(S))
  BY <1>1, FS_Subset
<1> DEFINE k == [T \in SUBSET S |-> h[T]]
<1>10. \A T \in SUBSET S : k[T] = h[T] /\ k[T \ {Max(T)}] = h[T \ {Max(T)}]
  OBVIOUS
<1>11. \A T \in SUBSET S : k[T] = IF T = {} THEN ParserStart
                                  ELSE ParseLine(k[T \ {Max(T)}], text[Max(T)])
  <2>1. \A T \in SUBSET S : h[T] = IF T = {} THEN ParserStart
                                  ELSE ParseLine(h[T \ {Max(T)}], text[Max(T)])
    BY <1>8, <1>9 DEF Parsed
  <2> HIDE DEF k, S
  <2> QED
    BY <1>10, <2>1
<1>12. k = [T \in SUBSET S |-> k[T]]
  OBVIOUS
<1> HIDE DEF k
<1>13. k = [T \in SUBSET S |-> IF T = {} THEN ParserStart
                               ELSE ParseLine(k[T \ {Max(T)}], text[Max(T)])]
  BY <1>11, <1>12
<1>14. IsParse(k, text, n)
  BY <1>13 DEF IsParse
<1> QED
  BY <1>14

\* Load goes from line to line.
LEMMA ParsesInOrder ==
    ASSUME NEW n \in Nat, NEW text, DOMAIN text = 1..n, NEW states,
           states[0] = ParserStart,
           \A i \in 1..n : states[i] = ParseLine(states[i - 1], text[i])
    PROVE  FoldLeft(ParseLine, ParserStart, text) = states[n]
<1> DEFINE k == CHOOSE h : IsParse(h, text, n)
           S == 1..n
<1>1. IsParse(k, text, n)
  BY ParseExists
<1>2. FoldLeft(ParseLine, ParserStart, text) = k[S]
  BY DEF FoldLeft, MapThenFoldSet, IsParse
<1> HIDE DEF k
<1>3. \A T \in SUBSET S : k[T] = IF T = {} THEN ParserStart
                                 ELSE ParseLine(k[T \ {Max(T)}], text[Max(T)])
  <2>1. k = [T \in SUBSET S |-> IF T = {} THEN ParserStart
                                ELSE ParseLine(k[T \ {Max(T)}], text[Max(T)])]
    BY <1>1 DEF IsParse
  <2> QED
    BY <2>1
<1> DEFINE wrong == {i \in 0..n : k[1..i] # states[i]}
<1>4. wrong = {}
  <2> SUFFICES ASSUME wrong # {} PROVE FALSE
    OBVIOUS
  <2> DEFINE i == Min(wrong)
  <2>1. i \in wrong /\ \A j \in wrong : i <= j
    <3>1. wrong \in SUBSET Nat
      OBVIOUS
    <3> HIDE DEF wrong
    <3> QED
      BY <3>1, MinNat
  <2> HIDE DEF i
  <2>2. k[1..0] = ParserStart
    <3>1. 1..0 = {} /\ {} \in SUBSET S
      OBVIOUS
    <3> QED
      BY <1>3, <3>1
  <2>3. i # 0 /\ i \in 1..n /\ i - 1 \in 0..n /\ i - 1 \notin wrong
    BY <2>1, <2>2
  <2>4. k[1..i - 1] = states[i - 1]
    BY <2>3
  <2>5. 1..i \in SUBSET S /\ 1..i # {}
    <3>1. i \in 1..i /\ \A j \in 1..i : j \in 1..n
      BY <2>3
    <3> HIDE DEF wrong
    <3> QED
      BY <3>1
  <2>6. Max(1..i) \in 1..i /\ \A y \in 1..i : Max(1..i) >= y
    BY <2>3, <2>5, LastLine DEF S
  <2>7. Max(1..i) = i /\ (1..i) \ {i} = 1..i - 1
    BY <2>3, <2>6
  <2>8. k[1..i] = ParseLine(states[i - 1], text[i])
    BY <1>3, <2>4, <2>5, <2>7
  <2>9. states[i] = ParseLine(states[i - 1], text[i])
    BY <2>3
  <2> QED
    BY <2>1, <2>8, <2>9
<1>5. k[1..n] = states[n]
  BY <1>4
<1> QED
  BY <1>2, <1>5

\* The parser in a section of a file without an acceptance policy.
In(section, version, values) ==
    [ok |-> TRUE, section |-> section, list |-> "",
     cfg |-> [version |-> version, serverSeen |-> FALSE, required |-> <<>>,
              allowSkipped |-> <<>>, values |-> values]]

Blank == [k \in Keys |-> ""]

\* The same as sets of records, whose fields can be replaced.
Configs(version, values) ==
    [version : {version}, serverSeen : {FALSE}, required : {<<>>}, allowSkipped : {<<>>},
     values : {values}]

Parsers(section, config) == [ok : {TRUE}, section : {section}, list : {""}, cfg : {config}]

\* A parser is of that form exactly if it is one of these records.
LEMMA InRecords ==
    ASSUME NEW section, NEW version, NEW values, NEW c \in Configs(version, values), NEW s
    PROVE  /\ s = In(section, version, values) <=> s \in Parsers(section, c)
           /\ In(section, version, values).cfg = c
<1>1. c = [version |-> version, serverSeen |-> FALSE, required |-> <<>>,
           allowSkipped |-> <<>>, values |-> values]
  BY DEF Configs
<1>2. In(section, version, values) = [ok |-> TRUE, section |-> section, list |-> "", cfg |-> c]
  BY <1>1, Zenon DEF In
<1>3. ASSUME s \in Parsers(section, c)
      PROVE  s = [ok |-> TRUE, section |-> section, list |-> "", cfg |-> c]
  BY <1>3 DEF Parsers
<1>4. ASSUME s = [ok |-> TRUE, section |-> section, list |-> "", cfg |-> c]
      PROVE  s \in Parsers(section, c)
  BY <1>4 DEF Parsers
<1>5. In(section, version, values).cfg = c
  BY <1>1 DEF In
<1> QED
  BY <1>2, <1>3, <1>4, <1>5

\* Its configuration is one of these records.
LEMMA ConfigIn ==
    ASSUME NEW section, NEW version, NEW values
    PROVE  In(section, version, values).cfg \in Configs(version, values)
BY DEF In, Configs

\* What replacing a field makes of the parser and of its configuration.
LEMMA ParserUpdated ==
    ASSUME NEW section, NEW c, NEW s \in Parsers(section, c), NEW x
    PROVE  /\ [s EXCEPT !.section = x] \in Parsers(x, c)
           /\ [s EXCEPT !.list = ""] \in Parsers(section, c)
           /\ [s EXCEPT !.cfg = x] \in Parsers(section, x)
<1>1. [s EXCEPT !.section = x] \in Parsers(x, c)
  BY DEF Parsers
<1>2. [s EXCEPT !.list = ""] \in Parsers(section, c)
  BY DEF Parsers
<1>3. [s EXCEPT !.cfg = x] \in Parsers(section, x)
  BY DEF Parsers
<1> QED
  BY <1>1, <1>2, <1>3 DEF Parsers

\* A configuration stays one when a field of it is set.
LEMMA ConfigUpdated ==
    ASSUME NEW version, NEW values, NEW c \in Configs(version, values), NEW x
    PROVE  /\ [c EXCEPT !.serverSeen = FALSE] \in Configs(version, values)
           /\ [c EXCEPT !.version = x] \in Configs(x, values)
           /\ [c EXCEPT !.values = x] \in Configs(version, x)
<1>1. [c EXCEPT !.serverSeen = FALSE] \in Configs(version, values)
  BY DEF Configs
<1>2. [c EXCEPT !.version = x] \in Configs(x, values)
  BY DEF Configs
<1>3. [c EXCEPT !.values = x] \in Configs(version, x)
  BY DEF Configs
<1> QED
  BY <1>1, <1>2, <1>3 DEF Configs

\* The configuration of a parser.
LEMMA ParserConfig ==
    ASSUME NEW section, NEW c, NEW s \in Parsers(section, c)
    PROVE  s.cfg = c
BY DEF Parsers

\* The fields of a configuration.
LEMMA ConfigFields ==
    ASSUME NEW version, NEW values, NEW c \in Configs(version, values)
    PROVE  c.serverSeen = FALSE /\ c.values = values
BY DEF Configs

\* The parser enters a section.
LEMMA Entered ==
    ASSUME NEW name, name # "server", NEW section, NEW version, NEW values
    PROVE  EnterSection(In(section, version, values), name) = In(name, version, values)
<1> DEFINE s == In(section, version, values)
           c == s.cfg
           a == [s EXCEPT !.section = name]
           b == [a EXCEPT !.list = ""]
           seen == b.cfg.serverSeen \/ name = "server"
           d == [b.cfg EXCEPT !.serverSeen = seen]
           e == [b EXCEPT !.cfg = d]
<1>1. EnterSection(s, name) = e
  BY Zenon DEF EnterSection
<1>2. c \in Configs(version, values)
  BY ConfigIn
<1>3. s \in Parsers(section, c)
  BY <1>2, InRecords
<1> HIDE DEF s, c
<1>4. a \in Parsers(name, c)
  BY <1>3, ParserUpdated
<1> HIDE DEF a
<1>5. b \in Parsers(name, c)
  BY <1>4, ParserUpdated
<1> HIDE DEF b
<1>6. b.cfg = c /\ c.serverSeen = FALSE
  <2>1. b.cfg = c
    BY <1>5, ParserConfig
  <2>2. c.serverSeen = FALSE
    BY <1>2, ConfigFields
  <2> QED
    BY <2>1, <2>2
<1>7. seen = FALSE
  BY <1>6
<1> HIDE DEF seen
<1>8. d \in Configs(version, values)
  BY <1>2, <1>6, <1>7, ConfigUpdated DEF d
<1> HIDE DEF d
<1>9. e \in Parsers(name, d)
  BY <1>5, ParserUpdated
<1> HIDE DEF e
<1> QED
  BY <1>1, <1>8, <1>9, InRecords DEF s

\* The line of the version.
LEMMA VersionParses ==
    ParseLine(ParserStart, Line(0, "pair", "version", "2")) = In("", 2, Blank)
<1>1. Atoi("2") = Ok(2)
  <2>1. "2" \in DOMAIN Numerals /\ Numerals["2"] = 2
    BY Zenon DEF Numerals
  <2> QED
    BY <2>1 DEF Atoi
<1>2. Atoi("2").ok /\ Atoi("2").val = 2
  BY <1>1 DEF Ok
<1> DEFINE l == Line(0, "pair", "version", "2")
<1>3. l.indent = 0 /\ l.form = "pair" /\ l.key = "version" /\ l.value = "2"
  BY DEF Line
<1>4. ParserStart = In("", 0, Blank)
  BY DEF ParserStart, In, BlankConfig, Blank
<1> HIDE DEF l
<1>5. ParseLine(In("", 0, Blank), l) = SetVersion(In("", 0, Blank), l)
  BY <1>3 DEF ParseLine, In
<1>6. SetVersion(In("", 0, Blank), l)
         = [EnterSection(In("", 0, Blank), "") EXCEPT !.cfg.version = 2]
  BY <1>2, <1>3 DEF SetVersion
<1>7. EnterSection(In("", 0, Blank), "") = In("", 0, Blank)
  BY Entered
<1> DEFINE s == In("", 0, Blank)
           c == s.cfg
           d == [c EXCEPT !.version = 2]
           e == [s EXCEPT !.cfg = d]
<1>8. [In("", 0, Blank) EXCEPT !.cfg.version = 2] = e
  BY Zenon
<1>9. c \in Configs(0, Blank)
  BY ConfigIn
<1>10. s \in Parsers("", c)
  BY <1>9, InRecords
<1> HIDE DEF s, c
<1>11. d \in Configs(2, Blank)
  BY <1>9, ConfigUpdated
<1> HIDE DEF d
<1>12. e \in Parsers("", d)
  BY <1>10, ParserUpdated
<1> HIDE DEF e
<1>13. e = In("", 2, Blank)
  BY <1>11, <1>12, InRecords
<1> QED
  BY <1>4, <1>5, <1>6, <1>7, <1>8, <1>13 DEF l

\* A line that opens a section.
LEMMA HeaderParses ==
    ASSUME NEW name \in {"project", "specs"}, NEW section, section # "acceptance", NEW version, NEW values
    PROVE  ParseLine(In(section, version, values), Line(0, "header", name, ""))
              = In(name, version, values)
<1> DEFINE l == Line(0, "header", name, "")
           s == In(section, version, values)
<1>1. l.indent = 0 /\ l.form = "header" /\ l.key = name
  BY DEF Line
<1>2. s.ok
  BY DEF In
<1> HIDE DEF l
<1>3. ParseLine(s, l) = EnterSection(s, name)
  BY <1>1, <1>2 DEF ParseLine
<1>4. EnterSection(s, name) = In(name, version, values)
  BY Entered
<1> QED
  BY <1>3, <1>4 DEF l

\* A line that sets a key.
LEMMA PairParses ==
    ASSUME NEW section \in {"project", "specs"}, NEW version, NEW values, NEW key, NEW value,
           <<section, key>> \in Keys
    PROVE  ParseLine(In(section, version, values), Line(2, "pair", key, value))
              = In(section, version, [values EXCEPT ![<<section, key>>] = value])
<1> DEFINE l == Line(2, "pair", key, value)
           s == In(section, version, values)
<1>1. l.indent = 2 /\ l.form = "pair" /\ l.key = key /\ l.value = value
  BY DEF Line
<1>2. s.ok /\ s.section = section
  BY DEF In
<1> HIDE DEF l
<1>3. ParseLine(s, l) = SetKey(s, l)
  BY <1>1, <1>2 DEF ParseLine
<1>4. SetKey(s, l) = [s EXCEPT !.cfg.values[<<section, key>>] = value]
  <2>1. <<section, key>> # <<"server", "port">>
    OBVIOUS
  <2> QED
    BY <1>1, <1>2, <2>1 DEF SetKey
<1>5. [s EXCEPT !.cfg.values[<<section, key>>] = value]
         = In(section, version, [values EXCEPT ![<<section, key>>] = value])
  <2> DEFINE c == s.cfg
             w == [values EXCEPT ![<<section, key>>] = value]
             d == [c EXCEPT !.values = w]
             e == [s EXCEPT !.cfg = d]
  <2>1. c \in Configs(version, values)
    BY ConfigIn
  <2>2. s \in Parsers(section, c)
    BY <2>1, InRecords
  <2>3. c.values = values
    BY <2>1, ConfigFields
  <2>4. [s EXCEPT !.cfg.values[<<section, key>>] = value] = e
    BY <2>3, Zenon
  <2> HIDE DEF w, s, c
  <2>5. d \in Configs(version, w)
    BY <2>1, ConfigUpdated
  <2> HIDE DEF d
  <2>6. e \in Parsers(section, d)
    BY <2>2, ParserUpdated
  <2> HIDE DEF e
  <2>7. e = In(section, version, w)
    BY <2>5, <2>6, InRecords
  <2> QED
    BY <2>4, <2>7 DEF w
<1> QED
  BY <1>3, <1>4, <1>5 DEF l

\* The values that config.Init writes, one after the other.
Named == [Blank EXCEPT ![<<"project", "name">>] = ""]
Rooted == [Named EXCEPT ![<<"project", "root">>] = "."]
Adapted(adapter) == [Rooted EXCEPT ![<<"specs", "adapter">>] = adapter]
Placed(adapter, path) == [Adapted(adapter) EXCEPT ![<<"specs", "path">>] = path]
Patterned(adapter, path) == [Placed(adapter, path) EXCEPT ![<<"specs", "pattern">>] = "*.md"]

\* Load reads the lines of the initial file one after the other.
LEMMA InitialParses ==
    ASSUME NEW adapter, NEW path
    PROVE  FoldLeft(ParseLine, ParserStart, InitialConfig(adapter, path))
              = In("specs", 2, Patterned(adapter, path))
<1> DEFINE text == InitialConfig(adapter, path)
           states == [i \in 0..8 |->
               IF i = 0 THEN ParserStart
               ELSE IF i = 1 THEN In("", 2, Blank)
               ELSE IF i = 2 THEN In("project", 2, Blank)
               ELSE IF i = 3 THEN In("project", 2, Named)
               ELSE IF i = 4 THEN In("project", 2, Rooted)
               ELSE IF i = 5 THEN In("specs", 2, Rooted)
               ELSE IF i = 6 THEN In("specs", 2, Adapted(adapter))
               ELSE IF i = 7 THEN In("specs", 2, Placed(adapter, path))
               ELSE In("specs", 2, Patterned(adapter, path))]
<1>1. DOMAIN text = 1..8
  BY DEF InitialConfig
<1>2. /\ text[1] = Line(0, "pair", "version", "2")
      /\ text[2] = Line(0, "header", "project", "")
      /\ text[3] = Line(2, "pair", "name", "")
      /\ text[4] = Line(2, "pair", "root", ".")
      /\ text[5] = Line(0, "header", "specs", "")
      /\ text[6] = Line(2, "pair", "adapter", adapter)
      /\ text[7] = Line(2, "pair", "path", path)
      /\ text[8] = Line(2, "pair", "pattern", "*.md")
  BY DEF InitialConfig
<1> HIDE DEF text
<1>3. /\ <<"project", "name">> \in Keys /\ <<"project", "root">> \in Keys
      /\ <<"specs", "adapter">> \in Keys /\ <<"specs", "path">> \in Keys
      /\ <<"specs", "pattern">> \in Keys
  BY DEF Keys
<1>4. /\ states[0] = ParserStart
      /\ states[1] = In("", 2, Blank)
      /\ states[2] = In("project", 2, Blank)
      /\ states[3] = In("project", 2, Named)
      /\ states[4] = In("project", 2, Rooted)
      /\ states[5] = In("specs", 2, Rooted)
      /\ states[6] = In("specs", 2, Adapted(adapter))
      /\ states[7] = In("specs", 2, Placed(adapter, path))
      /\ states[8] = In("specs", 2, Patterned(adapter, path))
  OBVIOUS
<1> HIDE DEF states
<1>5. states[1] = ParseLine(states[0], text[1])
  BY <1>2, <1>4, VersionParses
<1>6. states[2] = ParseLine(states[1], text[2])
  <2>1. ParseLine(In("", 2, Blank), Line(0, "header", "project", "")) = In("project", 2, Blank)
    BY HeaderParses
  <2> QED
    BY <1>2, <1>4, <2>1
<1>7. states[3] = ParseLine(states[2], text[3])
  <2>1. ParseLine(In("project", 2, Blank), Line(2, "pair", "name", "")) = In("project", 2, Named)
    <3> DEFINE key == "name"
               value == ""
    <3>1. <<"project", key>> \in Keys
      BY <1>3
    <3> HIDE DEF key, value
    <3>2. ParseLine(In("project", 2, Blank), Line(2, "pair", key, value))
             = In("project", 2, [Blank EXCEPT ![<<"project", key>>] = value])
      BY <3>1, PairParses
    <3> QED
      BY <3>2, Zenon DEF Named, key, value
  <2> QED
    BY <1>2, <1>4, <2>1
<1>8. states[4] = ParseLine(states[3], text[4])
  <2>1. ParseLine(In("project", 2, Named), Line(2, "pair", "root", ".")) = In("project", 2, Rooted)
    BY <1>3, PairParses DEF Rooted
  <2> QED
    BY <1>2, <1>4, <2>1
<1>9. states[5] = ParseLine(states[4], text[5])
  <2>1. ParseLine(In("project", 2, Rooted), Line(0, "header", "specs", "")) = In("specs", 2, Rooted)
    BY HeaderParses
  <2> QED
    BY <1>2, <1>4, <2>1
<1>10. states[6] = ParseLine(states[5], text[6])
  <2>1. ParseLine(In("specs", 2, Rooted), Line(2, "pair", "adapter", adapter))
           = In("specs", 2, Adapted(adapter))
    BY <1>3, PairParses DEF Adapted
  <2> QED
    BY <1>2, <1>4, <2>1
<1>11. states[7] = ParseLine(states[6], text[7])
  <2>1. ParseLine(In("specs", 2, Adapted(adapter)), Line(2, "pair", "path", path))
           = In("specs", 2, Placed(adapter, path))
    BY <1>3, PairParses DEF Placed
  <2> QED
    BY <1>2, <1>4, <2>1
<1>12. states[8] = ParseLine(states[7], text[8])
  <2>1. ParseLine(In("specs", 2, Placed(adapter, path)), Line(2, "pair", "pattern", "*.md"))
           = In("specs", 2, Patterned(adapter, path))
    BY <1>3, PairParses DEF Patterned
  <2> QED
    BY <1>2, <1>4, <2>1
<1>13. \A i \in 1..8 : states[i] = ParseLine(states[i - 1], text[i])
  <2>1. \A i \in 1..8 : i = 1 \/ i = 2 \/ i = 3 \/ i = 4 \/ i = 5 \/ i = 6 \/ i = 7 \/ i = 8
    OBVIOUS
  <2>2. /\ 1 - 1 = 0 /\ 2 - 1 = 1 /\ 3 - 1 = 2 /\ 4 - 1 = 3
        /\ 5 - 1 = 4 /\ 6 - 1 = 5 /\ 7 - 1 = 6 /\ 8 - 1 = 7
    OBVIOUS
  <2> QED
    BY <1>5, <1>6, <1>7, <1>8, <1>9, <1>10, <1>11, <1>12, <2>1, <2>2
<1>14. FoldLeft(ParseLine, ParserStart, text) = states[8]
  <2> DEFINE eight == 8
  <2>1. eight \in Nat /\ DOMAIN text = 1..eight
    BY <1>1
  <2>2. states[0] = ParserStart
    BY <1>4
  <2>3. \A i \in 1..eight : states[i] = ParseLine(states[i - 1], text[i])
    BY <1>13
  <2> HIDE DEF eight
  <2>4. FoldLeft(ParseLine, ParserStart, text) = states[eight]
    BY <2>1, <2>2, <2>3, ParsesInOrder, Zenon
  <2> QED
    BY <2>4 DEF eight
<1> QED
  BY <1>4, <1>14 DEF text

\* What is written decides: it loads, with the adapter and the directory chosen.
LEMMA InitialLoads ==
    ASSUME NEW adapter \in {"specview", "github-spec-kit", "openspec"},
           NEW path \in {"specs", "openspec"}
    PROVE  LET loaded == LoadConfig(InitialConfig(adapter, path))
           IN  /\ loaded.ok
               /\ loaded.val.values[<<"specs", "adapter">>] = adapter
               /\ loaded.val.values[<<"specs", "path">>] = path
               /\ loaded.val.values[<<"project", "root">>] = "."
<1> DEFINE values == Patterned(adapter, path)
           s == In("specs", 2, values)
           cfg == s.cfg
           v == [values EXCEPT ![<<"project", "root">>] = "."]
           w == [v EXCEPT ![<<"specs", "adapter">>] = adapter]
<1>1. FoldLeft(ParseLine, ParserStart, InitialConfig(adapter, path)) = s
  BY InitialParses
<1>2. s.ok
  BY DEF In
<1>3. values = [k \in Keys |-> values[k]]
  BY DEF Patterned, Placed, Adapted, Rooted, Named, Blank
<1>4. /\ <<"project", "name">> \in Keys /\ <<"project", "root">> \in Keys
      /\ <<"specs", "adapter">> \in Keys /\ <<"specs", "path">> \in Keys
      /\ <<"specs", "pattern">> \in Keys /\ <<"project", "id">> \in Keys
  BY DEF Keys
<1>5. /\ values[<<"project", "root">>] = "." /\ values[<<"specs", "adapter">>] = adapter
      /\ values[<<"specs", "path">>] = path /\ values[<<"specs", "pattern">>] = "*.md"
      /\ values[<<"project", "id">>] = ""
  BY <1>4 DEF Patterned, Placed, Adapted, Rooted, Named, Blank
<1> HIDE DEF values
<1>6. /\ cfg.version = 2 /\ cfg.serverSeen = FALSE /\ cfg.required = <<>>
      /\ cfg.allowSkipped = <<>> /\ cfg.values = values
  BY DEF In
<1>7. cfg \in Configs(2, values)
  BY ConfigIn
<1> HIDE DEF s
<1>8. WithDefaults(cfg) = [[cfg EXCEPT !.values = v] EXCEPT !.values = w]
  BY <1>5, <1>6 DEF WithDefaults
<1> DEFINE a == [cfg EXCEPT !.values = v]
           b == [a EXCEPT !.values = w]
<1> HIDE DEF v, w, cfg
<1>9. a \in Configs(2, v)
  BY <1>7, ConfigUpdated
<1> HIDE DEF a
<1>10. b \in Configs(2, w)
  BY <1>9, ConfigUpdated
<1>11. WithDefaults(cfg) = b
  BY <1>8 DEF a
<1> HIDE DEF b
<1>12. v = values
  BY <1>3, <1>4, <1>5 DEF v
<1>13. w = values
  BY <1>3, <1>4, <1>5, <1>12 DEF w
<1>14. /\ b.version = 2 /\ b.serverSeen = FALSE /\ b.required = <<>>
       /\ b.allowSkipped = <<>> /\ b.values = values
  BY <1>10, <1>13 DEF Configs
<1>15. ValidConfig(b)
  <2>1. ValidServer(b)
    <3>1. b.version # 1
      BY <1>14
    <3> QED
      BY <1>14, <3>1 DEF ValidServer
  <2>2. ValidAcceptance(b)
    <3>1. ToSet(<<>>) = {} /\ Len(<<>>) = 0
      BY DEF ToSet
    <3>2. Distinct(<<>>)
      BY <3>1, FS_EmptySet DEF Distinct
    <3> QED
      BY <1>14, <3>1, <3>2 DEF ValidAcceptance
  <2>3. /\ b.values[<<"project", "id">>] \notin SpacedIDs
        /\ b.values[<<"specs", "path">>] \notin AbsolutePaths \union {""}
        /\ b.values[<<"specs", "pattern">>] \notin BadPatterns \union {""}
    BY <1>5, <1>14 DEF SpacedIDs, AbsolutePaths, BadPatterns
  <2> QED
    BY <2>1, <2>2, <2>3 DEF ValidConfig
<1>16. LoadConfig(InitialConfig(adapter, path)) = Ok(b)
  <2>1. LoadConfig(InitialConfig(adapter, path)) = Validated(WithDefaults(s.cfg))
    BY <1>1, <1>2, Zenon DEF LoadConfig
  <2>2. WithDefaults(s.cfg) = b
    BY <1>11, Zenon DEF cfg
  <2> QED
    BY <1>15, <2>1, <2>2 DEF Validated
<1> QED
  BY <1>5, <1>14, <1>16, ResultsAre

\* config.Init keeps the convention of a project, whatever directories it has.
LEMMA KeepsConvention ==
    ASSUME NEW root, NEW dir, dir.config = "absent", NEW adapter, NEW path,
           DetectInitConvention(dir.dirs) = Ok(<<adapter, path>>),
           NEW after, after.config = "present", after.lines = InitialConfig(adapter, path)
    PROVE  LET before == DetectConvention(dir)
           IN  /\ LoadConfig(after.lines).ok
               /\ DetectConvention(after).ok
               /\ Resolve(root, after, after).val.root = root
               /\ before.ok /\ before.val.supported => DetectConvention(after) = before
<1> DEFINE specKit == ".specify" \in dir.dirs
           openSpec == IsOpenSpecRoot(dir.dirs)
           loaded == LoadConfig(after.lines)
           cfg == loaded.val
           found == Detected(dir.dirs)
           kit == Convention("github-spec-kit", "specs")
           open == Convention("openspec", "openspec")
           before == DetectConvention(dir)
<1>1. \/ specKit /\ ~openSpec /\ adapter = "github-spec-kit" /\ path = "specs"
      \/ ~specKit /\ openSpec /\ adapter = "openspec" /\ path = "openspec"
      \/ ~specKit /\ ~openSpec /\ adapter = "specview" /\ path = "specs"
  <2>1. DetectInitConvention(dir.dirs).ok
    BY ResultsAre
  <2>2. ~(specKit /\ openSpec)
    BY <2>1 DEF DetectInitConvention, Error
  <2>3. Ok(<<adapter, path>>) = Ok(IF specKit THEN <<"github-spec-kit", "specs">>
                                   ELSE IF openSpec THEN <<"openspec", "openspec">>
                                   ELSE <<"specview", "specs">>)
    BY <2>2 DEF DetectInitConvention
  <2>4. <<adapter, path>> = IF specKit THEN <<"github-spec-kit", "specs">>
                            ELSE IF openSpec THEN <<"openspec", "openspec">>
                            ELSE <<"specview", "specs">>
    BY <2>3, Zenon, ResultsAre
  <2> HIDE DEF specKit, openSpec
  <2> QED
    BY <2>2, <2>4
<1>2. /\ loaded.ok /\ cfg.values[<<"specs", "adapter">>] = adapter
      /\ cfg.values[<<"specs", "path">>] = path /\ cfg.values[<<"project", "root">>] = "."
  BY <1>1, InitialLoads
<1> HIDE DEF specKit, openSpec
<1>3. DetectConvention(after) = Ok(Convention(adapter, path))
  BY <1>2 DEF DetectConvention, Then
<1>4. ResolveProjectRoot(cfg, root) = root
  BY <1>2 DEF ResolveProjectRoot, AbsolutePaths
<1>5. Resolve(root, after, after) = Ok(Configured(root, cfg))
  BY <1>2, <1>3, ResultsAre DEF Resolve, Then
<1>6. Configured(root, cfg).root = root
  BY <1>4 DEF Configured, Project
<1>7. ASSUME before.ok, before.val.supported PROVE DetectConvention(after) = before
  <2>1. before = CASE Cardinality(found) > 1 -> Error
                   [] found = {} -> Ok(NoConvention)
                   [] OTHER -> Ok(CHOOSE c \in found : TRUE)
    BY DEF DetectConvention
  <2>2. found # {}
    <3> SUFFICES ASSUME found = {} PROVE FALSE
      OBVIOUS
    <3>1. ~(Cardinality(found) > 1)
      BY FS_EmptySet
    <3> HIDE DEF found, before
    <3>2. before = Ok(NoConvention)
      BY <2>1, <3>1, Zenon
    <3>3. before.val = NoConvention
      BY <3>2, ResultsAre
    <3>4. NoConvention.supported = FALSE
      BY DEF NoConvention
    <3>5. before.val.supported
      BY <1>7
    <3> QED
      BY <3>3, <3>4, <3>5, Zenon
  <2>3. ~(Cardinality(found) > 1)
    <3> SUFFICES ASSUME Cardinality(found) > 1 PROVE FALSE
      OBVIOUS
    <3> HIDE DEF found, before
    <3>1. before = Error
      BY <2>1, <2>2, Zenon
    <3> QED
      BY <1>7, <3>1, ResultsAre
  <2> DEFINE c == CHOOSE c \in found : TRUE
  <2>4. before = Ok(c)
    <3> HIDE DEF found, before
    <3> QED
      BY <2>1, <2>2, <2>3, Zenon
  <2>5. c \in found
    BY <2>2
  <2> HIDE DEF c
  <2>6. c.supported
    <3> HIDE DEF before
    <3> QED
      BY <1>7, <2>4, ResultsAre
  <2>7. \/ c = kit /\ specKit
        \/ c = open /\ openSpec
    <3>1. /\ c \in {kit, open, Convention("kiro", ".kiro/specs"),
                    Convention("bmad", "_bmad-output")}
          /\ c.adapter = "github-spec-kit" => specKit
          /\ c.adapter # "github-spec-kit" /\ c.adapter = "openspec" => openSpec
      BY <2>5, Zenon DEF Detected, specKit, openSpec
    <3>2. \A a, p : /\ Convention(a, p).adapter = a
                    /\ Convention(a, p).supported <=> a \in SupportedAdapters
      BY DEF Convention
    <3>3. "kiro" \notin SupportedAdapters /\ "bmad" \notin SupportedAdapters
      BY DEF SupportedAdapters
    <3>4. c = kit \/ c = open
      BY <2>6, <3>1, <3>2, <3>3
    <3>5. kit.adapter = "github-spec-kit" /\ open.adapter = "openspec"
      BY <3>2
    <3> QED
      BY <3>1, <3>4, <3>5
  <2>8. c = Convention(adapter, path)
    BY <1>1, <2>7
  <2> HIDE DEF before
  <2> QED
    BY <1>3, <2>4, <2>8
<1> QED
  BY <1>2, <1>3, <1>5, <1>6, <1>7, ResultsAre

\* Whatever directory the machine has.
LEMMA InitConventionKept == WorldInv => InitKeepsConvention
<1> SUFFICES ASSUME WorldInv, Quiet, NEW root \in DOMAIN now.tree
             PROVE  LET dir     == now.tree[root]
                        before  == DetectConvention(dir)
                        chosen  == DetectInitConvention(dir.dirs)
                        after   == [dir EXCEPT !.config = "present",
                                       !.lines = InitialConfig(chosen.val[1], chosen.val[2])]
                    IN  dir.config = "absent" /\ chosen.ok =>
                        /\ LoadConfig(after.lines).ok
                        /\ DetectConvention(after).ok
                        /\ Resolve(root, after, after).val.root = root
                        /\ before.ok /\ before.val.supported => DetectConvention(after) = before
  BY Zenon DEF InitKeepsConvention
<1> DEFINE dir == now.tree[root]
           chosen == DetectInitConvention(dir.dirs)
           adapter == chosen.val[1]
           path == chosen.val[2]
           first == [dir EXCEPT !.config = "present"]
           after == [first EXCEPT !.lines = InitialConfig(adapter, path)]
<1>1. SUFFICES ASSUME dir.config = "absent", chosen.ok
               PROVE  LET before == DetectConvention(dir)
                      IN  /\ LoadConfig(after.lines).ok
                          /\ DetectConvention(after).ok
                          /\ Resolve(root, after, after).val.root = root
                          /\ before.ok /\ before.val.supported => DetectConvention(after) = before
  BY Zenon
<1>2. {"config", "lines"} \subseteq DOMAIN dir
  <2>1. DOMAIN dir = DOMAIN EmptyDir
    BY MachinesAssumption DEF WorldInv, World, PossibleDir
  <2> QED
    BY <2>1 DEF EmptyDir
<1>3. chosen = Ok(<<adapter, path>>)
  <2>1. \E p, q : chosen = Ok(<<p, q>>)
    BY <1>1 DEF DetectInitConvention, Error
  <2>2. PICK p, q : chosen = Ok(<<p, q>>)
    BY <2>1
  <2> HIDE DEF chosen
  <2>3. chosen.val = <<p, q>>
    BY <2>2, ResultsAre
  <2> QED
    BY <2>2, <2>3
<1> HIDE DEF dir, chosen, adapter, path
<1>4. first = [y \in DOMAIN dir |-> IF y = "config" THEN "present" ELSE dir[y]]
  BY Zenon
<1>5. after = [y \in DOMAIN first |-> IF y = "lines" THEN InitialConfig(adapter, path)
                                                     ELSE first[y]]
  BY Zenon
<1> HIDE DEF first, after
<1>6. after.config = "present" /\ after.lines = InitialConfig(adapter, path)
  BY <1>2, <1>4, <1>5
<1> QED
  BY <1>1, <1>3, <1>6, KeepsConvention DEF chosen

-----------------------------------------------------------------------------
(* Lists in an order, and what is counted and kept of them.                *)

\* t lists the elements of S, each of them once, in the order R.
ListsAll(t, S, R) ==
    /\ t \in Seq(S) /\ Len(t) \in Nat /\ Len(t) = Cardinality(S) /\ DOMAIN t = 1..Len(t)
    /\ ToSet(t) = S
    /\ \A i \in 1..Len(t) : t[i] \in S
    /\ \A i, j \in 1..Len(t) : i # j => t[i] # t[j]
    /\ \A i, j \in 1..Len(t) : <<t[i], t[j]>> \in R => i < j

\* Every element at the place that its rank in the order gives it.
LEMMA SortedLists ==
    ASSUME NEW S, IsFiniteSet(S), NEW R, Orders(R, S), NEW s,
           \A i \in 1..Cardinality(S) :
              s[i] \in S /\ Cardinality(Below(R, S, s[i])) = i - 1
    PROVE  ListsAll(SubSeq(s, 1, Cardinality(S)), S, R)
<1> DEFINE n == Cardinality(S)
           t == SubSeq(s, 1, n)
<1>2. /\ t \in Seq(S) /\ Len(t) = n /\ ToSet(t) = S
      /\ \A i \in 1..Len(t) : t[i] \in S
      /\ \A i, j \in 1..Len(t) : i # j => t[i] # t[j]
      /\ \A i, j \in 1..Len(t) : <<t[i], t[j]>> \in R => i < j
  BY InPlace
<1> HIDE DEF t
<1>3. Len(t) \in Nat /\ DOMAIN t = 1..Len(t)
  BY <1>2, LenProperties
<1> QED
  BY <1>2, <1>3 DEF ListsAll, t

\* The order of the paths, and of the positions of a list.
ByPath(S) == {p \in S \X S : p[1].path < p[2].path}
BySize(I) == {p \in I \X I : p[1] < p[2]}

\* NativeAdapter.Scan lists every file, in the order of the paths.
LEMMA ScanLists ==
    ASSUME NEW evidence, evidence.ok, PossibleFiles(evidence.val)
    PROVE  /\ Scan(evidence).ok
           /\ ListsAll(Scan(evidence).val, evidence.val, ByPath(evidence.val))
<1> DEFINE S == evidence.val
           R == ByPath(S)
           s == [i \in 1..Cardinality(S) |->
                    CHOOSE x \in S : Cardinality({y \in S : y.path < x.path}) = i - 1]
<1>1. Scan(evidence).ok
  BY DEF Scan, Then, Ok
<1>2. Scan(evidence).val = SubSeq(s, 1, Cardinality(S))
  BY DEF Scan, Then, Ok, Sorted
<1>4. /\ IsFiniteSet(S) /\ \A x \in S : x.path \in Nat
      /\ \A x, y \in S : x.path = y.path => x = y
  BY DEF PossibleFiles
<1> HIDE DEF S
<1>5. \A x, y \in S : <<x, y>> \in R <=> x.path < y.path
  BY DEF ByPath
<1> HIDE DEF R
<1>6. Orders(R, S)
  BY <1>4, <1>5 DEF Orders
<1>7. \A x \in S : {y \in S : y.path < x.path} = Below(R, S, x)
  BY <1>5 DEF Below
<1>8. ASSUME NEW i \in 1..Cardinality(S)
      PROVE  s[i] \in S /\ Cardinality(Below(R, S, s[i])) = i - 1
  <2>1. \E x \in S : Cardinality(Below(R, S, x)) = i - 1
    BY <1>4, <1>6, Ranked
  <2>2. \E x \in S : Cardinality({y \in S : y.path < x.path}) = i - 1
    BY <1>7, <2>1
  <2>3. s[i] \in S /\ Cardinality({y \in S : y.path < s[i].path}) = i - 1
    BY <2>2
  <2> QED
    BY <1>7, <2>3
<1> HIDE DEF s
<1>9. ListsAll(SubSeq(s, 1, Cardinality(S)), S, R)
  BY <1>4, <1>6, <1>8, SortedLists
<1> QED
  BY <1>1, <1>2, <1>9 DEF S, R

\* What is kept of a list: what is at some of its positions.
KeptAt(s, I) ==
    LET at == Sorted(I, LAMBDA i, j : i < j)
    IN  [k \in DOMAIN at |-> s[at[k]]]

\* Positions are listed in their order.
LEMMA NumbersList ==
    ASSUME NEW I, IsFiniteSet(I), \A x \in I : x \in Nat
    PROVE  ListsAll(Sorted(I, LAMBDA i, j : i < j), I, BySize(I))
<1> DEFINE R == BySize(I)
           s == [i \in 1..Cardinality(I) |->
                    CHOOSE x \in I : Cardinality({y \in I : y < x}) = i - 1]
<1>2. Sorted(I, LAMBDA i, j : i < j) = SubSeq(s, 1, Cardinality(I))
  BY DEF Sorted
<1>4. \A x, y \in I : <<x, y>> \in R <=> x < y
  BY DEF BySize
<1> HIDE DEF R
<1>6. Orders(R, I)
  BY <1>4 DEF Orders
<1>7. \A x \in I : {y \in I : y < x} = Below(R, I, x)
  BY <1>4 DEF Below
<1>8. ASSUME NEW i \in 1..Cardinality(I)
      PROVE  s[i] \in I /\ Cardinality(Below(R, I, s[i])) = i - 1
  <2>1. \E x \in I : Cardinality(Below(R, I, x)) = i - 1
    BY <1>6, Ranked
  <2>2. \E x \in I : Cardinality({y \in I : y < x}) = i - 1
    BY <1>7, <2>1
  <2>3. s[i] \in I /\ Cardinality({y \in I : y < s[i]}) = i - 1
    BY <2>2
  <2> QED
    BY <1>7, <2>3
<1> HIDE DEF s
<1>9. ListsAll(SubSeq(s, 1, Cardinality(I)), I, R)
  BY <1>6, <1>8, SortedLists
<1> QED
  BY <1>2, <1>9 DEF R

\* So are those of a list.
LEMMA PositionsList ==
    ASSUME NEW n \in Nat, NEW I \in SUBSET (1..n)
    PROVE  ListsAll(Sorted(I, LAMBDA i, j : i < j), I, BySize(I))
<1>1. IsFiniteSet(1..n)
  BY FS_Interval
<1>2. IsFiniteSet(I)
  BY <1>1, FS_Subset
<1>3. \A x \in I : x \in Nat
  OBVIOUS
<1> QED
  BY <1>2, <1>3, NumbersList, Zenon

\* What is kept of a list of all elements of a set lists those kept.
LEMMA KeptLists ==
    ASSUME NEW s, NEW S, NEW R, Orders(R, S), ListsAll(s, S, R),
           NEW T \in SUBSET S, NEW I, I = {i \in DOMAIN s : s[i] \in T}
    PROVE  ListsAll(KeptAt(s, I), T, R)
<1> DEFINE at == Sorted(I, LAMBDA i, j : i < j)
           t == [k \in DOMAIN at |-> s[at[k]]]
           n == Len(s)
<1>1. n \in Nat /\ I \in SUBSET (1..n) /\ DOMAIN s = 1..n
  BY DEF ListsAll
<1>2. ListsAll(at, I, BySize(I))
  BY <1>1, PositionsList
<1> HIDE DEF at
<1>3. /\ DOMAIN at = 1..Len(at) /\ Len(at) \in Nat /\ ToSet(at) = I /\ Len(at) = Cardinality(I)
      /\ \A k \in 1..Len(at) : at[k] \in I
      /\ \A j, k \in 1..Len(at) : j # k => at[j] # at[k]
      /\ \A j, k \in 1..Len(at) : at[j] < at[k] => j < k
  <2>1. \A j, k \in 1..Len(at) : at[j] \in I /\ at[k] \in I
    BY <1>2 DEF ListsAll
  <2>2. \A j, k \in 1..Len(at) : at[j] < at[k] => <<at[j], at[k]>> \in BySize(I)
    BY <2>1 DEF BySize
  <2> QED
    BY <1>2, <2>1, <2>2 DEF ListsAll
<1>4. DOMAIN t = 1..Len(at) /\ \A k \in 1..Len(at) : t[k] = s[at[k]] /\ t[k] \in T
  BY <1>3
<1>5. t \in Seq(T) /\ Len(t) = Len(at)
  <2>1. t = [k \in 1..Len(at) |-> t[k]]
    BY <1>4
  <2> HIDE DEF t
  <2>2. t \in [1..Len(at) -> T]
    BY <1>4, <2>1
  <2> QED
    BY <1>3, <2>2, LenProperties, SeqDef
<1>6. \A j, k \in 1..Len(at) : j # k => t[j] # t[k]
  <2> SUFFICES ASSUME NEW j \in 1..Len(at), NEW k \in 1..Len(at), j # k PROVE t[j] # t[k]
    OBVIOUS
  <2>1. at[j] # at[k] /\ at[j] \in 1..n /\ at[k] \in 1..n
    BY <1>1, <1>3
  <2>2. s[at[j]] # s[at[k]]
    BY <2>1 DEF ListsAll
  <2> QED
    BY <1>4, <2>2
<1>7. ToSet(t) = T
  <2>1. ASSUME NEW x \in T PROVE \E k \in 1..Len(at) : t[k] = x
    <3>1. PICK i \in 1..n : s[i] = x
      BY <1>1 DEF ListsAll, ToSet
    <3>2. i \in I
      BY <1>1, <3>1
    <3>3. PICK k \in 1..Len(at) : at[k] = i
      BY <1>3, <3>2 DEF ToSet
    <3> QED
      BY <1>4, <3>1, <3>3
  <2> HIDE DEF t
  <2> QED
    BY <1>4, <2>1 DEF ToSet
<1>8. ASSUME NEW j \in 1..Len(at), NEW k \in 1..Len(at), <<t[j], t[k]>> \in R PROVE j < k
  <2>1. at[j] \in 1..n /\ at[k] \in 1..n
    BY <1>1, <1>3
  <2>2. at[j] < at[k]
    BY <1>4, <1>8, <2>1 DEF ListsAll
  <2> QED
    BY <1>3, <2>2
<1>9. Cardinality(T) = Len(t)
  <2> DEFINE f == [k \in 1..Len(at) |-> t[k]]
  <2>1. f \in Bijection(1..Len(at), T)
    <3>1. f \in [1..Len(at) -> T]
      BY <1>4
    <3>2. \A j, k \in 1..Len(at) : f[j] = f[k] => j = k
      BY <1>6
    <3>3. \A x \in T : \E k \in 1..Len(at) : f[k] = x
      <4> HIDE DEF t
      <4> QED
        BY <1>4, <1>7 DEF ToSet
    <3> HIDE DEF f
    <3> QED
      BY <3>1, <3>2, <3>3 DEF Bijection, Injection, IsInjective, Surjection
  <2>2. IsFiniteSet(1..Len(at)) /\ Cardinality(1..Len(at)) = Len(at)
    BY <1>3, FS_Interval
  <2>3. ExistsBijection(1..Len(at), T)
    BY <2>1 DEF ExistsBijection
  <2> HIDE DEF t
  <2> QED
    BY <1>5, <2>2, <2>3, FS_Bijection
<1> HIDE DEF t
<1>10. ListsAll(t, T, R)
  BY <1>3, <1>4, <1>5, <1>6, <1>7, <1>8, <1>9 DEF ListsAll
<1> QED
  BY <1>10 DEF KeptAt, t, at

-----------------------------------------------------------------------------
(* What a repository adds to the counts of the Host.                       *)

\* What the overview of the evidence counts of the records.
LEMMA EvidenceCounts ==
    ASSUME NEW p, NEW tree
    PROVE  LET scan == Scan(DirAt(tree, p.root).evidence)
               all  == EvidenceOverview(p, tree, tree)
           IN  /\ all.ok <=> scan.ok
               /\ scan.ok => /\ all.val.total = Len(scan.val)
                             /\ all.val.failed = Cardinality({i \in DOMAIN scan.val :
                                    ~HasError(scan.val[i]) /\ scan.val[i].result \in {"failed", "error"}})
<1> DEFINE scan == Scan(DirAt(tree, p.root).evidence)
           all == EvidenceOverview(p, tree, tree)
           PathOf(item) ==
             LET found == Then(WorkItems(p, tree), LAMBDA items :
                              FirstWhere(items, LAMBDA a : a.item = item))
             IN  IF found.ok THEN found.val.path ELSE 0
           Sooner(a, b) ==
             \/ a.observed > b.observed
             \/ a.observed = b.observed /\ a.id < b.id
             \/ a.observed = b.observed /\ a.id = b.id /\ a.path < b.path
           sorted == SortSeq(scan.val, Sooner)
           shown(s) == [i \in DOMAIN s |->
                 [record |-> s[i], itemPath |-> PathOf(s[i].item)]]
           v(s) == [total  |-> Len(scan.val),
             passed |-> CountIf(scan.val, LAMBDA r : ~HasError(r) /\ r.result = "passed"),
             failed |-> CountIf(scan.val, LAMBDA r :
                            ~HasError(r) /\ r.result \in {"failed", "error"}),
             invalid |-> CountIf(scan.val, HasError),
             itemError |-> ~WorkItems(p, tree).ok,
             records |-> shown(s)]
<1>1. CASE ~scan.ok
  <2>1. all = Error
    BY <1>1 DEF EvidenceOverview, Then
  <2> QED
    BY <1>1, <2>1, ResultsAre
<1>2. CASE scan.ok
  <2>1. all = Ok(v(sorted))
    BY <1>2, Zenon DEF EvidenceOverview, Then
  <2>2. \A s : v(s).total = Len(scan.val) /\ v(s).failed = CountIf(scan.val, LAMBDA r :
                            ~HasError(r) /\ r.result \in {"failed", "error"})
    BY Zenon
  <2>3. CountIf(scan.val, LAMBDA r : ~HasError(r) /\ r.result \in {"failed", "error"})
          = Cardinality({i \in DOMAIN scan.val :
                      ~HasError(scan.val[i]) /\ scan.val[i].result \in {"failed", "error"}})
    BY Zenon DEF CountIf
  <2> HIDE DEF sorted, v
  <2> QED
    BY <1>2, <2>1, <2>2, <2>3, ResultsAre, Zenon
<1> QED
  BY <1>1, <1>2

\* What is counted of the work items.
LEMMA ItemCount ==
    ASSUME NEW items
    PROVE  LET n == IntentCounts(items)
               CountOf(status) == Cardinality({i \in DOMAIN items : ~items[i].bad /\ items[i].status = status})
           IN  /\ n.total = Len(items)
               /\ n.invalid = Cardinality({i \in DOMAIN items : items[i].bad})
               /\ n.new = CountOf("new") /\ n.inProgress = CountOf("in_progress") /\ n.done = CountOf("done")
BY DEF IntentCounts, CountIf

\* The parts of the summary of a repository, as they are in one tree.
IntentPart(tree, root) ==
    Then(ProjectAt(tree, root), LAMBDA p :
        Then(WorkItems(p, tree), LAMBDA items : Ok(IntentCounts(items))))
EvidencePart(tree, root) ==
    Then(ProjectAt(tree, root), LAMBDA p : EvidenceOverview(p, tree, tree))
AcceptancePart(tree, git, root) ==
    Then(ProjectAt(tree, root), LAMBDA p :
        Then(GitFor(p, git), LAMBDA g : AcceptanceOverview(p, g, tree, tree)))

\* What a part adds to a count of the Host.
Adds(part, name) == IF part.ok THEN part.val[name] ELSE 0

\* What is said by one function over another.
LEMMA OverAt ==
    ASSUME NEW f, NEW g
    PROVE  /\ DOMAIN Over(f, g) = DOMAIN f \union DOMAIN g
           /\ \A x \in DOMAIN f : Over(f, g)[x] = f[x]
           /\ \A x \in DOMAIN g \ DOMAIN f : Over(f, g)[x] = g[x]
BY DEF Over

\* The counts of the work items of a repository.
LEMMA ItemCountsAre ==
    ASSUME NEW known, NEW items
    PROVE  LET n == ItemCounts(known, items)
               intent == IntentCounts(items.val)
           IN  /\ items.ok => /\ DOMAIN n = {"workItems", "invalidItems", "new", "inProgress", "done"}
                              /\ n["workItems"] = intent["total"] /\ n["invalidItems"] = intent["invalid"]
                              /\ \A c \in {"new", "inProgress", "done"} : n[c] = intent[c]
               /\ ~items.ok => DOMAIN n = {"intentUnavailable"}
<1> DEFINE intent == IntentCounts(items.val)
<1>1. CASE items.ok
  <2>1. ItemCounts(known, items) =
            [workItems |-> intent.total, invalidItems |-> intent.invalid, new |-> intent.new,
             inProgress |-> intent.inProgress, done |-> intent.done]
    BY <1>1, Zenon DEF ItemCounts
  <2> HIDE DEF intent
  <2>2. /\ DOMAIN ItemCounts(known, items) = {"workItems", "invalidItems", "new", "inProgress", "done"}
        /\ ItemCounts(known, items)["workItems"] = intent["total"]
        /\ ItemCounts(known, items)["invalidItems"] = intent["invalid"]
        /\ \A c \in {"new", "inProgress", "done"} : ItemCounts(known, items)[c] = intent[c]
    BY <2>1
  <2> QED
    BY <1>1, <2>2 DEF intent
<1>2. CASE ~items.ok
  <2>1. ItemCounts(known, items) = [intentUnavailable |-> One(known)]
    BY <1>2, Zenon DEF ItemCounts
  <2>2. DOMAIN [intentUnavailable |-> One(known)] = {"intentUnavailable"}
    OBVIOUS
  <2> QED
    BY <1>2, <2>1, <2>2
<1> QED
  BY <1>1, <1>2

\* The counts of its records.
LEMMA RecordCountsAre ==
    ASSUME NEW managed, NEW overview
    PROVE  LET n == RecordCounts(managed, overview)
           IN  /\ overview.ok =>
                      /\ DOMAIN n = {"records", "passed", "failed", "invalidRecords", "affected"}
                      /\ n["records"] = overview.val["total"] /\ n["failed"] = overview.val["failed"]
               /\ ~overview.ok => DOMAIN n = {"evidenceUnavailable"}
<1> DEFINE e == overview.val
<1>1. CASE overview.ok
  <2>1. RecordCounts(managed, overview) =
          [records |-> e.total, passed |-> e.passed, failed |-> e.failed,
           invalidRecords |-> e.invalid, affected |-> One(e.failed + e.invalid > 0)]
    BY <1>1, Zenon DEF RecordCounts
  <2> QED
    BY <1>1, <2>1
<1>2. CASE ~overview.ok
  <2>1. RecordCounts(managed, overview) = [evidenceUnavailable |-> One(managed)]
    BY <1>2, Zenon DEF RecordCounts
  <2> QED
    BY <1>2, <2>1
<1> QED
  BY <1>1, <1>2

\* The counts of its entries.
LEMMA EntryCountsAre ==
    ASSUME NEW overview
    PROVE  LET n == EntryCounts(overview)
           IN  /\ overview.ok =>
                      /\ DOMAIN n = {"configured", "unconfiguredRepositories", "accepted", "waiting",
                                     "blocked", "unconfigured", "invalidEntries", "pending"}
                      /\ \A c \in {"accepted", "waiting", "blocked"} : n[c] = overview.val[c]
               /\ ~overview.ok => DOMAIN n = {"acceptanceUnavailable"}
<1> DEFINE a == overview.val
<1>1. CASE overview.ok
  <2>1. EntryCounts(overview) =
           [configured |-> One(a.configured), unconfiguredRepositories |-> One(~a.configured),
            accepted |-> a.accepted, waiting |-> a.waiting, blocked |-> a.blocked,
            unconfigured |-> a.unconfigured, invalidEntries |-> a.invalid,
            pending |-> One(a.pending)]
    BY <1>1, Zenon DEF EntryCounts
  <2> QED
    BY <1>1, <2>1
<1>2. CASE ~overview.ok
  <2>1. EntryCounts(overview) = [acceptanceUnavailable |-> 1]
    BY <1>2, Zenon DEF EntryCounts
  <2> QED
    BY <1>2, <2>1
<1> QED
  BY <1>1, <1>2

\* What a repository adds to the counts of the Host is what its summary says.
LEMMA CountsAre ==
    ASSUME NEW tree, NEW git, NEW r
    PROVE  LET n == HostCounts(tree, git, r)
               intent == IntentPart(tree, r.root)
               evidence == EvidencePart(tree, r.root)
               acceptance == AcceptancePart(tree, git, r.root)
           IN  /\ n["workItems"] = Adds(intent, "total")
               /\ n["invalidItems"] = Adds(intent, "invalid")
               /\ \A c \in {"new", "inProgress", "done"} : n[c] = Adds(intent, c)
               /\ n["records"] = Adds(evidence, "total")
               /\ n["failed"] = Adds(evidence, "failed")
               /\ \A c \in {"accepted", "waiting", "blocked"} : n[c] = Adds(acceptance, c)
<1> DEFINE n == HostCounts(tree, git, r)
           intent == IntentPart(tree, r.root)
           evidence == EvidencePart(tree, r.root)
           acceptance == AcceptancePart(tree, git, r.root)
           project == ProjectAt(tree, r.root)
           p == project.val
           known == p.convention.recognized
           managed == p.convention.recognized /\ p.convention.supported
           Items == {"workItems", "invalidItems", "new", "inProgress", "done"}
           Records == {"records", "failed"}
           Entries == {"accepted", "waiting", "blocked"}
           Here == Items \union Records \union Entries
<1>1. DOMAIN Nothing = CountNames /\ \A c \in CountNames : Nothing[c] = 0
  BY DEF Nothing
<1>2. Here \subseteq CountNames
  BY DEF CountNames
<1>3. CASE ~project.ok
  <2> DEFINE none == [intentUnavailable |-> 1, evidenceUnavailable |-> 1, acceptanceUnavailable |-> 1]
  <2>1. n = Over(none, Nothing)
    BY <1>3, Zenon DEF HostCounts
  <2>2. Here \intersect DOMAIN none = {}
    OBVIOUS
  <2> HIDE DEF none, Here, n
  <2>3. \A c \in Here : n[c] = 0
    <3>1. \A x \in DOMAIN Nothing \ DOMAIN none : Over(none, Nothing)[x] = Nothing[x]
      BY OverAt
    <3>2. \A c \in Here : c \in DOMAIN Nothing \ DOMAIN none /\ Nothing[c] = 0
      BY <1>1, <1>2, <2>2
    <3> QED
      BY <2>1, <3>1, <3>2
  <2>4. intent = Error /\ evidence = Error /\ acceptance = Error
    BY <1>3, Zenon DEF IntentPart, EvidencePart, AcceptancePart, Then
  <2>5. \A name : Adds(Error, name) = 0
    BY ResultsAre DEF Adds
  <2>6. \A c \in Items \union Records \union Entries : n[c] = 0
    BY <2>3 DEF Here
  <2> HIDE DEF intent, evidence, acceptance
  <2>7. /\ n["workItems"] = Adds(intent, "total")
        /\ n["invalidItems"] = Adds(intent, "invalid")
        /\ \A c \in {"new", "inProgress", "done"} : n[c] = Adds(intent, c)
        /\ n["records"] = Adds(evidence, "total")
        /\ n["failed"] = Adds(evidence, "failed")
        /\ \A c \in {"accepted", "waiting", "blocked"} : n[c] = Adds(acceptance, c)
    BY <2>4, <2>5, <2>6
  <2> QED
    BY <2>7 DEF n, intent, evidence, acceptance
<1>4. CASE project.ok
  <2> DEFINE items == WorkItems(p, tree)
             seen == EvidenceOverview(p, tree, tree)
             overview == Then(GitFor(p, git), LAMBDA g : AcceptanceOverview(p, g, tree, tree))
             m == [managed |-> One(managed)]
             I == ItemCounts(known, items)
             E == RecordCounts(managed, seen)
             A == IF known THEN EntryCounts(overview) ELSE Nothing
  <2>1. n = Over(Over(m, Over(I, Over(E, A))), Nothing)
    BY <1>4, Zenon DEF HostCounts
  <2>2. DOMAIN m = {"managed"}
    OBVIOUS
  <2>3. intent = IF items.ok THEN Ok(IntentCounts(items.val)) ELSE Error
    BY <1>4, Zenon DEF IntentPart, Then
  <2>4. evidence = seen /\ acceptance = overview
    BY <1>4, Zenon DEF EvidencePart, AcceptancePart, Then
  <2>5. ~known => ~overview.ok
    <3> SUFFICES ASSUME ~known PROVE ~overview.ok
      OBVIOUS
    <3>1. items = Error
      BY Zenon DEF WorkItems
    <3>2. \A g : AcceptanceOverview(p, g, tree, tree) = Error
      BY <3>1, ResultsAre, Zenon DEF AcceptanceOverview, Then
    <3>3. overview = Error
      BY <3>2, Zenon DEF Then
    <3> QED
      BY <3>3, ResultsAre
  <2>6. /\ items.ok => /\ DOMAIN I = Items
                       /\ I["workItems"] = IntentCounts(items.val)["total"]
                       /\ I["invalidItems"] = IntentCounts(items.val)["invalid"]
                       /\ \A c \in {"new", "inProgress", "done"} : I[c] = IntentCounts(items.val)[c]
        /\ ~items.ok => DOMAIN I = {"intentUnavailable"}
    BY ItemCountsAre
  <2>7. /\ seen.ok =>
              /\ DOMAIN E = {"records", "passed", "failed", "invalidRecords", "affected"}
              /\ E["records"] = seen.val["total"] /\ E["failed"] = seen.val["failed"]
        /\ ~seen.ok => DOMAIN E = {"evidenceUnavailable"}
    BY RecordCountsAre
  <2>8. /\ overview.ok =>
              /\ DOMAIN A = {"configured", "unconfiguredRepositories", "accepted", "waiting",
                             "blocked", "unconfigured", "invalidEntries", "pending"}
              /\ \A c \in {"accepted", "waiting", "blocked"} : A[c] = overview.val[c]
        /\ known /\ ~overview.ok => DOMAIN A = {"acceptanceUnavailable"}
        /\ ~known => A = Nothing
    BY <2>5, EntryCountsAre
  <2> HIDE DEF n, intent, evidence, acceptance, items, seen, overview, m, I, E, A, known, p
  <2> DEFINE EA == Over(E, A)
             IEA == Over(I, EA)
             mIEA == Over(m, IEA)
  <2>9. /\ DOMAIN EA = DOMAIN E \union DOMAIN A
        /\ \A x \in DOMAIN E : EA[x] = E[x]
        /\ \A x \in DOMAIN A \ DOMAIN E : EA[x] = A[x]
    BY OverAt
  <2> HIDE DEF EA
  <2>10. /\ DOMAIN IEA = DOMAIN I \union DOMAIN EA
         /\ \A x \in DOMAIN I : IEA[x] = I[x]
         /\ \A x \in DOMAIN EA \ DOMAIN I : IEA[x] = EA[x]
    BY OverAt
  <2> HIDE DEF IEA
  <2>11. /\ DOMAIN mIEA = DOMAIN m \union DOMAIN IEA
         /\ \A x \in DOMAIN IEA \ DOMAIN m : mIEA[x] = IEA[x]
    BY OverAt
  <2> HIDE DEF mIEA
  <2>12. /\ \A x \in DOMAIN mIEA : n[x] = mIEA[x]
         /\ \A x \in CountNames \ DOMAIN mIEA : n[x] = 0
    <3>1. n = Over(mIEA, Nothing)
      BY <2>1 DEF mIEA, IEA, EA
    <3>2. /\ \A x \in DOMAIN mIEA : Over(mIEA, Nothing)[x] = mIEA[x]
          /\ \A x \in DOMAIN Nothing \ DOMAIN mIEA : Over(mIEA, Nothing)[x] = Nothing[x]
      BY OverAt
    <3> QED
      BY <1>1, <3>1, <3>2
  <2>13. \A x \in Here :
            n[x] = CASE x \in DOMAIN I -> I[x]
                     [] x \notin DOMAIN I /\ x \in DOMAIN E -> E[x]
                     [] x \notin DOMAIN I /\ x \notin DOMAIN E /\ x \in DOMAIN A -> A[x]
                     [] OTHER -> 0
    BY <1>2, <2>2, <2>9, <2>10, <2>11, <2>12
  <2>14. \A x \in Items : n[x] = IF items.ok THEN I[x] ELSE 0
    <3>1. \A x \in Items : x \notin DOMAIN E /\ (x \in DOMAIN A => A[x] = 0)
      BY <1>1, <2>7, <2>8
    <3>2. \A x \in Items : x \in DOMAIN I <=> items.ok
      BY <2>6
    <3> QED
      BY <2>13, <3>1, <3>2
  <2>15. \A x \in Records : n[x] = IF seen.ok THEN E[x] ELSE 0
    <3>1. \A x \in Records : x \notin DOMAIN I /\ (x \in DOMAIN A => A[x] = 0)
      BY <1>1, <2>6, <2>8
    <3>2. \A x \in Records : x \in DOMAIN E <=> seen.ok
      BY <2>7
    <3> QED
      BY <2>13, <3>1, <3>2
  <2>16. \A x \in Entries : n[x] = IF overview.ok THEN A[x] ELSE 0
    <3>1. \A x \in Entries : x \notin DOMAIN I /\ x \notin DOMAIN E
      BY <2>6, <2>7
    <3>2. \A x \in Entries : /\ overview.ok => x \in DOMAIN A
                             /\ ~overview.ok /\ x \in DOMAIN A => A[x] = 0
      BY <1>1, <2>8
    <3> QED
      BY <2>13, <3>1, <3>2
  <2>17. /\ n["workItems"] = Adds(intent, "total")
         /\ n["invalidItems"] = Adds(intent, "invalid")
         /\ \A c \in {"new", "inProgress", "done"} : n[c] = Adds(intent, c)
    BY <2>3, <2>6, <2>14, ResultsAre DEF Adds
  <2>18. /\ n["records"] = Adds(evidence, "total")
         /\ n["failed"] = Adds(evidence, "failed")
    BY <2>4, <2>7, <2>15 DEF Adds
  <2>19. \A c \in {"accepted", "waiting", "blocked"} : n[c] = Adds(acceptance, c)
    BY <2>4, <2>8, <2>16 DEF Adds
  <2> QED
    BY <2>17, <2>18, <2>19 DEF n, intent, evidence, acceptance
<1> QED
  BY <1>3, <1>4

-----------------------------------------------------------------------------
(* Work items, and the overview of their acceptance.                       *)

\* What is read of the work items of a project, and those on its board.
FoundItems(p, tree) ==
    LET items == DirAt(tree, p.root).items
    IN  IF p.path \in DOMAIN items THEN items[p.path] ELSE Ok({})
Board(p, tree) == {a \in FoundItems(p, tree).val : IsBoardItem(a)}
ByItem(S) == {x \in S \X S : x[1].item < x[2].item \/ (x[1].item = x[2].item /\ x[1].path < x[2].path)}

\* WorkItems lists every artifact of the board, in the order of the IDs and paths.
LEMMA ItemsList ==
    ASSUME NEW p, NEW tree, WorkItems(p, tree).ok,
           FoundItems(p, tree).ok => PossibleArtifacts(FoundItems(p, tree).val)
    PROVE  /\ ListsAll(WorkItems(p, tree).val, Board(p, tree), ByItem(Board(p, tree)))
           /\ Orders(ByItem(Board(p, tree)), Board(p, tree)) /\ IsFiniteSet(Board(p, tree))
           /\ \A a \in Board(p, tree) : a.item \in Nat /\ a.path \in Nat
           /\ \A a, b \in Board(p, tree) : a.path = b.path => a = b
<1> DEFINE found == FoundItems(p, tree)
           S == Board(p, tree)
           R == ByItem(S)
           s == [i \in 1..Cardinality(S) |-> CHOOSE x \in S : Cardinality({y \in S :
                    y.item < x.item \/ (y.item = x.item /\ y.path < x.path)}) = i - 1]
<1>1. WorkItems(p, tree).val = SubSeq(s, 1, Cardinality(S)) /\ found.ok
  <2>1. p.convention.recognized /\ p.convention.supported /\ AdapterFits(p)
    BY ResultsAre, Zenon DEF WorkItems
  <2>2. found.ok
    BY <2>1, ResultsAre, Zenon DEF WorkItems, Then, FoundItems
  <2>3. WorkItems(p, tree) = Ok(SubSeq(s, 1, Cardinality(S)))
    BY <2>1, <2>2, Zenon DEF WorkItems, Then, Sorted, FoundItems, Board
  <2> HIDE DEF s, S, found
  <2> QED
    BY <2>2, <2>3, ResultsAre, Zenon
<1>2. S \subseteq found.val
  BY DEF Board
<1>3. /\ IsFiniteSet(found.val) /\ \A x \in found.val : x.item \in Nat /\ x.path \in Nat
      /\ \A x, y \in found.val : x.path = y.path => x = y
  BY <1>1 DEF PossibleArtifacts
<1>4. /\ IsFiniteSet(S) /\ \A x \in S : x.item \in Nat /\ x.path \in Nat
      /\ \A x, y \in S : x.path = y.path => x = y
  BY <1>2, <1>3, FS_Subset
<1> HIDE DEF S, found
<1>5. \A x, y \in S : <<x, y>> \in R <=> x.item < y.item \/ (x.item = y.item /\ x.path < y.path)
  BY DEF ByItem
<1> HIDE DEF R
<1>6. Orders(R, S)
  BY <1>4, <1>5 DEF Orders
<1>7. \A x \in S : {y \in S : y.item < x.item \/ (y.item = x.item /\ y.path < x.path)} = Below(R, S, x)
  BY <1>5 DEF Below
<1>8. ASSUME NEW i \in 1..Cardinality(S)
      PROVE  s[i] \in S /\ Cardinality(Below(R, S, s[i])) = i - 1
  <2>1. \E x \in S : Cardinality(Below(R, S, x)) = i - 1
    BY <1>4, <1>6, Ranked
  <2>2. \E x \in S : Cardinality({y \in S :
                         y.item < x.item \/ (y.item = x.item /\ y.path < x.path)}) = i - 1
    BY <1>7, <2>1
  <2>3. /\ s[i] \in S
        /\ Cardinality({y \in S : y.item < s[i].item
                             \/ (y.item = s[i].item /\ y.path < s[i].path)}) = i - 1
    BY <2>2
  <2> QED
    BY <1>7, <2>3
<1> HIDE DEF s
<1>9. ListsAll(SubSeq(s, 1, Cardinality(S)), S, R)
  BY <1>4, <1>6, <1>8, SortedLists
<1> QED
  BY <1>1, <1>4, <1>6, <1>9 DEF S, R

\* The positions of a list are finitely many.
LEMMA CountNat ==
    ASSUME NEW n \in Nat, NEW I \in SUBSET (1..n)
    PROVE  Cardinality(I) \in Nat /\ IsFiniteSet(I)
<1>1. IsFiniteSet(1..n)
  BY FS_Interval
<1> QED
  BY <1>1, FS_Subset, FS_CardinalityType

\* What a machine can have in the directories of a project.
LEMMA TreeNow ==
    ASSUME WorldInv
    PROVE  /\ \A p : FoundItems(p, now.tree).ok => PossibleArtifacts(FoundItems(p, now.tree).val)
           /\ \A root : LET evidence == DirAt(now.tree, root).evidence
                        IN  evidence.ok => PossibleFiles(evidence.val)
           /\ \A root : DirAt(now.tree, root).config \in {"absent", "present", "unreadable"}
<1> USE DEF WorldInv, World
<1>1. \A root \in DOMAIN now.tree : PossibleDir(now.tree[root])
  BY MachinesAssumption
<1>2. EmptyDir.items = <<>> /\ EmptyDir.evidence = Ok({}) /\ EmptyDir.config = "absent"
  BY DEF EmptyDir
<1>3. PossibleFiles({}) /\ PossibleArtifacts({})
  BY FS_EmptySet DEF PossibleFiles, PossibleArtifacts
<1>4. ASSUME NEW root
      PROVE  LET dir == DirAt(now.tree, root)
             IN  /\ dir.config \in {"absent", "present", "unreadable"}
                 /\ dir.evidence.ok => PossibleFiles(dir.evidence.val)
                 /\ \A path \in DOMAIN dir.items :
                       dir.items[path].ok => PossibleArtifacts(dir.items[path].val)
  <2>1. CASE root \in DOMAIN now.tree
    BY <1>1, <2>1 DEF DirAt, PossibleDir
  <2>2. CASE root \notin DOMAIN now.tree
    <3>1. DirAt(now.tree, root) = EmptyDir
      BY <2>2 DEF DirAt
    <3>2. EmptyDir.evidence.val = {} /\ DOMAIN EmptyDir.items = {}
      BY <1>2, ResultsAre
    <3> QED
      BY <1>2, <1>3, <3>1, <3>2
  <2> QED
    BY <2>1, <2>2
<1>5. Ok({}).val = {}
  BY ResultsAre
<1> QED
  BY <1>3, <1>4, <1>5 DEF FoundItems

ParsedItems(items) == Kept(items, LAMBDA a : ~a.bad)

\* What the overview of acceptance is made of: the revision, the records and
\* the entries of the work items that could be parsed.
OverviewAt(p, git) == IF p.policy # <<>> THEN ResolveGit(p.root, git) ELSE NoResolution
OverviewScan(p, tree) ==
    IF p.policy # <<>> THEN Scan(DirAt(tree, p.root).evidence) ELSE Ok(<<>>)
EntryResults(p, git, tree) ==
    [i \in DOMAIN ParsedItems(WorkItems(p, tree).val) |->
        AcceptanceEntry(p, ParsedItems(WorkItems(p, tree).val)[i], OverviewAt(p, git),
                        OverviewScan(p, tree).val)]

OverviewTotals(p, git, tree) ==
    AcceptanceTotals(p.policy # <<>>, OverviewAt(p, git),
        CountIf(WorkItems(p, tree).val, LAMBDA a : a.bad),
        [i \in DOMAIN EntryResults(p, git, tree) |-> EntryResults(p, git, tree)[i].val])

\* The overview is an error if one of its parts is.
LEMMA OverviewOk ==
    ASSUME NEW p, NEW git, NEW tree
    PROVE  LET results == EntryResults(p, git, tree)
               all == AcceptanceOverview(p, git, tree, tree)
           IN  all = IF /\ WorkItems(p, tree).ok /\ OverviewScan(p, tree).ok
                        /\ \A i \in DOMAIN results : results[i].ok
                     THEN Ok(OverviewTotals(p, git, tree)) ELSE Error
<1> DEFINE items == WorkItems(p, tree)
           scanned == OverviewScan(p, tree)
           results == EntryResults(p, git, tree)
           totals == OverviewTotals(p, git, tree)
           all == AcceptanceOverview(p, git, tree, tree)
<1>1. all = IF items.ok
            THEN IF scanned.ok
                 THEN IF \E i \in DOMAIN results : ~results[i].ok THEN Error ELSE Ok(totals)
                 ELSE Error
            ELSE Error
  BY Zenon DEF AcceptanceOverview, Then, ParsedItems, OverviewScan, OverviewAt, EntryResults,
     OverviewTotals
<1> HIDE DEF items, scanned, results, totals, all
<1>2. all = IF /\ items.ok /\ scanned.ok /\ \A i \in DOMAIN results : results[i].ok
            THEN Ok(totals) ELSE Error
  BY <1>1, Zenon
<1> QED
  BY <1>2, Zenon DEF items, scanned, results, totals, all

\* What an overview says, if there is one.
LEMMA OverviewIs ==
    ASSUME NEW p, NEW git, NEW tree
    PROVE  LET results == EntryResults(p, git, tree)
               all == AcceptanceOverview(p, git, tree, tree)
           IN  /\ all.ok <=> /\ WorkItems(p, tree).ok /\ OverviewScan(p, tree).ok
                             /\ \A i \in DOMAIN results : results[i].ok
               /\ all.ok => all.val = OverviewTotals(p, git, tree)
               /\ ~all.ok => all = Error
<1> DEFINE items == WorkItems(p, tree)
           scanned == OverviewScan(p, tree)
           results == EntryResults(p, git, tree)
           totals == OverviewTotals(p, git, tree)
           all == AcceptanceOverview(p, git, tree, tree)
<1>1. all = IF /\ items.ok /\ scanned.ok /\ \A i \in DOMAIN results : results[i].ok
            THEN Ok(totals) ELSE Error
  BY OverviewOk, Zenon
<1> HIDE DEF items, scanned, results, totals, all
<1>2. /\ all.ok <=> items.ok /\ scanned.ok /\ \A i \in DOMAIN results : results[i].ok
      /\ all.ok => all.val = totals
      /\ ~all.ok => all = Error
  BY <1>1, ResultsAre, Zenon
<1> QED
  BY <1>2, Zenon DEF items, scanned, results, totals, all

\* The work items that could be parsed are listed in the same order.
LEMMA ItemsParsed ==
    ASSUME NEW s, NEW S, NEW R, Orders(R, S), ListsAll(s, S, R)
    PROVE  ListsAll(ParsedItems(s), {a \in S : ~a.bad}, R)
<1> DEFINE T == {a \in S : ~a.bad}
           I == {i \in DOMAIN s : ~s[i].bad}
<1>1. I = {i \in DOMAIN s : s[i] \in T}
  BY DEF ListsAll
<1>2. ParsedItems(s) = KeptAt(s, I)
  BY Zenon DEF ParsedItems, Kept, KeptAt
<1>3. ListsAll(KeptAt(s, I), T, R)
  BY <1>1, KeptLists
<1> QED
  BY <1>2, <1>3

-----------------------------------------------------------------------------
(* The counts are numbers, and sums over them.                             *)

\* What a summary says of the work items are numbers.
LEMMA IntentNat ==
    ASSUME WorldInv, NEW root
    PROVE  \A c \in {"total", "invalid", "new", "inProgress", "done"} :
              Adds(IntentPart(now.tree, root), c) \in Nat
<1> DEFINE part == IntentPart(now.tree, root)
           p == ProjectAt(now.tree, root).val
           items == WorkItems(p, now.tree)
<1>1. CASE ~part.ok
  BY <1>1 DEF Adds
<1>2. CASE part.ok
  <2>1. items.ok /\ part = Ok(IntentCounts(items.val))
    BY <1>2, ResultsAre, Zenon DEF IntentPart, Then
  <2>2. ListsAll(items.val, Board(p, now.tree), ByItem(Board(p, now.tree)))
    BY <2>1, TreeNow, ItemsList
  <2> HIDE DEF items, part
  <2> DEFINE list == items.val
             At(status) == {i \in DOMAIN list : ~list[i].bad /\ list[i].status = status}
             bad == {i \in DOMAIN list : list[i].bad}
  <2>3. Len(list) \in Nat /\ DOMAIN list = 1..Len(list)
    BY <2>2 DEF ListsAll
  <2> HIDE DEF list
  <2>4. Cardinality(bad) \in Nat /\ \A status : Cardinality(At(status)) \in Nat
    <3>1. bad \in SUBSET (1..Len(list)) /\ \A status : At(status) \in SUBSET (1..Len(list))
      BY <2>3
    <3> HIDE DEF bad, At
    <3> QED
      BY <2>3, <3>1, CountNat
  <2>5. LET n == IntentCounts(list)
        IN  /\ n.total = Len(list) /\ n.invalid = Cardinality(bad)
            /\ n.new = Cardinality(At("new")) /\ n.inProgress = Cardinality(At("in_progress"))
            /\ n.done = Cardinality(At("done"))
    BY ItemCount, Zenon
  <2> HIDE DEF bad, At
  <2>6. \A c \in {"total", "invalid", "new", "inProgress", "done"} : IntentCounts(list)[c] \in Nat
    BY <2>3, <2>4, <2>5
  <2>7. part.val = IntentCounts(list)
    BY <2>1, ResultsAre DEF list
  <2> QED
    BY <1>2, <2>6, <2>7 DEF Adds, part
<1> QED
  BY <1>1, <1>2

\* So is what it says of the records.
LEMMA EvidenceNat ==
    ASSUME WorldInv, NEW root
    PROVE  \A c \in {"total", "failed"} : Adds(EvidencePart(now.tree, root), c) \in Nat
<1> DEFINE part == EvidencePart(now.tree, root)
           p == ProjectAt(now.tree, root).val
           evidence == DirAt(now.tree, p.root).evidence
           scan == Scan(evidence)
<1>1. CASE ~part.ok
  BY <1>1 DEF Adds
<1>2. CASE part.ok
  <2>1. part = EvidenceOverview(p, now.tree, now.tree)
    BY <1>2, ResultsAre, Zenon DEF EvidencePart, Then
  <2> DEFINE list == scan.val
             bad == {i \in DOMAIN list : ~HasError(list[i]) /\ list[i].result \in {"failed", "error"}}
  <2>2. scan.ok /\ part.val.total = Len(list) /\ part.val.failed = Cardinality(bad)
    <3> DEFINE all == EvidenceOverview(p, now.tree, now.tree)
    <3>1. /\ all.ok <=> scan.ok
          /\ scan.ok => all.val.total = Len(list) /\ all.val.failed = Cardinality(bad)
      BY EvidenceCounts, Zenon
    <3> HIDE DEF all, part, scan, bad
    <3>2. part = all
      BY <2>1 DEF all
    <3> QED
      BY <1>2, <3>1, <3>2 DEF part
  <2>3. evidence.ok
    BY <2>2, ResultsAre, Zenon DEF Scan, Then
  <2>4. ListsAll(list, evidence.val, ByPath(evidence.val))
    BY <2>3, TreeNow, ScanLists
  <2>5. Len(list) \in Nat /\ DOMAIN list = 1..Len(list)
    BY <2>4 DEF ListsAll
  <2> HIDE DEF scan
  <2>6. bad \in SUBSET (1..Len(list))
    BY <2>5
  <2> HIDE DEF bad, list
  <2>7. Cardinality(bad) \in Nat
    BY <2>5, <2>6, CountNat
  <2> HIDE DEF part
  <2>8. \A c \in {"total", "failed"} : part.val[c] \in Nat
    BY <2>2, <2>5, <2>7
  <2> QED
    BY <1>2, <2>8 DEF Adds, part
<1> QED
  BY <1>1, <1>2

\* So is what it says of acceptance.
LEMMA AcceptanceNat ==
    ASSUME WorldInv, NEW git, NEW root
    PROVE  \A c \in {"accepted", "waiting", "blocked"} :
              Adds(AcceptancePart(now.tree, git, root), c) \in Nat
<1> DEFINE part == AcceptancePart(now.tree, git, root)
           p == ProjectAt(now.tree, root).val
           g == GitFor(p, git).val
           items == WorkItems(p, now.tree)
           parsed == ParsedItems(items.val)
<1>1. CASE ~part.ok
  BY <1>1 DEF Adds
<1>2. CASE part.ok
  <2>1. part = AcceptanceOverview(p, g, now.tree, now.tree)
    BY <1>2, ResultsAre, Zenon DEF AcceptancePart, Then
  <2>2. PICK configured, at, invalid, entries :
            /\ items.ok /\ DOMAIN entries = DOMAIN parsed
            /\ part.val = AcceptanceTotals(configured, at, invalid, entries)
    <3> DEFINE all == AcceptanceOverview(p, g, now.tree, now.tree)
               results == EntryResults(p, g, now.tree)
               entries == [i \in DOMAIN results |-> results[i].val]
    <3>1. all.ok => items.ok /\ all.val = OverviewTotals(p, g, now.tree)
      BY OverviewIs
    <3>2. DOMAIN entries = DOMAIN parsed
      BY Zenon DEF EntryResults
    <3>3. part = all /\ part.ok
      BY <1>2, <2>1
    <3> HIDE DEF all, parsed, items, part
    <3>4. items.ok /\ part.val = OverviewTotals(p, g, now.tree)
      BY <3>1, <3>3
    <3> QED
      BY <3>2, <3>4, Zenon DEF OverviewTotals
  <2>3. /\ ListsAll(items.val, Board(p, now.tree), ByItem(Board(p, now.tree)))
        /\ Orders(ByItem(Board(p, now.tree)), Board(p, now.tree))
    BY <2>2, TreeNow, ItemsList
  <2> HIDE DEF items
  <2>4. ListsAll(parsed, {a \in Board(p, now.tree) : ~a.bad}, ByItem(Board(p, now.tree)))
    BY <2>3, ItemsParsed
  <2>5. Len(parsed) \in Nat /\ DOMAIN parsed = 1..Len(parsed)
    BY <2>4 DEF ListsAll
  <2> HIDE DEF parsed, part
  <2> DEFINE At(state) == {i \in DOMAIN entries : entries[i].state = state}
  <2>6. \A state : Cardinality(At(state)) \in Nat
    <3>1. \A state : At(state) \in SUBSET (1..Len(parsed))
      BY <2>2, <2>5
    <3> HIDE DEF At
    <3> QED
      BY <2>5, <3>1, CountNat
  <2>7. /\ part.val.accepted = Cardinality(At("accepted"))
        /\ part.val.waiting = Cardinality(At("waiting"))
        /\ part.val.blocked = Cardinality(At("blocked"))
    <3> DEFINE totals == AcceptanceTotals(configured, at, invalid, entries)
    <3>1. /\ totals.accepted = Cardinality(At("accepted"))
          /\ totals.waiting = Cardinality(At("waiting"))
          /\ totals.blocked = Cardinality(At("blocked"))
      BY DEF AcceptanceTotals, CountIf
    <3> HIDE DEF totals, At
    <3> QED
      BY <2>2, <3>1 DEF totals
  <2> HIDE DEF At
  <2>8. \A c \in {"accepted", "waiting", "blocked"} : part.val[c] \in Nat
    BY <2>6, <2>7
  <2> QED
    BY <1>2, <2>8 DEF Adds, part
<1> QED
  BY <1>1, <1>2

\* The sum over records with IDs of their own is that over what they are of;
\* those that are left out add nothing.
LEMMA SumOfRecords ==
    ASSUME NEW R, IsFiniteSet(R), \A r, s \in R : r.id = s.id => r = s,
           NEW f \in [R -> Nat], NEW A, NEW a \in [A -> Nat],
           \A x, y \in A : x.id = y.id => x = y,
           \A x \in A : \E r \in R : x.id = r.id /\ a[x] = f[r],
           \A r \in R : f[r] = 0 \/ \E x \in A : x.id = r.id
    PROVE  SumFunction(a) = SumFunction(f)
<1> DEFINE K == [x \in A |-> CHOOSE r \in R : x.id = r.id]
           I == {r \in R : \E x \in A : x.id = r.id}
           g == [r \in I |-> CHOOSE x \in A : x.id = r.id]
<1>1. \A x \in A : K[x] \in R /\ x.id = K[x].id /\ a[x] = f[K[x]]
  OBVIOUS
<1>2. IsFiniteSet(A)
  <2>1. g \in Surjection(I, A)
    <3>1. \A x \in A : K[x] \in I /\ g[K[x]] = x
      BY <1>1
    <3>2. g \in [I -> A]
      OBVIOUS
    <3> QED
      BY <3>1, <3>2 DEF Surjection
  <2>2. IsFiniteSet(I)
    BY FS_Subset
  <2> QED
    BY <2>1, <2>2, FS_Surjection
<1>3. K \in [A -> R]
  BY <1>1
<1> HIDE DEF K
<1>4. \A x, y \in A : K[x] = K[y] => x = y
  BY <1>1
<1>5. \A x \in A : a[x] = f[K[x]]
  BY <1>1
<1>6. \A r \in R : f[r] = 0 \/ \E x \in A : K[x] = r
  BY <1>1
<1> HIDE DEF I
<1> QED
  BY <1>2, <1>3, <1>4, <1>5, <1>6, SumByKey, SMTT(60)

-----------------------------------------------------------------------------
(* What is read while nothing changes.                                     *)

TreeReads == {"convention", "config", "items", "again", "records", "titles", "entries", "evidence"}

\* What is read while nothing changes.
LEMMA AllNowIs ==
    ASSUME NEW root
    PROVE  LET see == AllNow(root)
           IN  /\ see["catalog"] = now.catalog /\ see["live"] = now.live
               /\ see["git"] = InspectGit(now.git, root)
               /\ \A n \in TreeReads : see[n] = now.tree
<1>1. /\ Found(now, "catalog") = now.catalog /\ Found(now, "live") = now.live
      /\ \A n \in TreeReads : Found(now, n) = now.tree
  BY DEF Found, TreeReads
<1>2. \A n \in ReadNames : AllNow(root)[n] =
          IF n = "git" THEN InspectGit(now.git, root) ELSE Found(now, n)
  BY DEF AllNow
<1>3. TreeReads \union {"catalog", "live", "git"} \subseteq ReadNames
  BY DEF TreeReads, ReadNames
<1>4. "git" \notin TreeReads \union {"catalog", "live"}
  BY DEF TreeReads
<1> QED
  BY <1>1, <1>2, <1>3, <1>4

\* While nothing changes a repository of the catalog is found as it is there.
LEMMA FoundNow ==
    ASSUME WorldInv, now.catalog.ok, NEW r \in now.catalog.val
    PROVE  SeenRepository(AllNow(r.root), r.id) = Ok(r)
<1>1. \A s \in now.catalog.val : s.id = r.id => s = r
  BY MachineNow DEF PossibleCatalog
<1> DEFINE one == CHOOSE s \in now.catalog.val : s.id = r.id
<1>2. one = r
  BY <1>1
<1> HIDE DEF one
<1>3. FindRepository(now.catalog, now.live, r.id) = Ok(one)
  BY Zenon DEF FindRepository, Then, one
<1>4. AllNow(r.root)["catalog"] = now.catalog /\ AllNow(r.root)["live"] = now.live
  BY AllNowIs
<1> QED
  BY <1>2, <1>3, <1>4 DEF SeenRepository

\* So is its project.
LEMMA ProjectNow ==
    ASSUME NEW root
    PROVE  SeenProject(AllNow(root), root) = ProjectAt(now.tree, root)
<1>1. AllNow(root)["convention"] = now.tree /\ AllNow(root)["config"] = now.tree
  BY AllNowIs DEF TreeReads
<1> QED
  BY <1>1 DEF SeenProject, ProjectAt

\* What get_repository_control_plane answers while nothing changes.
LEMMA SummaryNow ==
    ASSUME WorldInv, now.catalog.ok, NEW r \in now.catalog.val
    PROVE  LET own == GetRepositoryControlPlane(AllNow(r.root), r.id).val
               git == InspectGit(now.git, r.root)
           IN  own = [execution  |-> RepositoryExecution(History({r})),
                      intent     |-> IntentPart(now.tree, r.root),
                      evidence   |-> EvidencePart(now.tree, r.root),
                      acceptance |-> AcceptancePart(now.tree, git, r.root)]
<1> DEFINE see == AllNow(r.root)
           git == InspectGit(now.git, r.root)
           project == ProjectAt(now.tree, r.root)
           own == [execution  |-> RepositoryExecution(History({r})),
                   intent     |-> IntentPart(now.tree, r.root),
                   evidence   |-> EvidencePart(now.tree, r.root),
                   acceptance |-> AcceptancePart(now.tree, git, r.root)]
<1>1. SeenRepository(see, r.id) = Ok(r)
  BY FoundNow
<1>2. SeenProject(see, r.root) = project
  BY ProjectNow
<1>3. /\ see["items"] = now.tree /\ see["records"] = now.tree /\ see["titles"] = now.tree
      /\ see["entries"] = now.tree /\ see["evidence"] = now.tree /\ see["git"] = git
  BY AllNowIs DEF TreeReads
<1> HIDE DEF see, project, git
<1>4. GetRepositoryControlPlane(see, r.id) = Ok(
        [execution  |-> RepositoryExecution(History({r})),
         intent     |-> Then(project, LAMBDA p :
                            Then(WorkItems(p, now.tree), LAMBDA items : Ok(IntentCounts(items)))),
         evidence   |-> Then(project, LAMBDA p : EvidenceOverview(p, now.tree, now.tree)),
         acceptance |-> Then(project, LAMBDA p :
                            Then(GitFor(p, git), LAMBDA g :
                                AcceptanceOverview(p, g, now.tree, now.tree)))])
  <2>1. Then(Ok(r), LAMBDA x : Ok(
           [execution  |-> RepositoryExecution(History({x})),
             intent     |-> Then(SeenProject(see, x.root), LAMBDA p :
                                Then(WorkItems(p, see["items"]), LAMBDA items :
                                    Ok(IntentCounts(items)))),
             evidence   |-> Then(SeenProject(see, x.root), LAMBDA p :
                                EvidenceOverview(p, see["records"], see["titles"])),
             acceptance |-> Then(SeenProject(see, x.root), LAMBDA p : 
                  Then(GitFor(p, see["git"]), LAMBDA g :
                AcceptanceOverview(p, g, see["entries"], see["evidence"])))]))
            = GetRepositoryControlPlane(see, r.id)
    BY <1>1, Zenon DEF GetRepositoryControlPlane
  <2> QED
    BY <1>2, <1>3, <2>1, ResultsAre, Zenon DEF Then
<1>5. GetRepositoryControlPlane(see, r.id) = Ok(own)
  BY <1>4, Zenon DEF project, IntentPart, EvidencePart, AcceptancePart
<1> HIDE DEF own
<1>6. GetRepositoryControlPlane(see, r.id).val = own
  BY <1>5, ResultsAre
<1> QED
  BY <1>6 DEF own, see, git

-----------------------------------------------------------------------------
(* The history of executions.                                              *)

\* The sessions of the repositories, as they are in a history, and their order.
EntryOf(r, s) == [repositoryID |-> r.id, root |-> r.root, session |-> s.id,
                  agent |-> s.agent, lastSeen |-> s.lastSeen, active |-> s.active]
EntriesOf(r) == {EntryOf(r, s) : s \in r.sessions}
HistorySet(S) == UNION {EntriesOf(r) : r \in S}
Later(x, y) ==
    \/ x.lastSeen > y.lastSeen
    \/ x.lastSeen = y.lastSeen /\ IDRank[x.repositoryID] < IDRank[y.repositoryID]
    \/ x.lastSeen = y.lastSeen /\ x.repositoryID = y.repositoryID /\ x.session < y.session
ByAge(S) == {p \in S \X S : Later(p[1], p[2])}

\* The sessions of a catalog can be ordered.
LEMMA EntriesAre ==
    ASSUME NEW C, PossibleCatalog(C), NEW S \in SUBSET C
    PROVE  /\ IsFiniteSet(HistorySet(S))
           /\ \A x \in HistorySet(S) : \E r \in S : x \in EntriesOf(r) /\ x.repositoryID = r.id
           /\ \A x \in HistorySet(S) : /\ x.lastSeen \in Nat /\ x.session \in Nat
                                       /\ x.repositoryID \in DOMAIN IDRank
           /\ \A x, y \in HistorySet(S) :
                 x.repositoryID = y.repositoryID /\ x.session = y.session => x = y
<1>1. /\ IsFiniteSet(C)
      /\ \A r \in C : r.id \in DOMAIN IDRank /\ PossiblePast(r.sessions)
      /\ \A r, s \in C : r.id = s.id => r = s
  BY DEF PossibleCatalog
<1>2. IsFiniteSet(S)
  BY <1>1, FS_Subset
<1>3. \A r \in S : IsFiniteSet(EntriesOf(r))
  <2> SUFFICES ASSUME NEW r \in S PROVE IsFiniteSet(EntriesOf(r))
    OBVIOUS
  <2> DEFINE g == [s \in r.sessions |-> EntryOf(r, s)]
  <2>1. g \in Surjection(r.sessions, EntriesOf(r))
    <3> HIDE DEF EntryOf
    <3> QED
      BY DEF Surjection, EntriesOf
  <2>2. IsFiniteSet(r.sessions)
    BY <1>1 DEF PossiblePast
  <2> QED
    BY <2>1, <2>2, FS_Surjection
<1>4. IsFiniteSet(HistorySet(S))
  <2> DEFINE g == [r \in S |-> EntriesOf(r)]
             F == {EntriesOf(r) : r \in S}
  <2>1. g \in Surjection(S, F)
    <3> HIDE DEF EntriesOf
    <3> QED
      BY DEF Surjection
  <2>2. IsFiniteSet(F)
    BY <1>2, <2>1, FS_Surjection
  <2>3. \A T \in F : IsFiniteSet(T)
    BY <1>3
  <2> HIDE DEF F
  <2>4. IsFiniteSet(UNION F)
    BY <2>2, <2>3, FS_UNION
  <2> QED
    BY <2>4 DEF F, HistorySet
<1>5. \A r, s : LET e == EntryOf(r, s)
                IN  /\ e.repositoryID = r.id /\ e.session = s.id /\ e.lastSeen = s.lastSeen
                    /\ e.active = s.active
  BY DEF EntryOf
<1> HIDE DEF EntryOf
<1>6. \A x \in HistorySet(S) : \E r \in S : \E s \in r.sessions : x = EntryOf(r, s)
  BY DEF HistorySet, EntriesOf
<1>7. \A r \in S : \A s \in r.sessions : EntryOf(r, s) \in EntriesOf(r)
  BY DEF EntriesOf
<1>8. \A r \in S : \A s \in r.sessions : s.id \in Nat /\ s.lastSeen \in Nat
  BY <1>1 DEF PossiblePast
<1>9. \A r \in S : \A s, t \in r.sessions : s.id = t.id => s = t
  BY <1>1 DEF PossiblePast
<1>10. ASSUME NEW x \in HistorySet(S), NEW y \in HistorySet(S),
              x.repositoryID = y.repositoryID, x.session = y.session
       PROVE  x = y
  <2>1. PICK r \in S : \E s \in r.sessions : x = EntryOf(r, s)
    BY <1>6
  <2>2. PICK r2 \in S : \E s2 \in r2.sessions : y = EntryOf(r2, s2)
    BY <1>6
  <2>3. r = r2
    BY <1>1, <1>5, <1>10, <2>1, <2>2
  <2>4. PICK s \in r.sessions : x = EntryOf(r, s)
    BY <2>1
  <2>5. PICK s2 \in r.sessions : y = EntryOf(r, s2)
    BY <2>2, <2>3
  <2>6. s = s2
    BY <1>5, <1>9, <1>10, <2>4, <2>5
  <2> QED
    BY <2>4, <2>5, <2>6
<1>11. \A x \in HistorySet(S) : /\ x.lastSeen \in Nat /\ x.session \in Nat
                                /\ x.repositoryID \in DOMAIN IDRank
  BY <1>1, <1>5, <1>6, <1>8
<1>12. \A x \in HistorySet(S) : \E r \in S : x \in EntriesOf(r) /\ x.repositoryID = r.id
  BY <1>5, <1>6, <1>7
<1> QED
  BY <1>4, <1>10, <1>11, <1>12

\* A history lists every session of its repositories, the latest first.
LEMMA HistoryLists ==
    ASSUME NEW C, PossibleCatalog(C), NEW S \in SUBSET C
    PROVE  ListsAll(History(S), HistorySet(S), ByAge(HistorySet(S)))
<1> DEFINE H == HistorySet(S)
           R == ByAge(H)
           s == [i \in 1..Cardinality(H) |->
                    CHOOSE x \in H : Cardinality({y \in H : Later(y, x)}) = i - 1]
<1>1. History(S) = SubSeq(s, 1, Cardinality(H))
  BY DEF History, Sorted, Later, HistorySet, EntriesOf, EntryOf
<1>2. /\ IsFiniteSet(H)
      /\ \A x \in H : x.lastSeen \in Nat /\ x.session \in Nat /\ x.repositoryID \in DOMAIN IDRank
      /\ \A x, y \in H : x.repositoryID = y.repositoryID /\ x.session = y.session => x = y
  BY EntriesAre
<1>3. /\ \A i \in DOMAIN IDRank : IDRank[i] \in Nat
      /\ \A i, j \in DOMAIN IDRank : IDRank[i] = IDRank[j] => i = j
  BY IDRankAssumption DEF IsInjective
<1> HIDE DEF H
<1>4. \A x, y \in H : <<x, y>> \in R <=> Later(x, y)
  BY DEF ByAge
<1> HIDE DEF R
<1>5. Orders(R, H)
  <2>1. \A x \in H : ~Later(x, x)
    BY <1>2, <1>3 DEF Later
  <2>2. \A x, y \in H : x # y => Later(x, y) \/ Later(y, x)
    <3> SUFFICES ASSUME NEW x \in H, NEW y \in H, x # y PROVE Later(x, y) \/ Later(y, x)
      OBVIOUS
    <3>1. x.lastSeen \in Nat /\ y.lastSeen \in Nat /\ x.session \in Nat /\ y.session \in Nat
      BY <1>2
    <3>2. IDRank[x.repositoryID] \in Nat /\ IDRank[y.repositoryID] \in Nat
      BY <1>2, <1>3
    <3>3. IDRank[x.repositoryID] = IDRank[y.repositoryID] => x.repositoryID = y.repositoryID
      BY <1>2, <1>3
    <3>4. x.repositoryID # y.repositoryID \/ x.session # y.session
      BY <1>2
    <3> QED
      BY <3>1, <3>2, <3>3, <3>4 DEF Later
  <2>3. \A x, y, z \in H : Later(x, y) /\ Later(y, z) => Later(x, z)
    <3> SUFFICES ASSUME NEW x \in H, NEW y \in H, NEW z \in H, Later(x, y), Later(y, z)
                 PROVE  Later(x, z)
      OBVIOUS
    <3>1. \A u \in {x, y, z} : u.lastSeen \in Nat /\ u.session \in Nat
                               /\ IDRank[u.repositoryID] \in Nat
      BY <1>2, <1>3
    <3> QED
      BY <3>1 DEF Later
  <2> QED
    BY <1>4, <2>1, <2>2, <2>3 DEF Orders
<1>6. \A x \in H : {y \in H : Later(y, x)} = Below(R, H, x)
  BY <1>4 DEF Below
<1>7. ASSUME NEW i \in 1..Cardinality(H)
      PROVE  s[i] \in H /\ Cardinality(Below(R, H, s[i])) = i - 1
  <2>1. \E x \in H : Cardinality(Below(R, H, x)) = i - 1
    BY <1>2, <1>5, Ranked
  <2>2. \E x \in H : Cardinality({y \in H : Later(y, x)}) = i - 1
    BY <1>6, <2>1
  <2>3. s[i] \in H /\ Cardinality({y \in H : Later(y, s[i])}) = i - 1
    BY <2>2
  <2> QED
    BY <1>6, <2>3
<1> HIDE DEF s
<1>8. ListsAll(SubSeq(s, 1, Cardinality(H)), H, R)
  BY <1>2, <1>5, <1>7, SortedLists
<1> QED
  BY <1>1, <1>8 DEF H, R

\* Of a list of all elements, as many are of some kind as there are.
LEMMA CountListed ==
    ASSUME NEW s, NEW S, IsFiniteSet(S), NEW R, ListsAll(s, S, R), NEW T \in SUBSET S
    PROVE  /\ Cardinality({i \in DOMAIN s : s[i] \in T}) = Cardinality(T)
           /\ Cardinality(T) \in Nat
<1> DEFINE I == {i \in DOMAIN s : s[i] \in T}
           f == [i \in I |-> s[i]]
<1>1. /\ Len(s) \in Nat /\ DOMAIN s = 1..Len(s)
      /\ \A i, j \in 1..Len(s) : i # j => s[i] # s[j]
      /\ \A x \in S : \E i \in 1..Len(s) : s[i] = x
  BY DEF ListsAll, ToSet
<1>2. IsFiniteSet(I)
  <2>1. I \in SUBSET (1..Len(s))
    BY <1>1
  <2> HIDE DEF I
  <2> QED
    BY <1>1, <2>1, CountNat
<1>3. f \in Bijection(I, T)
  <2>1. f \in [I -> T]
    OBVIOUS
  <2>2. \A i, j \in I : f[i] = f[j] => i = j
    BY <1>1
  <2>3. \A x \in T : \E i \in I : f[i] = x
    BY <1>1
  <2> HIDE DEF f, I
  <2> QED
    BY <2>1, <2>2, <2>3 DEF Bijection, Injection, IsInjective, Surjection
<1>4. ExistsBijection(I, T)
  BY <1>3 DEF ExistsBijection
<1>5. IsFiniteSet(T) /\ Cardinality(T) \in Nat
  BY FS_Subset, FS_CardinalityType
<1> HIDE DEF I
<1> QED
  BY <1>2, <1>4, <1>5, FS_Bijection DEF I

\* The sessions of some repositories that are active, and how many a history counts.
ActiveOf(S) == {e \in HistorySet(S) : e.active}

\* A history counts every active session.
LEMMA ActiveCounted ==
    ASSUME NEW C, PossibleCatalog(C), NEW S \in SUBSET C
    PROVE  /\ CountIf(History(S), LAMBDA e : e.active) = Cardinality(ActiveOf(S))
           /\ Cardinality(ActiveOf(S)) \in Nat
<1> DEFINE s == History(S)
           T == ActiveOf(S)
<1>1. ListsAll(s, HistorySet(S), ByAge(HistorySet(S))) /\ IsFiniteSet(HistorySet(S))
  BY HistoryLists, EntriesAre
<1>2. T \in SUBSET HistorySet(S)
  BY DEF ActiveOf
<1>3. {i \in DOMAIN s : s[i].active} = {i \in DOMAIN s : s[i] \in T}
  BY <1>1 DEF ActiveOf, ListsAll
<1>4. CountIf(s, LAMBDA e : e.active) = Cardinality({i \in DOMAIN s : s[i].active})
  BY DEF CountIf
<1> HIDE DEF s, T
<1>5. CountIf(s, LAMBDA e : e.active) = Cardinality(T) /\ Cardinality(T) \in Nat
  BY <1>1, <1>2, <1>3, <1>4, CountListed
<1> QED
  BY <1>5 DEF s, T

-----------------------------------------------------------------------------
(* The totals of the Host, and the sums over its repositories.             *)

\* The active sessions of a machine are those of its repositories.
LEMMA ActiveSum ==
    ASSUME NEW C, PossibleCatalog(C)
    PROVE  LET f == [r \in C |-> Cardinality(ActiveOf({r}))]
           IN  f \in [C -> Nat] /\ Cardinality(ActiveOf(C)) = SumFunction(f)
<1> DEFINE f == [r \in C |-> Cardinality(ActiveOf({r}))]
           E == [r \in C |-> ActiveOf({r})]
<1>1. IsFiniteSet(C)
  BY DEF PossibleCatalog
<1>2. \A r \in C : {r} \in SUBSET C
  OBVIOUS
<1>3. f \in [C -> Nat]
  BY <1>2, ActiveCounted
<1>4. \A r \in C : IsFiniteSet(E[r])
  <2> SUFFICES ASSUME NEW r \in C PROVE IsFiniteSet(E[r])
    OBVIOUS
  <2>1. IsFiniteSet(HistorySet({r}))
    BY <1>2, EntriesAre
  <2>2. ActiveOf({r}) \in SUBSET HistorySet({r})
    BY DEF ActiveOf
  <2>3. IsFiniteSet(ActiveOf({r}))
    BY <2>1, <2>2, FS_Subset
  <2> QED
    BY <2>3
<1>5. \A r \in C : \A e \in E[r] : e.repositoryID = r.id
  <2> SUFFICES ASSUME NEW r \in C, NEW e \in E[r] PROVE e.repositoryID = r.id
    OBVIOUS
  <2>1. e \in HistorySet({r})
    BY DEF ActiveOf
  <2> QED
    BY <1>2, <2>1, EntriesAre
<1>6. \A r, s \in C : r # s => E[r] \intersect E[s] = {}
  <2>1. \A r, s \in C : r.id = s.id => r = s
    BY DEF PossibleCatalog
  <2> HIDE DEF E
  <2> QED
    BY <1>5, <2>1
<1>7. UNION {E[r] : r \in C} = ActiveOf(C)
  BY DEF ActiveOf, HistorySet
<1>8. DOMAIN E = C
  OBVIOUS
<1> HIDE DEF E
<1>9. Cardinality(UNION {E[r] : r \in C}) = SumFunction([r \in C |-> Cardinality(E[r])])
  BY <1>1, <1>4, <1>6, <1>8, SumOfParts
<1>10. [r \in C |-> Cardinality(E[r])] = f
  BY DEF E
<1> QED
  BY <1>3, <1>7, <1>9, <1>10

\* What the Host counts of a repository, and its totals while nothing changes.
CountsOf(r) == HostCounts(now.tree, InspectGit(now.git, r.root), r)
CountedOf(R) == {[id |-> r.id, counts |-> CountsOf(r)] : r \in R}
HostTotal(R, c) == SumFunction([n \in CountedOf(R) |-> n.counts[c]])
Attended(n) == [id |-> n.id, signals |-> {<<c, n.counts[c]>> : c \in Raised(n)}]

HostNow(R) ==
    LET ids == {r.id : r \in R}
        root == [id \in ids |-> (CHOOSE r \in R : r.id = id).root]
    IN  GetHostControlPlane(now.catalog, [id \in ids |-> now.tree],
                            [id \in ids |-> InspectGit(now.git, root[id])]).val

\* What GetHostControlPlane says while nothing changes.
LEMMA CountedNow ==
    ASSUME WorldInv, now.catalog.ok, NEW R, R = now.catalog.val
    PROVE  /\ HostNow(R).activeSessions = CountIf(History(R), LAMBDA e : e.active)
           /\ \A c \in CountNames : HostNow(R).counts[c] = HostTotal(R, c)
           /\ HostNow(R).attention =
                 {Attended(n) : n \in {x \in CountedOf(R) : Raised(x) # {}}}
<1> DEFINE ids == {r.id : r \in R}
           root == [id \in ids |-> (CHOOSE r \in R : r.id = id).root]
           files == [id \in ids |-> now.tree]
           git == [id \in ids |-> InspectGit(now.git, root[id])]
           host == HostNow(R)
           gathered == {[id |-> r.id, counts |-> HostCounts(files[r.id], git[r.id], r)] : r \in R}
           summary == HostSummary(LatestEvidence(files, R), History(R), gathered)
<1>1. \A r \in R : root[r.id] = r.root
  <2>1. \A r, s \in R : r.id = s.id => r = s
    BY MachineNow DEF PossibleCatalog
  <2> QED
    BY <2>1
<1>2. \A r \in R : files[r.id] = now.tree /\ git[r.id] = InspectGit(now.git, r.root)
  BY <1>1
<1>3. host = GetHostControlPlane(now.catalog, files, git).val
  BY Zenon DEF HostNow
<1> HIDE DEF files, git
<1>4. gathered = CountedOf(R)
  BY <1>2 DEF CountedOf, CountsOf
<1>5. GetHostControlPlane(now.catalog, files, git) = Ok(summary)
  BY Zenon DEF GetHostControlPlane, Then
<1> HIDE DEF summary
<1>6. host = summary
  BY <1>3, <1>5, ResultsAre
<1> HIDE DEF host, gathered
<1>7. /\ summary.activeSessions = CountIf(History(R), LAMBDA e : e.active)
      /\ summary.counts = [c \in CountNames |-> SumFunction([n \in gathered |-> n.counts[c]])]
      /\ summary.attention =
            {[id |-> n.id, signals |-> {<<c, n.counts[c]>> : c \in Raised(n)}] :
                n \in {x \in gathered : Raised(x) # {}}}
  BY DEF HostSummary, summary
<1>8. \A c \in CountNames : host.counts[c] = HostTotal(R, c)
  BY <1>4, <1>6, <1>7 DEF HostTotal
<1>9. host.attention = {Attended(n) : n \in {x \in CountedOf(R) : Raised(x) # {}}}
  BY <1>4, <1>6, <1>7, Zenon DEF Attended
<1>10. host.activeSessions = CountIf(History(R), LAMBDA e : e.active)
  BY <1>6, <1>7
<1> QED
  BY <1>8, <1>9, <1>10 DEF host

\* What a repository says of itself.
SummaryOf(r) == GetRepositoryControlPlane(AllNow(r.root), r.id).val
SummariesOf(R) == {[id |-> r.id, own |-> SummaryOf(r)] : r \in R}
OwnTotal(R, part, name) ==
    SumFunction([s \in {x \in SummariesOf(R) : x.own[part].ok} |-> s.own[part].val[name]])

\* A total of the Host is the sum over what each repository says of itself.
LEMMA TotalIs ==
    ASSUME NEW R, IsFiniteSet(R), \A r, s \in R : r.id = s.id => r = s,
           NEW c, NEW part, NEW name,
           \A r \in R : /\ CountsOf(r)[c] = Adds(SummaryOf(r)[part], name)
                        /\ CountsOf(r)[c] \in Nat
    PROVE  HostTotal(R, c) = OwnTotal(R, part, name)
<1> DEFINE f == [r \in R |-> CountsOf(r)[c]]
           A == CountedOf(R)
           a == [n \in A |-> n.counts[c]]
           B == {x \in SummariesOf(R) : x.own[part].ok}
           b == [s \in B |-> s.own[part].val[name]]
<1> HIDE DEF SummaryOf, CountsOf
<1>1. f \in [R -> Nat] /\ \A r \in R : f[r] = CountsOf(r)[c]
  OBVIOUS
<1> HIDE DEF f
<1>2. SumFunction(a) = SumFunction(f)
  <2>1. \A r \in R : LET x == [id |-> r.id, counts |-> CountsOf(r)]
                     IN  x \in A /\ x.id = r.id /\ x.counts = CountsOf(r)
    BY DEF CountedOf
  <2>2. \A x \in A : \E r \in R : x = [id |-> r.id, counts |-> CountsOf(r)]
    BY DEF CountedOf
  <2> HIDE DEF A
  <2>3. \A x \in A : a[x] = x.counts[c]
    OBVIOUS
  <2>4. \A x \in A : \E r \in R : x.id = r.id /\ a[x] = f[r]
    BY <1>1, <2>1, <2>2, <2>3
  <2>5. \A x, y \in A : x.id = y.id => x = y
    <3> SUFFICES ASSUME NEW x \in A, NEW y \in A, x.id = y.id PROVE x = y
      OBVIOUS
    <3>1. PICK r \in R : x = [id |-> r.id, counts |-> CountsOf(r)]
      BY <2>2
    <3>2. PICK s \in R : y = [id |-> s.id, counts |-> CountsOf(s)]
      BY <2>2
    <3>3. r = s
      BY <3>1, <3>2
    <3> QED
      BY <3>1, <3>2, <3>3
  <2>6. \A r \in R : f[r] = 0 \/ \E x \in A : x.id = r.id
    BY <2>1
  <2>7. a \in [A -> Nat]
    BY <1>1, <2>4
  <2>8. f \in [R -> Nat]
    BY <1>1
  <2> HIDE DEF a
  <2> QED
    BY <2>4, <2>5, <2>6, <2>7, <2>8, SumOfRecords, SMTT(30)
<1>3. SumFunction(b) = SumFunction(f)
  <2>1. \A r \in R : LET x == [id |-> r.id, own |-> SummaryOf(r)]
                     IN  x \in SummariesOf(R) /\ x.id = r.id /\ x.own = SummaryOf(r)
    BY DEF SummariesOf
  <2>2. \A x \in B : x.own[part].ok /\ \E r \in R : x = [id |-> r.id, own |-> SummaryOf(r)]
    BY DEF SummariesOf
  <2>3. \A r \in R : f[r] = 0 \/ \E x \in B : x.id = r.id
    BY <1>1, <2>1 DEF Adds
  <2> HIDE DEF B
  <2>4. \A x \in B : b[x] = x.own[part].val[name]
    OBVIOUS
  <2>5. \A x \in B : \E r \in R : x.id = r.id /\ b[x] = f[r]
    <3> SUFFICES ASSUME NEW x \in B PROVE \E r \in R : x.id = r.id /\ b[x] = f[r]
      OBVIOUS
    <3>1. PICK r \in R : x = [id |-> r.id, own |-> SummaryOf(r)]
      BY <2>2
    <3>2. x.id = r.id /\ x.own = SummaryOf(r)
      BY <2>1, <3>1
    <3>3. f[r] = SummaryOf(r)[part].val[name]
      BY <1>1, <2>2, <3>2 DEF Adds
    <3> QED
      BY <2>4, <3>2, <3>3
  <2>6. \A x, y \in B : x.id = y.id => x = y
    <3> SUFFICES ASSUME NEW x \in B, NEW y \in B, x.id = y.id PROVE x = y
      OBVIOUS
    <3>1. PICK r \in R : x = [id |-> r.id, own |-> SummaryOf(r)]
      BY <2>2
    <3>2. PICK s \in R : y = [id |-> s.id, own |-> SummaryOf(s)]
      BY <2>2
    <3>3. r = s
      BY <3>1, <3>2
    <3> QED
      BY <3>1, <3>2, <3>3
  <2>7. b \in [B -> Nat]
    BY <1>1, <2>5
  <2> HIDE DEF b
  <2> QED
    BY <1>1, <2>3, <2>5, <2>6, <2>7, SumOfRecords
<1> QED
  BY <1>2, <1>3 DEF HostTotal, OwnTotal

\* Every part that a total of the Host is made of.
LEMMA AddsNow ==
    ASSUME WorldInv, now.catalog.ok, NEW r \in now.catalog.val
    PROVE  LET n == CountsOf(r)
               own == SummaryOf(r)
               Is(c, part, name) == n[c] = Adds(own[part], name) /\ n[c] \in Nat
           IN  /\ Is("workItems", "intent", "total") /\ Is("invalidItems", "intent", "invalid")
               /\ \A c \in {"new", "inProgress", "done"} : Is(c, "intent", c)
               /\ Is("records", "evidence", "total") /\ Is("failed", "evidence", "failed")
               /\ \A c \in {"accepted", "waiting", "blocked"} : Is(c, "acceptance", c)
               /\ own.execution.active = Cardinality(ActiveOf({r}))
<1> DEFINE git == InspectGit(now.git, r.root)
           intent == IntentPart(now.tree, r.root)
           evidence == EvidencePart(now.tree, r.root)
           acceptance == AcceptancePart(now.tree, git, r.root)
           n == CountsOf(r)
           own == SummaryOf(r)
<1>1. own = [execution |-> RepositoryExecution(History({r})), intent |-> intent,
             evidence |-> evidence, acceptance |-> acceptance]
  BY SummaryNow DEF SummaryOf
<1>2. /\ n["workItems"] = Adds(intent, "total")
      /\ n["invalidItems"] = Adds(intent, "invalid")
      /\ \A c \in {"new", "inProgress", "done"} : n[c] = Adds(intent, c)
      /\ n["records"] = Adds(evidence, "total")
      /\ n["failed"] = Adds(evidence, "failed")
      /\ \A c \in {"accepted", "waiting", "blocked"} : n[c] = Adds(acceptance, c)
  BY CountsAre DEF CountsOf
<1>3. /\ \A c \in {"total", "invalid", "new", "inProgress", "done"} : Adds(intent, c) \in Nat
      /\ \A c \in {"total", "failed"} : Adds(evidence, c) \in Nat
      /\ \A c \in {"accepted", "waiting", "blocked"} : Adds(acceptance, c) \in Nat
  BY IntentNat, EvidenceNat, AcceptanceNat
<1>4. RepositoryExecution(History({r})).active = Cardinality(ActiveOf({r}))
  <2>1. RepositoryExecution(History({r})).active = CountIf(History({r}), LAMBDA e : e.active)
    BY DEF RepositoryExecution
  <2>2. PossibleCatalog(now.catalog.val) /\ {r} \in SUBSET now.catalog.val
    BY MachineNow
  <2> QED
    BY <2>1, <2>2, ActiveCounted, Zenon
<1> HIDE DEF intent, evidence, acceptance, n, own
<1>5. /\ own["intent"] = intent /\ own["evidence"] = evidence /\ own["acceptance"] = acceptance
      /\ own.execution.active = Cardinality(ActiveOf({r}))
  BY <1>1, <1>4
<1>6. LET Is(c, part, name) == n[c] = Adds(own[part], name) /\ n[c] \in Nat
      IN  /\ Is("workItems", "intent", "total") /\ Is("invalidItems", "intent", "invalid")
          /\ \A c \in {"new", "inProgress", "done"} : Is(c, "intent", c)
          /\ Is("records", "evidence", "total") /\ Is("failed", "evidence", "failed")
          /\ \A c \in {"accepted", "waiting", "blocked"} : Is(c, "acceptance", c)
  BY <1>2, <1>3, <1>5
<1> QED
  BY <1>5, <1>6 DEF n, own

\* The active sessions, summed up by what each repository says.
LEMMA ActiveTotal ==
    ASSUME WorldInv, now.catalog.ok
    PROVE  CountIf(History(now.catalog.val), LAMBDA e : e.active)
              = SumFunction([s \in SummariesOf(now.catalog.val) |-> s.own.execution.active])
<1> DEFINE R == now.catalog.val
           f == [r \in R |-> Cardinality(ActiveOf({r}))]
           A == SummariesOf(R)
           a == [s \in A |-> s.own.execution.active]
<1>1. PossibleCatalog(R)
  BY MachineNow
<1>2. IsFiniteSet(R) /\ \A r, s \in R : r.id = s.id => r = s
  BY <1>1 DEF PossibleCatalog
<1>3. f \in [R -> Nat] /\ Cardinality(ActiveOf(R)) = SumFunction(f)
  BY <1>1, ActiveSum
<1>4. CountIf(History(R), LAMBDA e : e.active) = Cardinality(ActiveOf(R))
  <2>1. R \in SUBSET R
    OBVIOUS
  <2> HIDE DEF R
  <2> QED
    BY <1>1, <2>1, ActiveCounted
<1>5. \A r \in R : SummaryOf(r).execution.active = Cardinality(ActiveOf({r}))
  BY AddsNow
<1>6. SumFunction(a) = SumFunction(f)
  <2>1. \A r \in R : LET x == [id |-> r.id, own |-> SummaryOf(r)]
                     IN  x \in A /\ x.id = r.id /\ x.own = SummaryOf(r)
    BY DEF SummariesOf
  <2>2. \A x \in A : \E r \in R : x = [id |-> r.id, own |-> SummaryOf(r)]
    BY DEF SummariesOf
  <2>3. \A r \in R : f[r] = SummaryOf(r).execution.active
    BY <1>5
  <2> HIDE DEF A, R, f
  <2>4. \A x \in A : a[x] = x.own.execution.active
    OBVIOUS
  <2>5. \A x \in A : \E r \in R : x.id = r.id /\ a[x] = f[r]
    BY <2>1, <2>2, <2>3, <2>4
  <2>6. \A x, y \in A : x.id = y.id => x = y
    <3> SUFFICES ASSUME NEW x \in A, NEW y \in A, x.id = y.id PROVE x = y
      OBVIOUS
    <3>1. PICK r \in R : x = [id |-> r.id, own |-> SummaryOf(r)]
      BY <2>2
    <3>2. PICK s \in R : y = [id |-> s.id, own |-> SummaryOf(s)]
      BY <2>2
    <3>3. r = s
      BY <1>2, <3>1, <3>2
    <3> QED
      BY <3>1, <3>2, <3>3
  <2>7. \A r \in R : f[r] = 0 \/ \E x \in A : x.id = r.id
    BY <2>1
  <2>8. a \in [A -> Nat]
    BY <1>3, <2>5
  <2> HIDE DEF a
  <2> QED
    BY <1>2, <1>3, <2>5, <2>6, <2>7, <2>8, SumOfRecords
<1> QED
  BY <1>3, <1>4, <1>6

\* The Host says of all repositories what they say of themselves.
LEMMA TotalsAgree == WorldInv => HostTotals
<1> SUFFICES ASSUME WorldInv, Quiet, now.catalog.ok
             PROVE  TotalsOf(HostNow(Recorded), OwnSummaries)
  BY Zenon DEF HostTotals, HostNow
<1>1. Recorded = now.catalog.val
  BY DEF Recorded
<1> DEFINE C == now.catalog.val
           host == HostNow(C)
<1>2. OwnSummaries = SummariesOf(C)
  BY <1>1, Zenon DEF OwnSummaries, SummariesOf, SummaryOf
<1>3. /\ host.activeSessions = CountIf(History(C), LAMBDA e : e.active)
      /\ \A c \in CountNames : host.counts[c] = HostTotal(C, c)
      /\ host.attention = {Attended(n) : n \in {x \in CountedOf(C) : Raised(x) # {}}}
  <2> HIDE DEF host
  <2>1. \A R : R = C => /\ HostNow(R).activeSessions = CountIf(History(R), LAMBDA e : e.active)
                        /\ \A c \in CountNames : HostNow(R).counts[c] = HostTotal(R, c)
                        /\ HostNow(R).attention =
                              {Attended(n) : n \in {x \in CountedOf(R) : Raised(x) # {}}}
    BY CountedNow
  <2> QED
    BY <2>1 DEF host
<1>4. IsFiniteSet(C) /\ \A r, s \in C : r.id = s.id => r = s
  BY MachineNow DEF PossibleCatalog
<1>5. ASSUME NEW c \in CountNames, NEW part, NEW name,
             \A r \in C : CountsOf(r)[c] = Adds(SummaryOf(r)[part], name) /\ CountsOf(r)[c] \in Nat
      PROVE  host.counts[c] = OwnTotal(C, part, name)
  <2>1. HostTotal(C, c) = OwnTotal(C, part, name)
    BY <1>4, <1>5, TotalIs
  <2> QED
    BY <1>3, <2>1
<1>6. {"workItems", "invalidItems", "records", "new", "inProgress", "done", "failed", "blocked",
       "waiting", "accepted"} \subseteq CountNames
  BY DEF CountNames
<1> DEFINE Is(r, c, part, name) == CountsOf(r)[c] = Adds(SummaryOf(r)[part], name) /\ CountsOf(r)[c] \in Nat
<1>7. \A r \in C :
         /\ Is(r, "workItems", "intent", "total") /\ Is(r, "invalidItems", "intent", "invalid")
         /\ \A c \in {"new", "inProgress", "done"} : Is(r, c, "intent", c)
         /\ Is(r, "records", "evidence", "total") /\ Is(r, "failed", "evidence", "failed")
         /\ \A c \in {"accepted", "waiting", "blocked"} : Is(r, c, "acceptance", c)
  BY AddsNow
<1>8. host.activeSessions = SumFunction([s \in SummariesOf(C) |-> s.own.execution.active])
  BY <1>3, ActiveTotal
<1> HIDE DEF host, C
<1>9. /\ host.counts["workItems"] = OwnTotal(C, "intent", "total")
      /\ host.counts["invalidItems"] = OwnTotal(C, "intent", "invalid")
      /\ host.counts["records"] = OwnTotal(C, "evidence", "total")
      /\ \A c \in {"new", "inProgress", "done"} : host.counts[c] = OwnTotal(C, "intent", c)
      /\ host.counts["failed"] = OwnTotal(C, "evidence", "failed")
      /\ \A c \in {"accepted", "waiting", "blocked"} : host.counts[c] = OwnTotal(C, "acceptance", c)
  BY <1>5, <1>6, <1>7
<1>10. ASSUME NEW s \in SummariesOf(C), s.own.acceptance.ok,
              NEW c \in {"blocked", "waiting"}, s.own.acceptance.val[c] > 0
       PROVE  s.id \in {a.id : a \in host.attention}
  <2>1. PICK r \in C : s = [id |-> r.id, own |-> SummaryOf(r)]
    BY DEF SummariesOf
  <2>2. s.id = r.id /\ s.own = SummaryOf(r)
    BY <2>1
  <2>3. CountsOf(r)[c] > 0
    <3>1. CountsOf(r)[c] = Adds(SummaryOf(r)["acceptance"], c)
      BY <1>7
    <3> QED
      BY <1>10, <2>2, <3>1 DEF Adds
  <2> DEFINE n == [id |-> r.id, counts |-> CountsOf(r)]
  <2>4. n \in CountedOf(C) /\ n.id = r.id /\ n.counts = CountsOf(r)
    BY DEF CountedOf
  <2> HIDE DEF n
  <2>5. c \in Raised(n)
    BY <2>3, <2>4 DEF Raised, Signals
  <2>6. Attended(n) \in host.attention
    BY <1>3, <2>4, <2>5
  <2>7. Attended(n).id = n.id
    BY DEF Attended
  <2> QED
    BY <2>2, <2>4, <2>6, <2>7
<1>11. TotalsOf(host, SummariesOf(C))
  <2>1. \A s \in {x \in SummariesOf(C) : x.own.acceptance.ok} :
           (\E c \in {"blocked", "waiting"} : s.own.acceptance.val[c] > 0)
           => s.id \in {a.id : a \in host.attention}
    BY <1>10
  <2>2. \A c \in {"blocked", "waiting"} \union {"accepted"} :
           host.counts[c] = OwnTotal(C, "acceptance", c)
    BY <1>9
  <2> QED
    BY <1>8, <1>9, <2>1, <2>2, Zenon DEF TotalsOf, OwnTotal
<1> QED
  BY <1>1, <1>2, <1>11 DEF C, host

-----------------------------------------------------------------------------
(* Which record decides a check.                                           *)

\* Which of two records comes first where the newest one is looked for.
First(a, b) == Newer(a, b) \/ (~Newer(b, a) /\ a.path < b.path)
ByNews(S) == {p \in S \X S : First(p[1], p[2])}
Top(x, U) == x \in U /\ \A y \in U : y # x => First(x, y)

\* That is an order of records of different paths.
LEMMA FirstOrders ==
    ASSUME NEW S, \A x \in S : x.observed \in Nat /\ x.id \in Nat /\ x.path \in Nat,
           \A x, y \in S : x.path = y.path => x = y
    PROVE  Orders(ByNews(S), S) /\ \A x, y \in S : <<x, y>> \in ByNews(S) <=> First(x, y)
<1>1. \A x, y \in S : <<x, y>> \in ByNews(S) <=> First(x, y)
  BY DEF ByNews
<1>2. \A x \in S : ~First(x, x)
  BY DEF First, Newer
<1>3. \A x, y \in S : x # y => First(x, y) \/ First(y, x)
  BY DEF First, Newer
<1>4. \A x, y, z \in S : First(x, y) /\ First(y, z) => First(x, z)
  BY DEF First, Newer
<1> QED
  BY <1>1, <1>2, <1>3, <1>4 DEF Orders

\* The record that decides is the first one in that order.
LEMMA NewestIsTop ==
    ASSUME NEW S, IsFiniteSet(S), \A x \in S : x.observed \in Nat /\ x.id \in Nat /\ x.path \in Nat,
           \A x, y \in S : x.path = y.path => x = y,
           NEW R, NEW s, ListsAll(s, S, R),
           \A x, y \in S : ~Newer(x, y) /\ ~Newer(y, x) /\ x.path < y.path => <<x, y>> \in R,
           NEW U \in SUBSET S, U # {}
    PROVE  Top(Newest(s, {i \in DOMAIN s : s[i] \in U}), U)
<1> DEFINE I == {i \in DOMAIN s : s[i] \in U}
           Best(i) == \A j \in I : /\ ~Newer(s[j], s[i])
                                   /\ j < i => Newer(s[i], s[j])
           k == CHOOSE i \in I : Best(i)
<1>1. /\ DOMAIN s = 1..Len(s) /\ Len(s) \in Nat
      /\ \A i \in DOMAIN s : s[i] \in S
      /\ \A x \in S : \E i \in DOMAIN s : s[i] = x
      /\ \A i, j \in DOMAIN s : <<s[i], s[j]>> \in R => i < j
  BY DEF ListsAll, ToSet
<1>2. IsFiniteSet(U)
  BY FS_Subset
<1>3. Orders(ByNews(U), U) /\ \A x, y \in U : <<x, y>> \in ByNews(U) <=> First(x, y)
  BY FirstOrders
<1>4. PICK x \in U : \A y \in U : <<y, x>> \notin ByNews(U)
  BY <1>2, <1>3, FirstOf
<1>5. Top(x, U)
  BY <1>3, <1>4 DEF Top, Orders
<1>6. PICK n \in I : s[n] = x
  BY <1>1
<1>7. \A y \in U : y # x => ~Newer(y, x) /\ (Newer(x, y) \/ x.path < y.path)
  BY <1>5 DEF Top, First, Newer
<1>8. Best(n)
  <2> SUFFICES ASSUME NEW j \in I PROVE ~Newer(s[j], s[n]) /\ (j < n => Newer(s[n], s[j]))
    OBVIOUS
  <2>1. CASE s[j] = x
    <3>1. j = n
      BY <1>6, <2>1 DEF ListsAll
    <3> QED
      BY <1>1, <1>6, <3>1 DEF Newer
  <2>2. CASE s[j] # x
    <3>1. ~Newer(s[j], x) /\ (Newer(x, s[j]) \/ x.path < s[j].path)
      BY <1>7, <2>2
    <3>2. ASSUME ~Newer(x, s[j]) PROVE n < j
      BY <1>1, <1>6, <3>1, <3>2
    <3> QED
      BY <1>1, <1>6, <3>1, <3>2
  <2> QED
    BY <2>1, <2>2
<1>9. k \in I /\ Best(k)
  BY <1>8
<1>10. Newest(s, I) = s[k]
  BY DEF Newest
<1> HIDE DEF k
<1>11. s[k] = x
  <2> SUFFICES ASSUME s[k] # x PROVE FALSE
    OBVIOUS
  <2>1. ~Newer(x, s[k]) /\ (n < k => Newer(s[k], x))
    BY <1>6, <1>9
  <2>2. ~Newer(s[k], x) /\ x.path < s[k].path
    BY <1>7, <1>9, <2>1
  <2>3. n < k
    BY <1>1, <1>6, <1>9, <2>1, <2>2
  <2> QED
    BY <2>1, <2>2, <2>3
<1> QED
  BY <1>5, <1>10, <1>11

\* There is one such record.
LEMMA OneTop ==
    ASSUME NEW U, \A x \in U : x.observed \in Nat /\ x.id \in Nat /\ x.path \in Nat,
           NEW x, NEW y, Top(x, U), Top(y, U)
    PROVE  x = y
<1> SUFFICES ASSUME x # y PROVE FALSE
  OBVIOUS
<1>1. x \in U /\ y \in U /\ First(x, y) /\ First(y, x)
  BY DEF Top
<1> QED
  BY <1>1 DEF First, Newer

\* Two lists of the same records say the same of a check, if each of them puts
\* the one of the lower path first where two are as new.
LEMMA SameRequirement ==
    ASSUME NEW S, IsFiniteSet(S), \A x \in S : x.observed \in Nat /\ x.id \in Nat /\ x.path \in Nat,
           \A x, y \in S : x.path = y.path => x = y,
           NEW P, NEW s, ListsAll(s, S, P),
           \A x, y \in S : ~Newer(x, y) /\ ~Newer(y, x) /\ x.path < y.path => <<x, y>> \in P,
           NEW Q, NEW t, ListsAll(t, S, Q),
           \A x, y \in S : ~Newer(x, y) /\ ~Newer(y, x) /\ x.path < y.path => <<x, y>> \in Q,
           NEW requirement, NEW item, NEW revision
    PROVE  EvaluateRequirement(requirement, item, revision, s)
              = EvaluateRequirement(requirement, item, revision, t)
<1> DEFINE T == {x \in S : x.item = item /\ x.check = requirement.check}
           U == {x \in T : x.revision = revision}
           M(l) == Matching(requirement, item, l)
           C(l) == {i \in M(l) : l[i].revision = revision}
           At(l, V) == {i \in DOMAIN l : l[i] \in V}
           otherwise == IF T # {} THEN "stale" ELSE "missing"
<1>1. /\ \A i \in DOMAIN s : s[i] \in S
      /\ \A i \in DOMAIN t : t[i] \in S
      /\ \A x \in S : \E i \in DOMAIN s : s[i] = x
      /\ \A x \in S : \E i \in DOMAIN t : t[i] = x
  BY DEF ListsAll, ToSet
<1>2. M(s) = At(s, T) /\ C(s) = At(s, U) /\ M(t) = At(t, T) /\ C(t) = At(t, U)
  BY <1>1 DEF Matching
<1>3. (M(s) = {} <=> T = {}) /\ (M(t) = {} <=> T = {}) /\ (C(s) = {} <=> U = {}) /\ (C(t) = {} <=> U = {})
  BY <1>1, <1>2
<1>4. /\ EvaluateRequirement(requirement, item, revision, s)
            = CheckDecision(requirement, s, C(s), otherwise)
      /\ EvaluateRequirement(requirement, item, revision, t)
            = CheckDecision(requirement, t, C(t), otherwise)
  BY <1>3 DEF EvaluateRequirement
<1>5. CASE U = {}
  BY <1>3, <1>4, <1>5 DEF CheckDecision
<1>6. CASE U # {}
  <2>1. U \in SUBSET S
    OBVIOUS
  <2> HIDE DEF U
  <2>2. Top(Newest(s, At(s, U)), U)
    BY <1>6, <2>1, NewestIsTop
  <2>3. Top(Newest(t, At(t, U)), U)
    BY <1>6, <2>1, NewestIsTop
  <2>4. Newest(s, At(s, U)) = Newest(t, At(t, U))
    BY <2>1, <2>2, <2>3, OneTop
  <2>5. Newest(s, C(s)) = Newest(t, C(t)) /\ C(s) # {} /\ C(t) # {}
    BY <1>2, <1>3, <1>6, <2>4
  <2> HIDE DEF C
  <2> QED
    BY <1>4, <2>5 DEF CheckDecision
<1> QED
  BY <1>5, <1>6

\* So two such lists lead to the same decision.
LEMMA SameEvaluation ==
    ASSUME NEW S, IsFiniteSet(S), \A x \in S : x.observed \in Nat /\ x.id \in Nat /\ x.path \in Nat,
           \A x, y \in S : x.path = y.path => x = y,
           NEW P, NEW s, ListsAll(s, S, P),
           \A x, y \in S : ~Newer(x, y) /\ ~Newer(y, x) /\ x.path < y.path => <<x, y>> \in P,
           NEW Q, NEW t, ListsAll(t, S, Q),
           \A x, y \in S : ~Newer(x, y) /\ ~Newer(y, x) /\ x.path < y.path => <<x, y>> \in Q,
           NEW policy, NEW item, NEW revision
    PROVE  Evaluate(policy, item, revision, s) = Evaluate(policy, item, revision, t)
<1> DEFINE Checks(l) == [i \in DOMAIN policy |-> EvaluateRequirement(policy[i], item, revision, l)]
<1>1. \A i : EvaluateRequirement(policy[i], item, revision, s)
                = EvaluateRequirement(policy[i], item, revision, t)
  BY SameRequirement
<1>2. Checks(s) = Checks(t)
  BY <1>1
<1>3. \A l : Evaluate(policy, item, revision, l) =
           IF ~ValidPolicy(policy) THEN Error
           ELSE IF policy = <<>> THEN Ok(Decision(item, revision, "unconfigured", <<>>))
           ELSE IF item = 0 \/ revision = NoRevision THEN Error
           ELSE Ok(Decision(item, revision, DecisionState(policy, Checks(l)), Checks(l)))
  BY Zenon DEF Evaluate
<1> HIDE DEF Checks
<1> QED
  BY <1>2, <1>3

\* The records of a work item among the files of a project.
OwnFiles(p, tree, item) == {x \in DirAt(tree, p.root).evidence.val : x.item = item}

\* Evidence lists the records of a work item, the newest first.
LEMMA EvidenceList ==
    ASSUME NEW p, NEW tree, NEW item, item # 0,
           NEW evidence, evidence = DirAt(tree, p.root).evidence, evidence.ok,
           PossibleFiles(evidence.val)
    PROVE  /\ Evidence(p, tree, item).ok
           /\ ListsAll(Evidence(p, tree, item).val, OwnFiles(p, tree, item),
                       ByNews(OwnFiles(p, tree, item)))
<1> DEFINE S == OwnFiles(p, tree, item)
           R == ByNews(S)
           scanned == Scan(evidence)
           T == {x \in ToSet(scanned.val) : x.item = item}
           s == [i \in 1..Cardinality(T) |->
                    CHOOSE x \in T : Cardinality({y \in T : First(y, x)}) = i - 1]
<1>1. scanned.ok /\ ToSet(scanned.val) = evidence.val
  BY ScanFinds
<1>2. Evidence(p, tree, item) = Ok(SubSeq(s, 1, Cardinality(T)))
  <2>1. scanned.ok
    BY <1>1
  <2>2. Evidence(p, tree, item) = Then(scanned, LAMBDA records :
           Ok(Sorted({x \in ToSet(records) : x.item = item}, First)))
    BY Zenon DEF Evidence, First
  <2>3. Then(scanned, LAMBDA records : Ok(Sorted({x \in ToSet(records) : x.item = item}, First)))
           = Ok(SubSeq(s, 1, Cardinality(T)))
    <3> HIDE DEF scanned
    <3> QED
      BY <2>1, Zenon DEF Then, Sorted
  <2> QED
    BY <2>2, <2>3
<1>3. T = S
  BY <1>1 DEF OwnFiles
<1>4. /\ IsFiniteSet(S) /\ \A x \in S : x.observed \in Nat /\ x.id \in Nat /\ x.path \in Nat
      /\ \A x, y \in S : x.path = y.path => x = y
  <2>1. S \in SUBSET evidence.val
    BY DEF OwnFiles
  <2>2. IsFiniteSet(S)
    BY <2>1, FS_Subset DEF PossibleFiles
  <2> QED
    BY <2>1, <2>2 DEF PossibleFiles
<1> HIDE DEF S, R
<1>5. Orders(R, S) /\ \A x, y \in S : <<x, y>> \in R <=> First(x, y)
  BY <1>4, FirstOrders DEF R
<1>6. \A x \in S : {y \in S : First(y, x)} = Below(R, S, x)
  BY <1>5 DEF Below
<1>7. ASSUME NEW i \in 1..Cardinality(S)
      PROVE  s[i] \in S /\ Cardinality(Below(R, S, s[i])) = i - 1
  <2>1. \E x \in S : Cardinality(Below(R, S, x)) = i - 1
    BY <1>4, <1>5, Ranked
  <2>2. \E x \in S : Cardinality({y \in S : First(y, x)}) = i - 1
    BY <1>6, <2>1
  <2>3. s[i] \in S /\ Cardinality({y \in S : First(y, s[i])}) = i - 1
    <3> HIDE DEF T
    <3>1. i \in 1..Cardinality(T)
      BY <1>3
    <3> QED
      BY <1>3, <2>2, <3>1
  <2> QED
    BY <1>6, <2>3
<1> HIDE DEF s, T
<1>8. ListsAll(SubSeq(s, 1, Cardinality(S)), S, R)
  BY <1>4, <1>5, <1>7, SortedLists
<1> QED
  BY <1>2, <1>3, <1>8, ResultsAre DEF S, R

\* ForWorkItem keeps the same records, in the order of their paths.
LEMMA OwnList ==
    ASSUME NEW p, NEW tree, NEW item,
           NEW evidence, evidence = DirAt(tree, p.root).evidence, evidence.ok,
           PossibleFiles(evidence.val)
    PROVE  ListsAll(ForWorkItem(Scan(evidence).val, item), OwnFiles(p, tree, item),
                    ByPath(evidence.val))
<1> DEFINE s == Scan(evidence).val
           S == evidence.val
           T == OwnFiles(p, tree, item)
           I == {i \in DOMAIN s : s[i].item = item}
<1>1. ListsAll(s, S, ByPath(S))
  BY ScanLists
<1>2. T \in SUBSET S
  BY DEF OwnFiles
<1>3. I = {i \in DOMAIN s : s[i] \in T}
  BY <1>1 DEF ListsAll, OwnFiles
<1>4. Orders(ByPath(S), S)
  <2>1. \A x, y \in S : <<x, y>> \in ByPath(S) <=> x.path < y.path
    BY DEF ByPath
  <2> QED
    BY <2>1 DEF Orders, PossibleFiles
<1>5. ForWorkItem(s, item) = KeptAt(s, I)
  BY Zenon DEF ForWorkItem, Kept, KeptAt
<1> HIDE DEF s, I, T
<1>6. ListsAll(KeptAt(s, I), T, ByPath(S))
  BY <1>1, <1>2, <1>3, <1>4, KeptLists
<1> QED
  BY <1>5, <1>6 DEF s, T

\* The two ways to the records of a work item come to one decision.
LEMMA SameDecision ==
    ASSUME NEW p, NEW tree, NEW item, item # 0,
           NEW evidence, evidence = DirAt(tree, p.root).evidence, evidence.ok,
           PossibleFiles(evidence.val), NEW policy, NEW revision
    PROVE  /\ Len(ForWorkItem(Scan(evidence).val, item)) = Len(Evidence(p, tree, item).val)
           /\ Evaluate(policy, item, revision, ForWorkItem(Scan(evidence).val, item))
                 = Evaluate(policy, item, revision, Evidence(p, tree, item).val)
<1> DEFINE s == ForWorkItem(Scan(evidence).val, item)
           t == Evidence(p, tree, item).val
           S == OwnFiles(p, tree, item)
           P == ByPath(evidence.val)
           Q == ByNews(S)
<1>1. ListsAll(s, S, P) /\ ListsAll(t, S, Q)
  BY OwnList, EvidenceList
<1>2. S \in SUBSET evidence.val
  BY DEF OwnFiles
<1>3. /\ IsFiniteSet(S) /\ \A x \in S : x.observed \in Nat /\ x.id \in Nat /\ x.path \in Nat
      /\ \A x, y \in S : x.path = y.path => x = y
  <2>1. IsFiniteSet(S)
    BY <1>2, FS_Subset DEF PossibleFiles
  <2> QED
    BY <1>2, <2>1 DEF PossibleFiles
<1>4. \A x, y \in S : x.path < y.path => <<x, y>> \in P
  BY <1>2 DEF ByPath
<1>5. \A x, y \in S : ~Newer(x, y) /\ ~Newer(y, x) /\ x.path < y.path => <<x, y>> \in Q
  BY DEF ByNews, First
<1> HIDE DEF s, t, S, P, Q
<1>6. Len(s) = Len(t)
  BY <1>1 DEF ListsAll
<1>7. Evaluate(policy, item, revision, s) = Evaluate(policy, item, revision, t)
  BY <1>1, <1>3, <1>4, <1>5, SameEvaluation
<1> QED
  BY <1>6, <1>7 DEF s, t

-----------------------------------------------------------------------------
(* An entry of the overview and the answer for its work item.              *)

\* An entry of the overview says what get_acceptance says of its work item.
LEMMA EntryIs ==
    ASSUME NEW p, NEW g, NEW tree, NEW a, a.item # 0,
           NEW evidence, evidence = DirAt(tree, p.root).evidence,
           evidence.ok => PossibleFiles(evidence.val), OverviewScan(p, tree).ok,
           NEW result, result = AcceptanceEntry(p, a, OverviewAt(p, g), OverviewScan(p, tree).val),
           result.ok
    PROVE  LET one == EvaluateAcceptance(p, a.item, g, tree)
           IN  /\ result.val.item = a.item /\ result.val.path = a.path
               /\ one.ok
               /\ one.val.decision.state = result.val.state
               /\ one.val.pending = result.val.pending
               /\ p.policy # <<>> => one.val.evidenceCount = result.val.evidenceCount
<1> DEFINE at == OverviewAt(p, g)
           records == OverviewScan(p, tree).val
           own == ForWorkItem(records, a.item)
           listed == Evidence(p, tree, a.item)
           one == EvaluateAcceptance(p, a.item, g, tree)
           entry(state, pending) ==
              [item |-> a.item, path |-> a.path, evidenceCount |-> Len(own),
               state |-> state, pending |-> pending]
           decided == Evaluate(p.policy, a.item, at.revision, own)
<1>1. result = IF p.policy = <<>> THEN Ok(entry("unconfigured", FALSE))
               ELSE IF ~at.available THEN Ok(entry("waiting", TRUE))
               ELSE IF decided.ok THEN Ok(entry(decided.val.state, FALSE)) ELSE Error
  BY Zenon DEF AcceptanceEntry, Then
<1>2. \A state, pending : LET e == entry(state, pending)
                          IN  /\ e.item = a.item /\ e.path = a.path /\ e.state = state
                              /\ e.pending = pending /\ e.evidenceCount = Len(own)
  BY Zenon
<1> DEFINE plain == AcceptanceResult(Decision(0, NoRevision, "unconfigured", <<>>),
                                     NoResolution, 0, FALSE)
           waiting == AcceptanceResult(Decision(a.item, NoRevision, "waiting", <<>>),
                                       at, Len(listed.val), TRUE)
           told == Evaluate(p.policy, a.item, at.revision, listed.val)
           answer == AcceptanceResult(told.val, at, Len(listed.val), FALSE)
<1>7. plain.decision.state = "unconfigured" /\ plain.pending = FALSE
  BY DEF AcceptanceResult, Decision
<1>8. /\ waiting.decision.state = "waiting" /\ waiting.pending = TRUE
      /\ waiting.evidenceCount = Len(listed.val)
  <2> HIDE DEF at, listed
  <2> QED
    BY DEF AcceptanceResult, Decision
<1>9. /\ answer.decision = told.val /\ answer.pending = FALSE
      /\ answer.evidenceCount = Len(listed.val)
  <2> HIDE DEF at, listed, told
  <2> QED
    BY DEF AcceptanceResult
<1>10. CASE p.policy = <<>>
  <2>1. result = Ok(entry("unconfigured", FALSE))
    BY <1>1, <1>10
  <2>2. one = Ok(plain)
    BY <1>10, Zenon DEF EvaluateAcceptance
  <2>3. entry("unconfigured", FALSE).state = "unconfigured" /\ entry("unconfigured", FALSE).pending = FALSE
        /\ entry("unconfigured", FALSE).item = a.item /\ entry("unconfigured", FALSE).path = a.path
    BY Zenon, <1>2
  <2> HIDE DEF entry, one, plain
  <2>4. result.val = entry("unconfigured", FALSE)
    BY <2>1, ResultsAre
  <2>5. one.ok /\ one.val = plain
    BY <2>2, ResultsAre
  <2>6. /\ result.val.item = a.item /\ result.val.path = a.path /\ one.ok
        /\ one.val.decision.state = result.val.state
        /\ one.val.pending = result.val.pending
    BY <1>7, <2>3, <2>4, <2>5, Zenon
  <2> QED
    BY <1>10, <2>6, Zenon DEF one
<1>11. CASE p.policy # <<>>
  <2>1. at = ResolveGit(p.root, g) /\ Scan(evidence).ok /\ records = Scan(evidence).val
    BY <1>11 DEF OverviewAt, OverviewScan
  <2>2. evidence.ok
    BY <2>1, ResultsAre, Zenon DEF Scan, Then
  <2>3. listed.ok
    BY <2>2, EvidenceList
  <2>4. \A policy, revision :
           /\ Len(ForWorkItem(Scan(evidence).val, a.item)) = Len(Evidence(p, tree, a.item).val)
           /\ Evaluate(policy, a.item, revision, ForWorkItem(Scan(evidence).val, a.item))
                 = Evaluate(policy, a.item, revision, Evidence(p, tree, a.item).val)
    BY <2>2, SameDecision
  <2>5. Len(own) = Len(listed.val) /\ decided = told
    BY <2>1, <2>4, Zenon
  <2>6. one = IF ~at.available THEN Ok(waiting) ELSE IF told.ok THEN Ok(answer) ELSE Error
    <3>1. one = Then(listed, LAMBDA found :
                    IF ~ResolveGit(p.root, g).available
                    THEN Ok(AcceptanceResult(Decision(a.item, NoRevision, "waiting", <<>>),
                                             ResolveGit(p.root, g), Len(found), TRUE))
                    ELSE Then(Evaluate(p.policy, a.item, ResolveGit(p.root, g).revision, found),
                              LAMBDA decision :
                                 Ok(AcceptanceResult(decision, ResolveGit(p.root, g),
                                                     Len(found), FALSE))))
      BY <1>11, Zenon DEF EvaluateAcceptance
    <3> HIDE DEF one, at, listed
    <3> QED
      BY <2>1, <2>3, <3>1, Zenon DEF Then
  <2> DEFINE waits == entry("waiting", TRUE)
             tells == entry(decided.val.state, FALSE)
  <2>7. /\ waits.item = a.item /\ waits.path = a.path /\ waits.state = "waiting"
        /\ waits.pending = TRUE /\ waits.evidenceCount = Len(own)
    BY Zenon, <1>2
  <2>10. /\ tells.item = a.item /\ tells.path = a.path /\ tells.state = decided.val.state
         /\ tells.pending = FALSE /\ tells.evidenceCount = Len(own)
    <3> HIDE DEF own, decided
    <3> QED
      OBVIOUS
  <2> HIDE DEF one, at, listed, own, decided, entry, waiting, answer, told, waits, tells
  <2>8. CASE ~at.available
    <3>1. result = Ok(waits) /\ one = Ok(waiting)
      BY <1>1, <1>11, <2>6, <2>8, Zenon DEF waits
    <3>2. result.val = waits /\ one.ok /\ one.val = waiting
      BY <3>1, ResultsAre
    <3>3. /\ result.val.item = a.item /\ result.val.path = a.path /\ one.ok
          /\ one.val.decision.state = result.val.state
          /\ one.val.pending = result.val.pending
          /\ one.val.evidenceCount = result.val.evidenceCount
      BY <1>8, <2>5, <2>7, <3>2, Zenon
    <3> QED
      BY <3>3, Zenon DEF one
  <2>9. CASE at.available
    <3>1. decided.ok
      BY <1>1, <1>11, <2>9, ResultsAre
    <3>2. result = Ok(tells) /\ one = Ok(answer)
      BY <1>1, <1>11, <2>5, <2>6, <2>9, <3>1, Zenon DEF tells
    <3>3. result.val = tells /\ one.ok /\ one.val = answer
      BY <3>2, ResultsAre
    <3>4. /\ result.val.item = a.item /\ result.val.path = a.path /\ one.ok
          /\ one.val.decision.state = result.val.state
          /\ one.val.pending = result.val.pending
          /\ one.val.evidenceCount = result.val.evidenceCount
      BY <1>9, <2>5, <2>10, <3>3, Zenon
    <3> QED
      BY <3>4, Zenon DEF one
  <2> QED
    BY <2>8, <2>9
<1> QED
  BY <1>10, <1>11

\* What is looked for in a list is found, if it is there.
AtItem(s, item) == FirstWhere(s, LAMBDA a : a.item = item)
AtPath(s, path) == FirstWhere(s, LAMBDA a : a.path = path)

\* An item number that occurs in the list is found.
LEMMA ItemFound ==
    ASSUME NEW s, Len(s) \in Nat, DOMAIN s = 1..Len(s), NEW item,
           \E i \in DOMAIN s : s[i].item = item
    PROVE  AtItem(s, item).ok
<1> DEFINE I == {i \in 1..Len(s) : s[i].item = item}
           n == IF I # {} THEN Min(I) ELSE 0
<1>1. AtItem(s, item) = IF n = 0 THEN Error ELSE Ok(s[n])
  BY Zenon DEF AtItem, FirstWhere, SelectInSeq
<1>2. I # {} /\ I \in SUBSET Nat
  OBVIOUS
<1>3. Min(I) \in I
  BY <1>2, MinNat
<1>4. n # 0
  BY <1>2, <1>3
<1> HIDE DEF n
<1> QED
  BY <1>1, <1>4, ResultsAre

\* What is found by its path is in the list.
LEMMA PathFound ==
    ASSUME NEW s, Len(s) \in Nat, DOMAIN s = 1..Len(s), NEW path,
           \E i \in DOMAIN s : s[i].path = path
    PROVE  LET found == AtPath(s, path)
           IN  found.ok /\ found.val \in ToSet(s) /\ found.val.path = path
<1> DEFINE I == {i \in 1..Len(s) : s[i].path = path}
           n == IF I # {} THEN Min(I) ELSE 0
           found == AtPath(s, path)
<1>1. found = IF n = 0 THEN Error ELSE Ok(s[n])
  BY Zenon DEF AtPath, FirstWhere, SelectInSeq
<1>2. I # {} /\ I \in SUBSET Nat
  OBVIOUS
<1>3. Min(I) \in I
  BY <1>2, MinNat
<1>4. n # 0 /\ n \in DOMAIN s /\ s[n].path = path
  BY <1>2, <1>3
<1> HIDE DEF n, found
<1>5. found.ok /\ found.val = s[n]
  BY <1>1, <1>4, ResultsAre
<1> QED
  BY <1>4, <1>5 DEF found, ToSet

-----------------------------------------------------------------------------
(* The pages of a repository.                                              *)

\* The work items of the project of a repository, as they are in one tree.
ItemsAt(tree, root) == Then(ProjectAt(tree, root), LAMBDA p : WorkItems(p, tree))

\* While nothing changes a project has the convention that is detected for it.
LEMMA SameConvention ==
    ASSUME WorldInv, NEW root
    PROVE  LET detected == DetectConvention(DirAt(now.tree, root))
               project  == ProjectAt(now.tree, root)
           IN  project.ok => detected.ok /\ project.val.convention = detected.val
<1> DEFINE dir == DirAt(now.tree, root)
           detected == DetectConvention(dir)
           project == ProjectAt(now.tree, root)
           loaded == LoadConfig(dir.lines)
           shown(cfg) == Convention(cfg.values[<<"specs", "adapter">>], cfg.values[<<"specs", "path">>])
<1>1. dir.config \in {"absent", "present", "unreadable"}
  BY TreeNow
<1>2. project = Then(detected, LAMBDA d :
                   CASE dir.config = "unreadable" -> Error
                     [] dir.config = "absent" -> Ok(Project(root, root, d, d.path, <<>>))
                     [] OTHER -> Then(loaded, LAMBDA cfg : Ok(Configured(root, cfg))))
  BY Zenon DEF ProjectAt, Resolve
<1>3. dir.config = "present" =>
          detected = Then(loaded, LAMBDA cfg : Ok(shown(cfg)))
  BY Zenon DEF DetectConvention
<1>4. Configured(root, loaded.val).convention = shown(loaded.val)
  <2> HIDE DEF loaded
  <2> QED
    BY DEF Configured, Project
<1>5. \A d : Project(root, root, d, d.path, <<>>).convention = d
  BY DEF Project
<1> HIDE DEF dir, detected, project, loaded, shown
<1>6. CASE ~detected.ok
  <2>1. project = Error
    BY <1>2, <1>6, Zenon DEF Then
  <2> QED
    BY <2>1, ResultsAre DEF project
<1>7. CASE detected.ok /\ dir.config = "present"
  <2>1. loaded.ok /\ detected = Ok(shown(loaded.val))
    BY <1>3, <1>7, ResultsAre, Zenon DEF Then
  <2>2. project = Ok(Configured(root, loaded.val))
    <3>1. dir.config # "unreadable" /\ dir.config # "absent"
      BY <1>7
    <3>2. project = CASE dir.config = "unreadable" -> Error
                     [] dir.config = "absent" -> Ok(Project(root, root, detected.val, detected.val.path, <<>>))
                     [] OTHER -> Then(loaded, LAMBDA cfg : Ok(Configured(root, cfg)))
      BY <1>2, <1>7, Zenon DEF Then
    <3>3. project = Then(loaded, LAMBDA cfg : Ok(Configured(root, cfg)))
      BY <3>1, <3>2, Zenon
    <3> QED
      BY <2>1, <3>3, Zenon DEF Then
  <2> QED
    BY <1>4, <1>7, <2>1, <2>2, ResultsAre DEF project, detected, dir
<1>8. CASE detected.ok /\ dir.config # "present"
  <2>1. project = CASE dir.config = "unreadable" -> Error
                     [] dir.config = "absent" -> Ok(Project(root, root, detected.val, detected.val.path, <<>>))
                     [] OTHER -> Then(loaded, LAMBDA cfg : Ok(Configured(root, cfg)))
    BY <1>2, <1>8, Zenon DEF Then
  <2>2. \/ project = Error
        \/ project = Ok(Project(root, root, detected.val, detected.val.path, <<>>))
    <3>1. CASE dir.config = "unreadable"
      BY <2>1, <3>1, Zenon
    <3>2. CASE dir.config = "absent"
      <4>1. dir.config # "unreadable"
        BY <3>2
      <4> QED
        BY <2>1, <3>2, <4>1, Zenon
    <3> QED
      BY <1>1, <1>8, <3>1, <3>2
  <2> QED
    BY <1>5, <1>8, <2>2, ResultsAre DEF project, detected, dir
<1> QED
  BY <1>6, <1>7, <1>8

\* The pages show the work items that the tools list, where there are any.
LEMMA StoreNow ==
    ASSUME WorldInv, NEW root
    PROVE  LET store == ProjectStore(AllNow(root), root)
               items == ItemsAt(now.tree, root)
           IN  store = items \/ (store = NoStore /\ ~items.ok)
<1> DEFINE detected == DetectConvention(DirAt(now.tree, root))
           project == ProjectAt(now.tree, root)
           store == ProjectStore(AllNow(root), root)
           items == ItemsAt(now.tree, root)
           known == detected.ok /\ detected.val.recognized /\ detected.val.supported
<1>1. /\ AllNow(root)["convention"] = now.tree /\ AllNow(root)["items"] = now.tree
      /\ SeenProject(AllNow(root), root) = project
  BY AllNowIs, ProjectNow DEF TreeReads
<1>2. store = IF ~detected.ok THEN NoStore
              ELSE IF ~detected.val.recognized \/ ~detected.val.supported THEN NoStore
              ELSE items
  <2> DEFINE see == AllNow(root)
             dir == DirAt(see["convention"], root)
             told == DetectConvention(dir)
             seen == SeenProject(see, root)
  <2>1. store = IF ~told.ok THEN NoStore
                ELSE IF ~told.val.recognized \/ ~told.val.supported THEN NoStore
                ELSE IF seen.ok THEN WorkItems(seen.val, see["items"]) ELSE Error
    BY Zenon DEF ProjectStore, Then
  <2>2. told = detected /\ see["items"] = now.tree /\ seen = project
    BY <1>1
  <2>3. items = IF project.ok THEN WorkItems(project.val, now.tree) ELSE Error
    BY Zenon DEF ItemsAt, Then
  <2> HIDE DEF store, items, told, seen, see, project, detected
  <2> QED
    BY <2>1, <2>2, <2>3
<1>3. project.ok => detected.ok /\ project.val.convention = detected.val
  BY SameConvention
<1>4. \A p : ~p.convention.recognized \/ ~p.convention.supported => WorkItems(p, now.tree) = Error
  BY Zenon DEF WorkItems
<1>5. items = IF project.ok THEN WorkItems(project.val, now.tree) ELSE Error
  BY Zenon DEF ItemsAt, Then
<1> HIDE DEF detected, project, store, items
<1>6. CASE known
  BY <1>2, <1>6, Zenon DEF store, items
<1>7. CASE ~known
  <2>1. store = NoStore
    BY <1>2, <1>7, Zenon
  <2>2. items = Error
    BY <1>3, <1>4, <1>5, <1>7, Zenon
  <2> QED
    BY <2>1, <2>2, ResultsAre DEF store, items
<1> QED
  BY <1>6, <1>7

\* A repository that is remembered under its ID.
LEMMA RememberedNow ==
    ASSUME WorldInv, now.catalog.ok, NEW r \in now.catalog.val
    PROVE  RememberedRepository(AllNow(r.root), r.id) = Ok(r)
<1> DEFINE known == {x \in now.catalog.val : x.id = r.id}
<1>1. \A s \in now.catalog.val : s.id = r.id => s = r
  BY MachineNow DEF PossibleCatalog
<1>2. known = {r}
  BY <1>1
<1>3. AllNow(r.root)["catalog"] = now.catalog
  BY AllNowIs
<1>4. RememberedRepository(AllNow(r.root), r.id)
         = IF known = {} THEN Error ELSE Ok(CHOOSE x \in known : TRUE)
  BY <1>3 DEF RememberedRepository
<1> HIDE DEF known
<1>5. (CHOOSE x \in known : TRUE) = r
  BY <1>2
<1> QED
  BY <1>2, <1>4, <1>5

\* Git is of no account for a project without a policy.
LEMMA GitUnused ==
    ASSUME NEW p, p.policy = <<>>, NEW g, NEW h, NEW tree
    PROVE  /\ AcceptanceOverview(p, g, tree, tree) = AcceptanceOverview(p, h, tree, tree)
           /\ \A item : EvaluateAcceptance(p, item, g, tree) = EvaluateAcceptance(p, item, h, tree)
<1>1. AcceptanceOverview(p, g, tree, tree) = AcceptanceOverview(p, h, tree, tree)
  <2> DEFINE one == AcceptanceOverview(p, g, tree, tree)
             two == AcceptanceOverview(p, h, tree, tree)
  <2>1. OverviewAt(p, g) = OverviewAt(p, h)
    BY DEF OverviewAt
  <2>2. EntryResults(p, g, tree) = EntryResults(p, h, tree)
    BY <2>1 DEF EntryResults
  <2>3. OverviewTotals(p, g, tree) = OverviewTotals(p, h, tree)
    BY <2>1, <2>2, Zenon DEF OverviewTotals
  <2>4. \A git : LET results == EntryResults(p, git, tree)
                     all == AcceptanceOverview(p, git, tree, tree)
                 IN  all = IF /\ WorkItems(p, tree).ok /\ OverviewScan(p, tree).ok
                              /\ \A i \in DOMAIN results : results[i].ok
                           THEN Ok(OverviewTotals(p, git, tree)) ELSE Error
    BY Zenon, OverviewOk
  <2> QED
    BY <2>2, <2>3, <2>4, Zenon
<1>2. \A item : EvaluateAcceptance(p, item, g, tree) = EvaluateAcceptance(p, item, h, tree)
  BY Zenon DEF EvaluateAcceptance
<1> QED
  BY <1>1, <1>2

\* What the source of a page says of git is what git says.
LEMMA SourceIs ==
    ASSUME NEW root
    PROVE  LET git == InspectGit(now.git, root)
               source == SourceNow(root)
           IN  /\ source.ok <=> git.ok
               /\ source.ok => source.val.git = git.val
<1> DEFINE git == InspectGit(now.git, root)
           told == [git |-> git.val, forge |-> NoForge]
<1>1. SourceNow(root) = IF git.ok THEN Ok(told) ELSE Error
  BY DEF SourceNow
<1>2. told.git = git.val
  <2> HIDE DEF git
  <2> QED
    OBVIOUS
<1> HIDE DEF git, told
<1>3. (SourceNow(root).ok <=> git.ok) /\ (SourceNow(root).ok => SourceNow(root).val.git = git.val)
  BY <1>1, <1>2, ResultsAre
<1> QED
  BY <1>3 DEF git

\* The overview of a project with what git says of it, if it has a policy.
OverviewWith(p, git, tree) ==
    Then(GitFor(p, git), LAMBDA g : AcceptanceOverview(p, g, tree, tree))

\* Without a policy any git does, with one that of the tools.
LEMMA OverviewWithGit ==
    ASSUME NEW p, NEW git, git.ok, NEW tree
    PROVE  OverviewWith(p, git, tree) = AcceptanceOverview(p, git.val, tree, tree)
<1>1. CASE p.policy = <<>>
  <2> DEFINE none == [worktrees |-> <<>>]
  <2>1. GitFor(p, git) = Ok(none)
    BY <1>1 DEF GitFor
  <2>2. Ok(none).ok /\ Ok(none).val = none
    BY ResultsAre
  <2> HIDE DEF none
  <2>3. OverviewWith(p, git, tree) = AcceptanceOverview(p, none, tree, tree)
    BY <2>1, <2>2, Zenon DEF OverviewWith, Then
  <2>4. AcceptanceOverview(p, none, tree, tree) = AcceptanceOverview(p, git.val, tree, tree)
    BY <1>1, GitUnused
  <2> QED
    BY <2>3, <2>4
<1>2. CASE p.policy # <<>>
  <2>1. GitFor(p, git) = git
    BY <1>2 DEF GitFor
  <2> QED
    BY <2>1, Zenon DEF OverviewWith, Then
<1> QED
  BY <1>1, <1>2

\* The page of a repository says of all parts what the tool says.
LEMMA PageIs ==
    ASSUME WorldInv, now.catalog.ok, NEW r \in now.catalog.val,
           NEW page, page = ProjectPage(AllNow(r.root), r.id, SourceNow(r.root)), page.ok
    PROVE  /\ page.val["execution"] = RepositoryExecution(History({r}))
           /\ page.val["intent"] = IntentPart(now.tree, r.root)
           /\ page.val["evidence"] = EvidencePart(now.tree, r.root)
           /\ page.val["acceptance"] = AcceptancePart(now.tree, InspectGit(now.git, r.root), r.root)
<1> DEFINE see == AllNow(r.root)
           source == SourceNow(r.root)
           git == InspectGit(now.git, r.root)
           store == ProjectStore(see, r.root)
           project == ProjectAt(now.tree, r.root)
           again == ProjectAt(see["again"], r.root)
           intent == Then(store, LAMBDA items : Ok(IntentCounts(items)))
           evidence == Then(again, LAMBDA p : EvidenceOverview(p, see["records"], see["titles"]))
           acceptance == Then(again, LAMBDA p :
                            AcceptanceOverview(p, source.val.git, see["entries"], see["evidence"]))
           execution == RepositoryExecution(History({r}))
           shown == [source |-> source.val, intent |-> intent, execution |-> execution,
                     evidence |-> evidence, acceptance |-> acceptance]
<1>1. RememberedRepository(see, r.id) = Ok(r)
  BY RememberedNow
<1>2. Ok(r).ok /\ Ok(r).val = r
  BY ResultsAre
<1>3. page = IF (~store.ok /\ store # NoStore) \/ ~source.ok THEN Error ELSE Ok(shown)
  <2> DEFINE Overviewed(x) ==
        IF \/ (~ProjectStore(see, x.root).ok /\ ProjectStore(see, x.root) # NoStore)
           \/ ~source.ok
        THEN Error
        ELSE Ok([source |-> source.val,
                 intent |-> Then(ProjectStore(see, x.root), LAMBDA items : Ok(IntentCounts(items))),
                 execution |-> RepositoryExecution(History({x})),
                 evidence |-> Then(ProjectAt(see["again"], x.root), LAMBDA p :
                         EvidenceOverview(p, see["records"], see["titles"])),
                 acceptance |-> Then(ProjectAt(see["again"], x.root), LAMBDA p :
                         AcceptanceOverview(p, source.val.git, see["entries"], see["evidence"]))])
             one == Overviewed(r)
  <2>1. page = Then(RememberedRepository(see, r.id), Overviewed)
    BY Zenon DEF ProjectPage
  <2>2. one = IF (~store.ok /\ store # NoStore) \/ ~source.ok THEN Error ELSE Ok(shown)
    BY Zenon
  <2>3. page = IF RememberedRepository(see, r.id).ok
               THEN Overviewed(RememberedRepository(see, r.id).val) ELSE Error
    BY <2>1, Zenon DEF Then
  <2>4. RememberedRepository(see, r.id).ok /\ RememberedRepository(see, r.id).val = r
    BY <1>1, <1>2
  <2>5. page = Overviewed(RememberedRepository(see, r.id).val)
    BY <2>3, <2>4, Zenon
  <2> HIDE DEF Overviewed
  <2>6. page = Overviewed(r)
    BY <2>4, <2>5, Zenon
  <2> QED
    BY <2>2, <2>6, Zenon
<1>4. /\ see["again"] = now.tree /\ see["records"] = now.tree /\ see["titles"] = now.tree
      /\ see["entries"] = now.tree /\ see["evidence"] = now.tree
  BY AllNowIs DEF TreeReads
<1>5. store = ItemsAt(now.tree, r.root) \/ (store = NoStore /\ ~ItemsAt(now.tree, r.root).ok)
  BY StoreNow
<1>6. (source.ok <=> git.ok) /\ (source.ok => source.val.git = git.val)
  BY SourceIs
<1>7. again = project
  BY <1>4
<1>8. intent = IntentPart(now.tree, r.root)
  <2> DEFINE items == ItemsAt(now.tree, r.root)
  <2>1. IntentPart(now.tree, r.root) = IF items.ok THEN Ok(IntentCounts(items.val)) ELSE Error
    <3>1. items = IF project.ok THEN WorkItems(project.val, now.tree) ELSE Error
      BY Zenon DEF ItemsAt, Then
    <3>2. IntentPart(now.tree, r.root) =
             IF project.ok
             THEN IF WorkItems(project.val, now.tree).ok
                  THEN Ok(IntentCounts(WorkItems(project.val, now.tree).val)) ELSE Error
             ELSE Error
      BY Zenon DEF IntentPart, Then
    <3> HIDE DEF items, project
    <3> QED
      BY <3>1, <3>2, ResultsAre
  <2>2. intent = IF store.ok THEN Ok(IntentCounts(store.val)) ELSE Error
    BY Zenon DEF Then
  <2>3. ~NoStore.ok
    BY DEF NoStore
  <2> HIDE DEF intent, store, items
  <2> QED
    BY <1>5, <2>1, <2>2, <2>3 DEF items
<1>9. evidence = EvidencePart(now.tree, r.root)
  <2>1. evidence = IF again.ok THEN EvidenceOverview(again.val, see["records"], see["titles"]) ELSE Error
    BY Zenon DEF Then
  <2>2. EvidencePart(now.tree, r.root)
           = IF project.ok THEN EvidenceOverview(project.val, now.tree, now.tree) ELSE Error
    BY Zenon DEF EvidencePart, Then
  <2> HIDE DEF evidence, again, project, see
  <2> QED
    BY <1>4, <1>7, <2>1, <2>2
<1>10. CASE source.ok
  <2>1. acceptance = IF again.ok
                     THEN AcceptanceOverview(again.val, source.val.git, see["entries"], see["evidence"])
                     ELSE Error
    BY Zenon DEF Then
  <2>2. AcceptancePart(now.tree, git, r.root)
           = IF project.ok THEN OverviewWith(project.val, git, now.tree) ELSE Error
    BY Zenon DEF AcceptancePart, OverviewWith, Then
  <2>3. OverviewWith(project.val, git, now.tree)
          = AcceptanceOverview(project.val, git.val, now.tree, now.tree)
    BY <1>6, <1>10, OverviewWithGit
  <2> DEFINE part == AcceptancePart(now.tree, git, r.root)
  <2> HIDE DEF acceptance, again, project, see, git, source, part
  <2>4. acceptance = part
    BY <1>4, <1>6, <1>7, <1>10, <2>1, <2>2, <2>3 DEF part
  <2> HIDE DEF intent, evidence, execution, store
  <2>5. page = Ok(shown)
    BY <1>3, <1>10, ResultsAre
  <2>6. page.val = shown
    BY <2>5, ResultsAre, Zenon
  <2>7. shown["intent"] = intent /\ shown["evidence"] = evidence
        /\ shown["acceptance"] = acceptance /\ shown["execution"] = execution
    OBVIOUS
  <2> HIDE DEF shown
  <2> QED
    BY <1>8, <1>9, <2>4, <2>6, <2>7 DEF part, git, execution
<1>11. source.ok
  <2> HIDE DEF source, shown
  <2> QED
    BY <1>3, ResultsAre
<1> QED
  BY <1>10, <1>11

\* The acceptance page has the overview of the tool.
LEMMA OnPageIs ==
    ASSUME WorldInv, now.catalog.ok, NEW r \in now.catalog.val
    PROVE  AcceptancePage(AllNow(r.root), r.id, SourceNow(r.root)).val.overview
              = AcceptancePart(now.tree, InspectGit(now.git, r.root), r.root)
<1> DEFINE see == AllNow(r.root)
           source == SourceNow(r.root)
           git == InspectGit(now.git, r.root)
           seen == IF source.ok THEN Ok(source.val.git) ELSE Error
           project == ProjectAt(now.tree, r.root)
           With1(g, p) == Then(GitFor(p, g), LAMBDA h :
                              AcceptanceOverview(p, h, see["entries"], see["evidence"]))
           Overview(x) == Then(SeenProject(see, x.root), LAMBDA p : With1(seen, p))
           page == AcceptancePage(see, r.id, source)
           Shown(x) == Ok([overview |-> Overview(x)])
<1>1. RememberedRepository(see, r.id).ok /\ RememberedRepository(see, r.id).val = r
  BY RememberedNow, ResultsAre
<1>2. page = IF RememberedRepository(see, r.id).ok
             THEN Shown(RememberedRepository(see, r.id).val) ELSE Error
  BY Zenon DEF AcceptancePage, Then
<1>3. page = Shown(r)
  <2> HIDE DEF Shown, page
  <2> QED
    BY <1>1, <1>2, Zenon
<1>4. page.val.overview = Overview(r)
  <2> HIDE DEF Overview, page
  <2>1. page.val = [overview |-> Overview(r)]
    BY <1>3, ResultsAre, Zenon
  <2> QED
    BY <2>1
<1>5. /\ see["entries"] = now.tree /\ see["evidence"] = now.tree
      /\ SeenProject(see, r.root) = project
  BY AllNowIs, ProjectNow DEF TreeReads
<1>6. Overview(r) = IF SeenProject(see, r.root).ok
                    THEN With1(seen, SeenProject(see, r.root).val) ELSE Error
  BY Zenon DEF Then
<1>7. AcceptancePart(now.tree, git, r.root)
        = IF project.ok THEN OverviewWith(project.val, git, now.tree) ELSE Error
  BY Zenon DEF AcceptancePart, OverviewWith, Then
<1>8. (seen.ok <=> git.ok) /\ (seen.ok => seen.val = git.val)
  BY SourceIs, ResultsAre
<1>9. \A p : With1(seen, p) = OverviewWith(p, git, now.tree)
  <2> TAKE p
  <2>1. With1(seen, p) = IF GitFor(p, seen).ok
                        THEN AcceptanceOverview(p, GitFor(p, seen).val, see["entries"], see["evidence"])
                        ELSE Error
    BY Zenon DEF Then
  <2>2. OverviewWith(p, git, now.tree) = IF GitFor(p, git).ok
                        THEN AcceptanceOverview(p, GitFor(p, git).val, now.tree, now.tree)
                        ELSE Error
    BY Zenon DEF OverviewWith, Then
  <2>3. /\ GitFor(p, seen).ok <=> GitFor(p, git).ok
        /\ GitFor(p, seen).ok => GitFor(p, seen).val = GitFor(p, git).val
    <3> HIDE DEF seen, git
    <3> QED
      BY <1>8 DEF GitFor
  <2> HIDE DEF With1, seen, git, see
  <2> QED
    BY <1>5, <2>1, <2>2, <2>3
<1> HIDE DEF With1, Overview, seen, see, git, project, page
<1> QED
  BY <1>4, <1>5, <1>6, <1>7, <1>9, Zenon DEF page, see, git, source

\* An entry is of its work item.
LEMMA EntryItem ==
    ASSUME NEW p, NEW a, NEW at, NEW records,
           NEW result, result = AcceptanceEntry(p, a, at, records), result.ok
    PROVE  result.val.item = a.item
<1> DEFINE own == ForWorkItem(records, a.item)
           entry(state, pending) ==
              [item |-> a.item, path |-> a.path, evidenceCount |-> Len(own),
               state |-> state, pending |-> pending]
           decided == Evaluate(p.policy, a.item, at.revision, own)
           plain == entry("unconfigured", FALSE)
           waits == entry("waiting", TRUE)
           tells == entry(decided.val.state, FALSE)
<1>1. result = IF p.policy = <<>> THEN Ok(plain)
               ELSE IF ~at.available THEN Ok(waits)
               ELSE IF decided.ok THEN Ok(tells) ELSE Error
  BY Zenon DEF AcceptanceEntry, Then
<1>2. plain.item = a.item /\ waits.item = a.item /\ tells.item = a.item
  <2> HIDE DEF own, decided
  <2> QED
    OBVIOUS
<1> HIDE DEF plain, waits, tells, decided
<1> QED
  BY <1>1, <1>2, ResultsAre

\* What get_acceptance answers for a work item of a repository.
JudgedNow(r, item) ==
    LET p == ProjectAt(now.tree, r.root).val
    IN  EvaluateAcceptance(p, item, GitFor(p, InspectGit(now.git, r.root)).val, now.tree)

\* While nothing changes, get_acceptance answers what is judged now.
LEMMA AcceptanceNow ==
    ASSUME WorldInv, now.catalog.ok, NEW r \in now.catalog.val, ProjectAt(now.tree, r.root).ok,
           GitFor(ProjectAt(now.tree, r.root).val, InspectGit(now.git, r.root)).ok,
           NEW item, FindWorkItem(ProjectAt(now.tree, r.root).val, now.tree, item).ok,
           JudgedNow(r, item).ok
    PROVE  LET one == GetAcceptance(AllNow(r.root), r.id, item)
               result == JudgedNow(r, item)
           IN  /\ one.ok
               /\ one.val.decision = result.val.decision
               /\ one.val.pending = result.val.pending
               /\ one.val.evidenceCount = result.val.evidenceCount
<1> DEFINE p == ProjectAt(now.tree, r.root).val
           git == GitFor(p, InspectGit(now.git, r.root))
           result == EvaluateAcceptance(p, item, git.val, now.tree)
<1>0. /\ git = GitFor(p, InspectGit(now.git, r.root)) /\ git.ok
      /\ p = ProjectAt(now.tree, r.root).val /\ FindWorkItem(p, now.tree, item).ok
      /\ result = EvaluateAcceptance(p, item, git.val, now.tree) /\ result.ok
      /\ result = JudgedNow(r, item)
  BY DEF JudgedNow
<1> HIDE DEF p, git, result
<1> DEFINE see == AllNow(r.root)
           one == GetAcceptance(see, r.id, item)
           found == OfProject(see, r.id)
           both == [repository |-> r, project |-> p]
           answer(x, y) == [policy |-> x.policy, item |-> item, decision |-> y.decision,
                            revision |-> y.revision, pending |-> y.pending,
                            evidenceCount |-> y.evidenceCount]
           Judged(x) == Then(GitFor(x, see["git"]), LAMBDA g :
                           Then(EvaluateAcceptance(x, item, g, see["evidence"]), LAMBDA y :
                              Ok(answer(x, y))))
<1>1. /\ see["items"] = now.tree /\ see["evidence"] = now.tree
      /\ see["git"] = InspectGit(now.git, r.root)
  BY AllNowIs DEF TreeReads
<1>2. found = Ok(both)
  <2>1. SeenRepository(see, r.id) = Ok(r) /\ SeenProject(see, r.root).ok
        /\ SeenProject(see, r.root).val = p
    BY <1>0, FoundNow, ProjectNow
  <2>2. Ok(r).ok /\ Ok(r).val = r
    BY ResultsAre
  <2> HIDE DEF see
  <2>3. found = Then(SeenRepository(see, r.id), LAMBDA x :
                   Then(SeenProject(see, x.root), LAMBDA y : Ok([repository |-> x, project |-> y])))
    BY Zenon DEF OfProject
  <2> HIDE DEF found
  <2>4. found = Then(SeenProject(see, r.root), LAMBDA y : Ok([repository |-> r, project |-> y]))
    BY <2>1, <2>2, <2>3, Zenon DEF Then
  <2> QED
    BY <2>1, <2>2, <2>4, Zenon DEF Then
<1>3. both.project = p
  OBVIOUS
<1>4. found.ok /\ found.val = both
  <2> HIDE DEF found, both
  <2> QED
    BY <1>2, ResultsAre
<1>5. found.val.project = p
  BY <1>3, <1>4, Zenon
<1>6. GetWorkItem(see, r.id, item).ok
  <2>1. GetWorkItem(see, r.id, item) = IF found.ok
            THEN FindWorkItem(found.val.project, see["items"], item) ELSE Error
    BY Zenon DEF GetWorkItem, Then
  <2> HIDE DEF found, see
  <2> QED
    BY <1>0, <1>1, <1>4, <1>5, <2>1
<1>7. one = IF GetWorkItem(see, r.id, item).ok
            THEN IF found.ok THEN Judged(found.val.project) ELSE Error
            ELSE Error
  BY Zenon DEF GetAcceptance, Then
<1>8. Judged(p) = Ok(answer(p, result.val))
  <2>1. Judged(p) = IF GitFor(p, see["git"]).ok
                    THEN IF EvaluateAcceptance(p, item, GitFor(p, see["git"]).val, see["evidence"]).ok
                         THEN Ok(answer(p, EvaluateAcceptance(p, item, GitFor(p, see["git"]).val,
                                                              see["evidence"]).val))
                         ELSE Error
                    ELSE Error
    BY Zenon DEF Then
  <2> HIDE DEF Judged, see, answer
  <2> QED
    BY <1>0, <1>1, <2>1
<1>9. answer(p, result.val).decision = result.val.decision
      /\ answer(p, result.val).pending = result.val.pending
      /\ answer(p, result.val).evidenceCount = result.val.evidenceCount
  OBVIOUS
<1> HIDE DEF Judged, answer, found, one, see
<1>10. one = Ok(answer(p, result.val))
  BY <1>4, <1>5, <1>6, <1>7, <1>8, Zenon
<1>11. one.ok /\ one.val = answer(p, result.val)
  BY <1>10, ResultsAre
<1>12. /\ one.ok /\ one.val.decision = result.val.decision
       /\ one.val.pending = result.val.pending
       /\ one.val.evidenceCount = result.val.evidenceCount
  BY <1>9, <1>11, Zenon
<1> QED
  BY <1>0, <1>12, Zenon DEF one, see

\* What the page of a work item says of its acceptance.
LEMMA SpecPageNow ==
    ASSUME WorldInv, now.catalog.ok, NEW r \in now.catalog.val,
           ProjectAt(now.tree, r.root).ok, NEW p, p = ProjectAt(now.tree, r.root).val, WorkItems(p, now.tree).ok,
           NEW a \in Board(p, now.tree), SourceNow(r.root).ok
    PROVE  LET spec == SpecPage(AllNow(r.root), r.id, a.path, SourceNow(r.root))
           IN  /\ spec.ok
               /\ spec.val.acceptance
                    = EvaluateAcceptance(p, a.item, InspectGit(now.git, r.root).val, now.tree)
<1> DEFINE see == AllNow(r.root)
           source == SourceNow(r.root)
           git == InspectGit(now.git, r.root)
           items == WorkItems(p, now.tree)
           store == ProjectStore(see, r.root)
           spec == SpecPage(see, r.id, a.path, source)
           found == AtPath(items.val, a.path)
           known == RememberedRepository(see, r.id)
           Judged(x, item) == Then(ProjectAt(see["again"], x.root), LAMBDA q :
                                 EvaluateAcceptance(q, item.item, source.val.git, see["evidence"]))
           Page(x, item) == IF ~source.ok THEN Error
                            ELSE Ok([item |-> item, acceptance |-> Judged(x, item)])
<1>1. known.ok /\ known.val = r
  BY RememberedNow, ResultsAre
<1>2. see["again"] = now.tree /\ see["evidence"] = now.tree
  BY AllNowIs DEF TreeReads
<1>3. store = items
  <2>1. ItemsAt(now.tree, r.root) = IF ProjectAt(now.tree, r.root).ok
           THEN WorkItems(ProjectAt(now.tree, r.root).val, now.tree) ELSE Error
    BY Zenon DEF ItemsAt, Then
  <2>2. ItemsAt(now.tree, r.root) = items
    BY <2>1, ResultsAre
  <2> QED
    BY <2>2, StoreNow
<1>4. ListsAll(items.val, Board(p, now.tree), ByItem(Board(p, now.tree)))
      /\ \A x, y \in Board(p, now.tree) : x.path = y.path => x = y
  BY ItemsList, TreeNow
<1>5. /\ Len(items.val) \in Nat /\ DOMAIN items.val = 1..Len(items.val)
      /\ ToSet(items.val) = Board(p, now.tree)
  BY <1>4 DEF ListsAll
<1>6. \E i \in DOMAIN items.val : items.val[i].path = a.path
  BY <1>5 DEF ToSet
<1>7. found.ok /\ found.val = a
  <2> DEFINE s == items.val
             path == a.path
  <2>1. Len(s) \in Nat /\ DOMAIN s = 1..Len(s) /\ \E i \in DOMAIN s : s[i].path = path
    BY <1>5, <1>6
  <2> HIDE DEF s, path
  <2>2. AtPath(s, path).ok /\ AtPath(s, path).val \in ToSet(s) /\ AtPath(s, path).val.path = path
    BY <2>1, PathFound
  <2>3. /\ found.ok /\ found.val \in Board(p, now.tree) /\ found.val.path = a.path
    BY <1>5, <2>2 DEF s, path
  <2> QED
    BY <1>4, <2>3
<1>8. spec = IF known.ok
             THEN IF ProjectStore(see, known.val.root).ok
                  THEN IF AtPath(ProjectStore(see, known.val.root).val, a.path).ok
                       THEN Page(known.val, AtPath(ProjectStore(see, known.val.root).val, a.path).val)
                       ELSE Error
                  ELSE Error
             ELSE Error
  BY Zenon DEF SpecPage, AtPath, Then
<1>9. spec = Page(r, a)
  <2> HIDE DEF known, Page, spec, see
  <2> QED
    BY <1>1, <1>3, <1>7, <1>8, Zenon
<1>10. source.val.git = git.val
  BY SourceIs
<1>11. Judged(r, a) = EvaluateAcceptance(p, a.item, git.val, now.tree)
  <2>1. Judged(r, a) = IF ProjectAt(see["again"], r.root).ok
            THEN EvaluateAcceptance(ProjectAt(see["again"], r.root).val, a.item, source.val.git, see["evidence"])
            ELSE Error
    BY Zenon DEF Then
  <2> HIDE DEF see, source, git, Judged
  <2> QED
    BY <1>2, <1>10, <2>1, ResultsAre
<1> HIDE DEF Judged
<1>12. spec = Ok([item |-> a, acceptance |-> Judged(r, a)])
  BY <1>9, Zenon
<1>13. [item |-> a, acceptance |-> Judged(r, a)].acceptance = Judged(r, a)
  OBVIOUS
<1> HIDE DEF spec
<1>14. spec.ok /\ spec.val = [item |-> a, acceptance |-> Judged(r, a)]
  BY <1>12, ResultsAre, Zenon
<1>15. spec.ok /\ spec.val.acceptance = EvaluateAcceptance(p, a.item, git.val, now.tree)
  BY <1>11, <1>13, <1>14, Zenon
<1> QED
  BY <1>15, Zenon DEF spec, see, source, git

\* Every entry of an overview agrees with the answer and the page of its item.
LEMMA EntryAgreesNow ==
    ASSUME WorldInv, now.catalog.ok, NEW r \in now.catalog.val,
           NEW part, part = AcceptancePart(now.tree, InspectGit(now.git, r.root), r.root), part.ok,
           NEW e \in ToSet(part.val.items), e.item # 0
    PROVE  EntryAgrees(e, r.id, SourceNow(r.root), part.val,
                       GetAcceptance(AllNow(r.root), r.id, e.item),
                       SpecPage(AllNow(r.root), r.id, e.path, SourceNow(r.root)))
<1> DEFINE tree == now.tree
           project == ProjectAt(tree, r.root)
           p == project.val
           seen == InspectGit(now.git, r.root)
           git == GitFor(p, seen)
           g == git.val
           items == WorkItems(p, tree)
           parsed == ParsedItems(items.val)
           results == EntryResults(p, g, tree)
           overview == AcceptanceOverview(p, g, tree, tree)
<1>1. project.ok /\ git.ok /\ overview = part
  <2>1. part = IF project.ok
               THEN IF git.ok THEN overview ELSE Error
               ELSE Error
    BY Zenon DEF AcceptancePart, Then
  <2> HIDE DEF project, git, overview
  <2> QED
    BY <2>1, ResultsAre
<1>2. /\ items.ok /\ OverviewScan(p, tree).ok /\ \A i \in DOMAIN results : results[i].ok
      /\ part.val = OverviewTotals(p, g, tree)
  <2> HIDE DEF p, g, tree
  <2> QED
    BY <1>1, OverviewIs, Zenon
<1>3. /\ part.val.items = [i \in DOMAIN results |-> results[i].val]
      /\ part.val.configured = (p.policy # <<>>)
  <2>1. OverviewTotals(p, g, tree).items = [i \in DOMAIN results |-> results[i].val]
    BY DEF OverviewTotals, AcceptanceTotals
  <2>2. OverviewTotals(p, g, tree).configured = (p.policy # <<>>)
    <3> HIDE DEF p, g, tree
    <3> QED
      BY Zenon DEF OverviewTotals, AcceptanceTotals
  <2> QED
    BY <1>2, <2>1, <2>2, Zenon
<1>4. PICK i \in DOMAIN results : e = results[i].val
  BY <1>3 DEF ToSet
<1> DEFINE a == parsed[i]
<1>5. /\ DOMAIN results = DOMAIN parsed
      /\ results[i] = AcceptanceEntry(p, a, OverviewAt(p, g), OverviewScan(p, tree).val)
  BY <1>4, Zenon DEF EntryResults
<1>6. results[i].ok
  BY <1>2, <1>4
<1>7. /\ ListsAll(items.val, Board(p, tree), ByItem(Board(p, tree)))
      /\ Orders(ByItem(Board(p, tree)), Board(p, tree))
  BY <1>2, ItemsList, TreeNow
<1>8. a \in Board(p, tree)
  <2>1. ListsAll(parsed, {x \in Board(p, tree) : ~x.bad}, ByItem(Board(p, tree)))
    BY <1>7, ItemsParsed
  <2> HIDE DEF parsed
  <2> QED
    BY <1>4, <1>5, <2>1 DEF ListsAll
<1>9. e.item = a.item
  <2> HIDE DEF results, a, p, g, tree
  <2> QED
    BY <1>4, <1>5, <1>6, EntryItem
<1> DEFINE result == results[i]
           one == EvaluateAcceptance(p, a.item, g, tree)
<1>10. /\ result.val.item = a.item /\ result.val.path = a.path
       /\ one.ok
       /\ one.val.decision.state = result.val.state
       /\ one.val.pending = result.val.pending
       /\ p.policy # <<>> => one.val.evidenceCount = result.val.evidenceCount
  <2> DEFINE evidence == DirAt(tree, p.root).evidence
  <2>1. evidence.ok => PossibleFiles(evidence.val)
    BY TreeNow
  <2>2. a.item # 0
    BY <1>9
  <2> HIDE DEF results, a, p, g, tree
  <2> QED
    BY <1>2, <1>5, <1>6, <2>1, <2>2, EntryIs
<1>11. FindWorkItem(p, tree, a.item).ok
  <2> DEFINE s == items.val
             item == a.item
  <2>1. Len(s) \in Nat /\ DOMAIN s = 1..Len(s) /\ ToSet(s) = Board(p, tree)
    BY <1>7 DEF ListsAll
  <2>2. \E j \in DOMAIN s : s[j].item = item
    BY <1>8, <2>1 DEF ToSet
  <2>3. FindWorkItem(p, tree, item) = IF item = 0 THEN Error
            ELSE IF items.ok THEN AtItem(s, item) ELSE Error
    BY Zenon DEF FindWorkItem, Then, AtItem
  <2>4. item # 0
    BY <1>9
  <2> HIDE DEF s, item
  <2>5. AtItem(s, item).ok
    BY <2>1, <2>2, ItemFound
  <2>6. FindWorkItem(p, tree, item).ok
    BY <1>2, <2>3, <2>4, <2>5, Zenon
  <2> QED
    BY <2>6 DEF item
<1> DEFINE answer == GetAcceptance(AllNow(r.root), r.id, a.item)
           spec == SpecPage(AllNow(r.root), r.id, a.path, SourceNow(r.root))
<1>13. /\ answer.ok /\ answer.val.decision = one.val.decision
       /\ answer.val.pending = one.val.pending
       /\ answer.val.evidenceCount = one.val.evidenceCount
  <2> DEFINE item == a.item
             told == GetAcceptance(AllNow(r.root), r.id, item)
  <2>1. one = JudgedNow(r, item)
    BY DEF JudgedNow
  <2>2. /\ ProjectAt(now.tree, r.root).ok /\ JudgedNow(r, item).ok
        /\ GitFor(ProjectAt(now.tree, r.root).val, InspectGit(now.git, r.root)).ok
        /\ FindWorkItem(ProjectAt(now.tree, r.root).val, now.tree, item).ok
    BY <1>1, <1>10, <1>11, <2>1
  <2> HIDE DEF item
  <2>3. /\ told.ok /\ told.val.decision = JudgedNow(r, item).val.decision
        /\ told.val.pending = JudgedNow(r, item).val.pending
        /\ told.val.evidenceCount = JudgedNow(r, item).val.evidenceCount
    BY <2>2, AcceptanceNow
  <2>4. answer = told
    BY DEF item
  <2> HIDE DEF answer, told, one
  <2> QED
    BY <2>1, <2>3, <2>4, Zenon
<1>14. ASSUME SourceNow(r.root).ok
       PROVE  spec.ok /\ spec.val.acceptance.ok
              /\ spec.val.acceptance.val.decision = answer.val.decision
  <2>1. spec.ok /\ spec.val.acceptance = EvaluateAcceptance(p, a.item, seen.val, tree)
    <3>1. project.ok /\ p = ProjectAt(now.tree, r.root).val /\ tree = now.tree
      BY <1>1
    <3> HIDE DEF a, p
    <3> QED
      BY <1>2, <1>8, <1>14, <3>1, SpecPageNow
  <2>2. EvaluateAcceptance(p, a.item, seen.val, tree) = one
    <3>1. CASE p.policy = <<>>
      <4> HIDE DEF a, p, tree, git, seen
      <4> QED
        BY <3>1, GitUnused
    <3>2. CASE p.policy # <<>>
      <4>1. git = seen
        BY <3>2 DEF GitFor
      <4> QED
        BY <4>1
    <3> QED
      BY <3>1, <3>2
  <2> HIDE DEF spec, one, answer
  <2> QED
    BY <1>10, <1>13, <2>1, <2>2
<1>15. answer = GetAcceptance(AllNow(r.root), r.id, e.item)
       /\ spec = SpecPage(AllNow(r.root), r.id, e.path, SourceNow(r.root))
  <2>1. e.item = a.item /\ e.path = a.path
    BY <1>4, <1>10, Zenon
  <2> HIDE DEF a
  <2> QED
    BY <2>1
<1> HIDE DEF answer, spec, one, result
<1>16. /\ answer.ok
       /\ answer.val.decision.state = e.state
       /\ answer.val.pending = e.pending
       /\ part.val.configured => answer.val.evidenceCount = e.evidenceCount
  BY <1>3, <1>4, <1>10, <1>13, Zenon DEF result
<1> HIDE DEF a, p, results
<1> QED
  BY <1>14, <1>15, <1>16, Zenon DEF EntryAgrees

\* The views of one repository agree.
LEMMA OneViewed ==
    ASSUME WorldInv, NEW r \in Recorded
    PROVE  PagesAgree(r.id, AllNow(r.root), SourceNow(r.root),
                      GetRepositoryControlPlane(AllNow(r.root), r.id).val,
                      ProjectPage(AllNow(r.root), r.id, SourceNow(r.root)),
                      AcceptancePage(AllNow(r.root), r.id, SourceNow(r.root)).val.overview)
<1>1. now.catalog.ok /\ r \in now.catalog.val
  BY DEF Recorded
<1> DEFINE all == AllNow(r.root)
           source == SourceNow(r.root)
           git == InspectGit(now.git, r.root)
           part == AcceptancePart(now.tree, git, r.root)
           tool == GetRepositoryControlPlane(all, r.id).val
           page == ProjectPage(all, r.id, source)
           onPage == AcceptancePage(all, r.id, source).val.overview
           own == [execution  |-> RepositoryExecution(History({r})),
                   intent     |-> IntentPart(now.tree, r.root),
                   evidence   |-> EvidencePart(now.tree, r.root),
                   acceptance |-> part]
           parts == {"acceptance", "evidence", "intent", "execution"}
<1>2. tool = own
  BY <1>1, SummaryNow
<1>3. /\ own["execution"] = RepositoryExecution(History({r}))
      /\ own["intent"] = IntentPart(now.tree, r.root)
      /\ own["evidence"] = EvidencePart(now.tree, r.root)
      /\ own["acceptance"] = part /\ own.acceptance = part
  <2> HIDE DEF part
  <2> QED
    OBVIOUS
<1>4. ASSUME page.ok
      PROVE  [p \in parts |-> page.val[p]] = [p \in parts |-> tool[p]]
  <2>1. /\ page.val["execution"] = RepositoryExecution(History({r}))
        /\ page.val["intent"] = IntentPart(now.tree, r.root)
        /\ page.val["evidence"] = EvidencePart(now.tree, r.root)
        /\ page.val["acceptance"] = part
    BY <1>1, <1>4, PageIs
  <2> HIDE DEF page, tool, own, part
  <2>2. \A p \in parts : page.val[p] = tool[p]
    BY <1>2, <1>3, <2>1
  <2> QED
    BY <2>2
<1>5. onPage = part
  BY <1>1, OnPageIs
<1>6. tool.acceptance = part
  <2> HIDE DEF tool, own, part
  <2> QED
    BY <1>2, <1>3, Zenon
<1>7. ASSUME part.ok, NEW e \in ToSet(part.val.items), e.item # 0
      PROVE  EntryAgrees(e, r.id, source, part.val, GetAcceptance(all, r.id, e.item),
                         SpecPage(all, r.id, e.path, source))
  BY <1>1, <1>7, EntryAgreesNow
<1> HIDE DEF all, source, tool, page, onPage, part
<1>8. tool.acceptance.ok =>
         \A e \in {x \in ToSet(tool.acceptance.val.items) : x.item # 0} :
            EntryAgrees(e, r.id, source, tool.acceptance.val, GetAcceptance(all, r.id, e.item),
                        SpecPage(all, r.id, e.path, source))
  BY <1>6, <1>7
<1>9. onPage = tool.acceptance
  BY <1>5, <1>6
<1>10. page.ok => [p \in parts |-> page.val[p]] = [p \in parts |-> tool[p]]
  BY <1>4
<1>11. PagesAgree(r.id, all, source, tool, page, onPage)
  BY <1>8, <1>9, <1>10, Zenon DEF PagesAgree
<1> QED
  BY <1>11 DEF all, source, tool, page, onPage

\* The views of every repository agree.
LEMMA AcceptanceAgrees == WorldInv => AcceptanceViewsAgree
BY OneViewed, Zenon DEF AcceptanceViewsAgree

-----------------------------------------------------------------------------
(* The theorems.                                                           *)

\* For any files that a project may have: config.Init leaves a file that loads,
\* and with it the project keeps the supported convention that was detected
\* without one (config.go:316).
THEOREM InitKeepsConventions == Spec => []InitKeepsConvention
<1> QED
  BY WorldInit, WorldStep, InitConventionKept, PTL DEF Spec

\* For any repositories, work items, evidence and sessions: every total of the
\* Host is the sum of what the repositories say of themselves, and a repository
\* with a blocked or a waiting work item is named (host_control_plane.go:87).
THEOREM HostTotalsAreSums == Spec => []HostTotals
<1> QED
  BY WorldInit, WorldStep, TotalsAgree, PTL DEF Spec

\* For any repositories, policies, evidence and worktrees: the overviews of the
\* repository page, of the acceptance page and of the control-plane tool are
\* one, and every entry says what get_acceptance and the page of the work item
\* say (web/repository_control_plane.go:80, projectstate/project.go:146).
THEOREM AcceptanceViewsOfOneTruth == Spec => []AcceptanceViewsAgree
<1> QED
  BY WorldInit, WorldStep, AcceptanceAgrees, PTL DEF Spec
=============================================================================
