----------------------------- MODULE Conventions -----------------------------
(***************************************************************************)
(* internal/config: what .specview.yaml and the directories of a project   *)
(* say about its specifications and its acceptance policy.  A file is a    *)
(* sequence of lines, a line what the parser distinguishes in it:          *)
(*   [indent, form, key, value], form one of                               *)
(*     "skip"    blank or comment        "header"  text that ends in ":"   *)
(*     "item"    "- value"               "pair"    key: value              *)
(*     "other"   anything else                                             *)
(* Values are trimmed and unquoted.  A path is a sequence of names.        *)
(***************************************************************************)
EXTENDS Integers, Sequences, SequencesExt, FiniteSetsExt, TLC

Ok(v) == [ok |-> TRUE, val |-> v]
Error == [ok |-> FALSE]

\* What follows from a result; an error stays one.
Then(result, Follow(_)) == IF result.ok THEN Follow(result.val) ELSE Error

\* A function with one value more, or changed.
With(f, x, value) == [y \in DOMAIN f \union {x} |-> IF y = x THEN value ELSE f[y]]

\* What f says, and what g says of all else.
Over(f, g) == [x \in DOMAIN f \union DOMAIN g |-> IF x \in DOMAIN f THEN f[x] ELSE g[x]]

\* sort.Slice, by an order in which no two elements are equal; TLC makes the
\* sequence once, for SubSeq, and not anew for each use of an element.
Sorted(S, Before(_, _)) ==
    SubSeq([i \in 1..Cardinality(S) |->
               CHOOSE x \in S : Cardinality({y \in S : Before(y, x)}) = i - 1],
           1, Cardinality(S))

\* The elements of some kind of a sequence: how many there are, all of them in
\* their order, and the first one.
CountIf(s, Test(_)) == Cardinality({i \in DOMAIN s : Test(s[i])})

Kept(s, Test(_)) ==
    LET at == Sorted({i \in DOMAIN s : Test(s[i])}, LAMBDA i, j : i < j)
    IN  [k \in DOMAIN at |-> s[at[k]]]

FirstWhere(s, Test(_)) ==
    LET i == SelectInSeq(s, Test) IN IF i = 0 THEN Error ELSE Ok(s[i])

\* strconv.Atoi on the numerals that occur.
Numerals ==
    [v \in {"0", "1", "2", "3", "80"} |->
        CASE v = "0" -> 0 [] v = "1" -> 1 [] v = "2" -> 2 [] v = "3" -> 3 [] v = "80" -> 80]

Atoi(v) == IF v \in DOMAIN Numerals THEN Ok(Numerals[v]) ELSE Error

\* The values that break a rule of Validate, by the rule they break.
AbsolutePaths == {"/srv"}
SpacedIDs     == {"my id"}
BadPatterns   == {"["}

Keys ==
    ({"project"} \X {"id", "name", "root"})
    \union ({"specs"} \X {"adapter", "path", "pattern"})
    \union ({"server"} \X {"host", "port"})

BlankConfig == [version |-> 0, serverSeen |-> FALSE, required |-> <<>>,
                allowSkipped |-> <<>>, values |-> [k \in Keys |-> ""]]

----------------------------------------------------------------------------
(* Load: the state of the parser is the section, the acceptance list and   *)
(* the configuration so far.                                               *)

ParserStart == [ok |-> TRUE, cfg |-> BlankConfig, section |-> "", list |-> ""]

Fail(s) == [s EXCEPT !.ok = FALSE]

EnterSection(s, name) ==
    [s EXCEPT !.section = name, !.list = "",
              !.cfg.serverSeen = @ \/ name = "server"]

AddCheck(s, check) ==
    IF s.list = "required" THEN [s EXCEPT !.cfg.required = Append(@, check)]
                           ELSE [s EXCEPT !.cfg.allowSkipped = Append(@, check)]

SetVersion(s, l) ==
    IF l.key = "version" /\ Atoi(l.value).ok
    THEN [EnterSection(s, "") EXCEPT !.cfg.version = Atoi(l.value).val]
    ELSE Fail(s)

SetKey(s, l) ==
    LET k == <<s.section, l.key>>
    IN  IF k \in Keys /\ (k = <<"server", "port">> => Atoi(l.value).ok)
        THEN [s EXCEPT !.cfg.values[k] = l.value]
        ELSE Fail(s)

AcceptanceLine(s, l) ==
    CASE l.form = "header" ->
            IF l.indent = 2 /\ l.key \in {"required", "allow_skipped"}
            THEN [s EXCEPT !.list = l.key] ELSE Fail(s)
      [] l.form = "item" ->
            IF l.indent >= 4 /\ s.list # "" /\ l.value # ""
            THEN AddCheck(s, l.value) ELSE Fail(s)

ParseLine(s, l) ==
    IF ~s.ok \/ l.form = "skip" THEN s
    ELSE IF l.indent = 0 /\ l.form = "header" THEN EnterSection(s, l.key)
    ELSE IF s.section = "acceptance" /\ l.form \in {"header", "item"} THEN AcceptanceLine(s, l)
    ELSE IF l.form \in {"item", "other"} THEN Fail(s)
    ELSE IF l.indent = 0 THEN SetVersion(s, l)
    ELSE SetKey(s, l)

Distinct(s) == Cardinality(ToSet(s)) = Len(s)

\* An allowed check is a required one; no check is named twice.
ValidAcceptance(cfg) ==
    /\ "" \notin ToSet(cfg.required)
    /\ Distinct(cfg.required)
    /\ ToSet(cfg.allowSkipped) \subseteq ToSet(cfg.required)
    /\ Distinct(cfg.allowSkipped)

ValidServer(cfg) ==
    CASE cfg.version = 1 ->
            /\ cfg.values[<<"server", "host">>] # ""
            /\ cfg.values[<<"server", "port">>] # ""
            /\ Atoi(cfg.values[<<"server", "port">>]).val \in 1..65535
      [] cfg.version = 2 -> ~cfg.serverSeen
      [] OTHER -> FALSE

ValidConfig(cfg) ==
    /\ ValidServer(cfg)
    /\ cfg.values[<<"project", "id">>] \notin SpacedIDs
    /\ cfg.values[<<"specs", "path">>] \notin AbsolutePaths \union {""}
    /\ cfg.values[<<"specs", "pattern">>] \notin BadPatterns \union {""}
    /\ ValidAcceptance(cfg)

WithDefaults(cfg) ==
    [cfg EXCEPT !.values[<<"project", "root">>] = IF @ = "" THEN "." ELSE @,
                !.values[<<"specs", "adapter">>] = IF @ = "" THEN "specview" ELSE @]

Validated(cfg) == IF ValidConfig(cfg) THEN Ok(cfg) ELSE Error

LoadConfig(lines) ==
    LET end == FoldLeft(ParseLine, ParserStart, lines)
    IN  IF end.ok THEN Validated(WithDefaults(end.cfg)) ELSE Error

AcceptancePolicy(cfg) ==
    [i \in DOMAIN cfg.required |->
        [check |-> cfg.required[i],
         allowSkipped |-> cfg.required[i] \in ToSet(cfg.allowSkipped)]]

ResolveProjectRoot(cfg, root) ==
    LET at == cfg.values[<<"project", "root">>]
    IN  CASE at \in AbsolutePaths -> <<at>>
          [] at = "."  -> root
          [] at = ".." -> Front(root)
          [] OTHER     -> Append(root, at)

----------------------------------------------------------------------------
(* Conventions.  A directory is [config, lines, dirs, ...]: the state of   *)
(* .specview.yaml, its lines, and the paths that are there.  "unreadable"  *)
(* is a file that is there, so that its stat succeeds, and cannot be read; *)
(* a stat that fails for a file that is there is left out.                 *)

SupportedAdapters == {"specview", "github-spec-kit", "openspec"}

Convention(adapter, path) ==
    [adapter |-> adapter, path |-> path, recognized |-> TRUE,
     supported |-> adapter \in SupportedAdapters]

NoConvention == [adapter |-> "", path |-> "", recognized |-> FALSE, supported |-> FALSE]

IsOpenSpecRoot(dirs) ==
    /\ "openspec" \in dirs
    /\ dirs \intersect {"openspec/config.yaml", "openspec/specs", "openspec/changes"} # {}

Detected(dirs) ==
    {c \in {Convention("github-spec-kit", "specs"), Convention("openspec", "openspec"),
            Convention("kiro", ".kiro/specs"), Convention("bmad", "_bmad-output")} :
        CASE c.adapter = "github-spec-kit" -> ".specify" \in dirs
          [] c.adapter = "openspec" -> IsOpenSpecRoot(dirs)
          [] OTHER -> c.path \in dirs}

\* The configuration decides; without one, the only convention that is there.
DetectConvention(dir) ==
    CASE dir.config = "present" ->
            Then(LoadConfig(dir.lines), LAMBDA cfg :
                Ok(Convention(cfg.values[<<"specs", "adapter">>], cfg.values[<<"specs", "path">>])))
      [] dir.config = "unreadable" -> Error
      [] OTHER ->
            LET found == Detected(dir.dirs)
            IN  CASE Cardinality(found) > 1 -> Error
                  [] found = {} -> Ok(NoConvention)
                  [] OTHER -> Ok(CHOOSE c \in found : TRUE)

----------------------------------------------------------------------------
(* config.Init, as what one of its two writes leaves.                      *)

\* Mutant: an OpenSpec project is not detected.
DetectSpecKitOnly(dirs) ==
    Ok(IF ".specify" \in dirs THEN <<"github-spec-kit", "specs">> ELSE <<"specview", "specs">>)

DetectInitConvention(dirs) ==
    LET specKit == ".specify" \in dirs
    IN  IF specKit /\ IsOpenSpecRoot(dirs) THEN Error
        ELSE IF specKit THEN Ok(<<"github-spec-kit", "specs">>)
        ELSE IF IsOpenSpecRoot(dirs) THEN Ok(<<"openspec", "openspec">>)
        ELSE Ok(<<"specview", "specs">>)

Line(indent, form, key, value) ==
    [indent |-> indent, form |-> form, key |-> key, value |-> value]

InitialConfig(adapter, path) ==
    << Line(0, "pair", "version", "2"),
       Line(0, "header", "project", ""),
       Line(2, "pair", "name", ""), Line(2, "pair", "root", "."),
       Line(0, "header", "specs", ""),
       Line(2, "pair", "adapter", adapter), Line(2, "pair", "path", path),
       Line(2, "pair", "pattern", "*.md") >>
=============================================================================
