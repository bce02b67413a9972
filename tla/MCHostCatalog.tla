---------------------------- MODULE MCHostCatalog ----------------------------
(***************************************************************************)
(* Small instances of HostCatalog.  Roots 2 and 3 are two spellings of one *)
(* directory; repository 9 is a legacy record.  The first file is missing, *)
(* or an old catalog with one record and two live process fragments, or    *)
(* one with two records for the same directory.                            *)
(***************************************************************************)
EXTENDS HostCatalog

MCRoot == {2, 3}
MCPlaceOf == [r \in Root |-> "a"]
MCOneEach ==    \* process 1 is Codex, process 2 Claude
  [p \in Pid |-> [adapter: IF p = 1 THEN {"codex"} ELSE {"claude"},
                  root: Root, cwd: Cwd]]
MCMixed ==      \* process 1 is Codex in one spelling, process 2 either agent in the other
  [p \in Pid |-> IF p = 1 THEN [adapter: {"codex"}, root: {3}, cwd: Cwd]
                 ELSE [adapter: Adapter, root: {2}, cwd: Cwd]]
MCLegacyRepo == {9}
MCLegacyID == {<<"v1", 1>>, <<"v1", 2>>}
MCAgentOf == [x \in Adapter |-> IF x = "codex" THEN "Codex" ELSE "Claude"]
MCLegacyAdapter ==
  [x \in Agent |-> IF x = "Codex" THEN "codex"
                   ELSE IF "claude" \in Adapter THEN "claude" ELSE "legacy"]

Fragment(agent, pid, started, ended) ==
  [kind |-> "v1", adapter |-> "legacy", agent |-> agent, pids |-> {pid} \cap Pid,
   started |-> started, seen |-> 2, ended |-> ended, active |-> ended = 0]

OldRepository(root) == [root |-> root, convention |-> "none", seen |-> 2]

NoFile == [version |-> 0, repos |-> <<>>, sessions |-> <<>>]

FragmentsFile ==
  [version |-> 1, repos |-> [id \in {9} |-> OldRepository(3)],
   sessions |-> [k \in {9} \X LegacyID |->
                   IF k[2][2] = 1 THEN Fragment("Codex", 1, 1, 0)
                   ELSE Fragment("Claude", 2, 0, 0)]]

TwinsFile ==
  [version |-> 1, repos |-> [id \in {2, 9} |-> OldRepository(IF id = 2 THEN 2 ELSE 3)],
   sessions |-> [k \in {<<9, <<"v1", 1>>>>} |-> Fragment("Codex", 1, 1, 2)]]

MCFirstFile == {NoFile, FragmentsFile, TwinsFile}

\* The convention of the directory changes late, and where there is only the
\* record of root 3; elsewhere there is none.
Detected(ex) ==
  IF now = MaxTime /\ DOMAIN repos \subseteq {3} /\ \A x \in ex : x.root = 3
  THEN [Place -> Convention] ELSE {[p \in Place |-> "none"]}

MCNext ==
  \/ \E ex \in Scans, writable \in BOOLEAN : \E conv \in Detected(ex) : Observe(ex, conv, writable)
  \/ \E ex \in Scans : \E conv \in Detected(ex) : AbortedObserve(ex, conv)
  \/ \E writable \in BOOLEAN : Flush(writable)
  \/ Restart
  \/ Tick

MCSpec == Init /\ [][MCNext]_vars
==============================================================================
