------------------------------ MODULE WebPages ------------------------------
(***************************************************************************)
(* internal/web: what the pages of one repository show.  They take the     *)
(* repository from the catalog in memory, the rest from the same files as  *)
(* the control-plane reader, on a path of their own.  source is what the   *)
(* source-control service said, Ok([git, forge]) or Error.                 *)
(***************************************************************************)
EXTENDS ControlPlane

RememberedRepository(see, id) ==
    LET known == {r \in see["catalog"].val : r.id = id}
    IN  IF known = {} THEN Error ELSE Ok(CHOOSE r \in known : TRUE)

NoStore == [ok |-> FALSE, none |-> TRUE]

\* projectStore: NoStore where there is no convention it can show.
ProjectStore(see, root) ==
    LET Shown(detected) ==
            IF ~detected.ok THEN NoStore
            ELSE IF ~detected.val.recognized \/ ~detected.val.supported THEN NoStore
            ELSE Then(SeenProject(see, root), LAMBDA p : WorkItems(p, see["items"]))
    IN  Shown(DetectConvention(DirAt(see["convention"], root)))

\* The page of a repository, with the summary its template asks for.
ProjectPage(see, id, source) ==
    LET Page(repository, store, project) ==
            IF (~store.ok /\ store # NoStore) \/ ~source.ok THEN Error
            ELSE Ok([source     |-> source.val,
                     intent     |-> Then(store, LAMBDA items : Ok(IntentCounts(items))),
                     execution  |-> RepositoryExecution(History({repository})),
                     evidence   |-> Then(project, LAMBDA p :
                         EvidenceOverview(p, see["records"], see["titles"])),
                     acceptance |-> Then(project, LAMBDA p :
                         AcceptanceOverview(p, source.val.git, see["entries"],
                                            see["evidence"]))])
    IN  Then(RememberedRepository(see, id), LAMBDA r :
            Page(r, ProjectStore(see, r.root), ProjectAt(see["again"], r.root)))

\* The page of one work item, found by its path.
SpecPage(see, id, path, source) ==
    LET Page(r, item) ==
            IF ~source.ok THEN Error
            ELSE Ok([item |-> item,
                     acceptance |-> Then(ProjectAt(see["again"], r.root), LAMBDA p :
                         EvaluateAcceptance(p, item.item, source.val.git, see["evidence"]))])
    IN  Then(RememberedRepository(see, id), LAMBDA r :
            Then(ProjectStore(see, r.root), LAMBDA items :
                Then(FirstWhere(items, LAMBDA a : a.path = path), LAMBDA item :
                    Page(r, item))))

EvidencePage(see, id) ==
    Then(RememberedRepository(see, id), LAMBDA r :
        Ok([overview |-> Then(SeenProject(see, r.root), LAMBDA p :
                             EvidenceOverview(p, see["records"], see["titles"]))]))

AcceptancePage(see, id, source) ==
    LET Overview(p, seen) ==
            Then(GitFor(p, seen), LAMBDA git :
                AcceptanceOverview(p, git, see["entries"], see["evidence"]))
        seen == IF source.ok THEN Ok(source.val.git) ELSE Error
    IN  Then(RememberedRepository(see, id), LAMBDA r :
            Ok([overview |-> Then(SeenProject(see, r.root), LAMBDA p : Overview(p, seen))]))
----------------------------------------------------------------------------
(* The history and the page of a federated Host.                           *)

\* One repository's part of the history; the catalog is looked at twice.
HistoryPage(see, id) ==
    Then(RememberedRepository(see, id), LAMBDA r :
        Ok(SelectSeq(History(see["history"].val), LAMBDA e : e.repositoryID = r.id)))

SessionPage(see, id, session) ==
    Then(see["history"], LAMBDA repositories : FindExecution(History(repositories), id, session))

\* Mutant: the repositories of all Hosts are linked to.
LinkedToAnyHost(projection, hostID) ==
    UNION {RepositoriesForHost(projection, h.hostID) : h \in ToSet(projection.hosts)}

LinkedRepositories(projection, hostID) == RepositoriesForHost(projection, hostID)

\* What needs attention on a Host links to the only instance of it that came
\* from the repository of that ID; there is no link to none or several.
FederationHostPage(projection, hostID) ==
    LET shown == LinkedRepositories(projection, hostID)
        From(item) == {r \in shown : r.instance.source = item.id}
        Href(same) == IF Cardinality(same) = 1 THEN (CHOOSE r \in same : TRUE).instance.id
                                               ELSE <<>>
        Attention(host) ==
            IF host.controlPlane = NoControlPlane THEN {}
            ELSE {[item |-> a, href |-> Href(From(a))] : a \in host.controlPlane.attention}
    IN  Then(SelectHost(projection, hostID), LAMBDA host :
            Ok([host |-> host, repositories |-> shown, attention |-> Attention(host)]))
=============================================================================
