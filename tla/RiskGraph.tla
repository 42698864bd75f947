----------------------------- MODULE RiskGraph -----------------------------
(***************************************************************************)
(* GraphService: nodes and edges of an organisation's risk graph.  An edge *)
(* is checked against the graph that was loaded and then inserted; the     *)
(* database itself only knows that a triple is unique.  Every request is a *)
(* process and each awaited repository call is one step.                   *)
(***************************************************************************)
EXTENDS Scenarios, FiniteSets

CONSTANTS
  Organisation,  \* tenants
  Node,          \* ids of nodes
  TypeOf,        \* the type a node is created with
  OwnerOf,       \* the organisation that creates it
  Candidates,    \* the edges that callers ask for
  AskedDepth,    \* the depths that callers of the queries ask for
  Request,       \* slots for requests that are handled concurrently
  None           \* no value

VARIABLES
  nodes,  \* the RiskNode rows
  edges,  \* the RiskEdge rows
  audit,  \* the AuditRecords of nodes and edges
  req,    \* where each request is in its handler, and what it has read
  raced   \* history: organisations in which createEdge calls overlapped

vars == <<nodes, edges, audit, req, raced>>

Edge == [type : EdgeTypes, from : Node, to : Node, inferred : BOOLEAN]

ASSUME RiskGraphAssumption ==
  /\ TypeOf \in [Node -> NodeTypes]
  /\ OwnerOf \in [Node -> Organisation]
  /\ Candidates \subseteq Edge
  /\ AskedDepth \subseteq Int
  /\ None \notin Edge \cup Node

Idle == [pc |-> "idle", edge |-> None, seen |-> {}]

At(r, pc) == req[r].pc = pc
Become(r, q) == req' = [req EXCEPT ![r] = q]

(* The repository's createNode and findNode. *)
InsertNode(n) == nodes' = nodes \cup {n}
Found(n) == n \in nodes

OwnNodes(org) == {n \in nodes : OwnerOf[n] = org}
OrgOf(r) == OwnerOf[req[r].edge.from]

(* loadSubgraph's second query: the edges between the nodes of the first. *)
EdgesAmong(N) == {e \in edges : e.from \in N /\ e.to \in N}
OwnEdges(org) == EdgesAmong(OwnNodes(org))

(* A call that holds what it read until it inserts. *)
Checking(r) == req[r].pc \in {"edge.load", "edge.insert"}

-----------------------------------------------------------------------------
(* createNode: the type is one of the ontology, the provenance well-formed. *)
CreateNode(r, n) ==
  /\ At(r, "idle")
  /\ ~ Found(n)
  /\ InsertNode(n)
  /\ Become(r, [Idle EXCEPT !.pc = "node.audit"])
  /\ UNCHANGED <<edges, audit, raced>>

(* createEdge: both nodes are found and are the caller's.  Nodes are never *)
(* changed or deleted, so the two reads are one step.                      *)
CreateEdge(r, org, e) ==
  /\ At(r, "idle")
  /\ Found(e.from) /\ Found(e.to)
  /\ OwnerOf[e.from] = org /\ OwnerOf[e.to] = org
  /\ Become(r, [Idle EXCEPT !.pc = "edge.nodes", !.edge = e])
  /\ UNCHANGED <<nodes, edges, audit, raced>>

(* loadSubgraph's first query; a call that reads while another one of the  *)
(* organisation holds what it read is remembered.                          *)
LoadNodes(r) ==
  /\ At(r, "edge.nodes")
  /\ Become(r, [req[r] EXCEPT !.pc = "edge.load", !.seen = OwnNodes(OrgOf(r))])
  /\ raced' = IF \E s \in Request : Checking(s) /\ OrgOf(s) = OrgOf(r)
              THEN raced \cup {OrgOf(r)} ELSE raced
  /\ UNCHANGED <<nodes, edges, audit>>

(* The second query, and graph.addEdge on what was loaded. *)
LoadAndCheck(r) ==
  LET e == req[r].edge IN
  /\ At(r, "edge.load")
  /\ \E F \in LoadedGraphs(EdgesAmong(req[r].seen), TypeOf) :
       Become(r, IF Addable(F, TypeOf, e)
                 THEN [Idle EXCEPT !.pc = "edge.insert", !.edge = e] ELSE Idle)
  /\ UNCHANGED <<nodes, edges, audit, raced>>

(* repository.createEdge: the unique index on type and end points is all   *)
(* that the database checks; the graph may have changed since the load.    *)
InsertEdge(r) ==
  LET e == req[r].edge IN
  /\ At(r, "edge.insert")
  /\ IF \E f \in edges : f.type = e.type /\ f.from = e.from /\ f.to = e.to
     THEN Become(r, Idle) /\ UNCHANGED edges
     ELSE /\ edges' = edges \cup {e}
          /\ Become(r, [Idle EXCEPT !.pc = "edge.audit", !.edge = e])
  /\ UNCHANGED <<nodes, audit, raced>>

(* audit.record *)
Record(r) ==
  /\ req[r].pc \in {"node.audit", "edge.audit"}
  /\ audit' = IF At(r, "edge.audit") THEN audit \cup {req[r].edge} ELSE audit
  /\ Become(r, Idle)
  /\ UNCHANGED <<nodes, edges, raced>>

Step(r) == LoadNodes(r) \/ LoadAndCheck(r) \/ InsertEdge(r) \/ Record(r)

Call(r) ==
  \/ \E n \in Node : CreateNode(r, n)
  \/ \E org \in Organisation, e \in Candidates : CreateEdge(r, org, e)

Init ==
  /\ nodes = {}
  /\ edges = {}
  /\ audit = {}
  /\ req = [r \in Request |-> Idle]
  /\ raced = {}

Next == \E r \in Request : Call(r) \/ Step(r)

Spec == Init /\ [][Next]_vars

-----------------------------------------------------------------------------
(* Type invariant. *)
TypeOK ==
  /\ nodes \subseteq Node
  /\ edges \subseteq Edge
  /\ audit \subseteq Edge
  /\ raced \subseteq Organisation
  /\ req \in [Request -> [pc : {"idle", "node.audit", "edge.nodes", "edge.load", "edge.insert",
                                "edge.audit"},
                          edge : Edge \cup {None}, seen : SUBSET Node]]
  /\ \A r \in Request : ~ req[r].pc \in {"idle", "node.audit"} => req[r].edge # None

(* What an edge must be: it joins two nodes of one organisation by a       *)
(* triple of the ontology.                                                 *)
Legal(e) ==
  /\ e.from \in nodes /\ e.to \in nodes
  /\ OwnerOf[e.from] = OwnerOf[e.to]
  /\ EdgeAllowed(e.type, TypeOf[e.from], TypeOf[e.to])

(* Every stored edge is legal, whatever requests overlapped. *)
EdgesLegal == \A e \in edges : Legal(e)

(***************************************************************************)
(* Dependencies have no cycle, as long as no two createEdge calls of the   *)
(* organisation overlapped: each of two edges can be fine alone.           *)
(***************************************************************************)
DependenciesAcyclic == \A org \in Organisation \ raced : Acyclic(OwnEdges(org))

(* loadGraph skips no stored edge: every query is answered on the whole    *)
(* graph, unless requests of the organisation overlapped.                  *)
NothingSkipped ==
  \A org \in Organisation \ raced :
    LoadedGraphs(OwnEdges(org), TypeOf) = {OwnEdges(org)}

(* The call that is checking an edge is alone in its organisation, what it *)
(* read is complete, and the check still holds when it inserts.            *)
ChecksStand ==
  \A r \in Request : Checking(r) /\ OrgOf(r) \notin raced =>
    /\ \A s \in Request : Checking(s) /\ OrgOf(s) = OrgOf(r) => s = r
    /\ At(r, "edge.load") => EdgesAmong(req[r].seen) = OwnEdges(OrgOf(r))
    /\ At(r, "edge.insert") => Addable(OwnEdges(OrgOf(r)), TypeOf, req[r].edge)

(* An edge is under way only if its end points are the caller's nodes. *)
CallersLegal ==
  \A r \in Request : ~ req[r].pc \in {"idle", "node.audit"} =>
    LET e == req[r].edge IN
    /\ e.from \in nodes /\ e.to \in nodes /\ OwnerOf[e.from] = OwnerOf[e.to]
    /\ At(r, "edge.load") => req[r].seen \subseteq OwnNodes(OrgOf(r))
    /\ At(r, "edge.insert") => Legal(e)

(* What is stored is legal and acyclic, and what is under way keeps it so. *)
Inv == TypeOK /\ EdgesLegal /\ DependenciesAcyclic /\ NothingSkipped /\ ChecksStand /\ CallersLegal

-----------------------------------------------------------------------------
(***************************************************************************)
(* The questions.  They only read, so it is enough to ask them when no     *)
(* request is under way; scopedGraph answers on the graph of the owner of  *)
(* the node that is asked about, which loadGraph may have cut.             *)
(***************************************************************************)
Quiet == \A r \in Request : At(r, "idle")

Asked == {[maxDepth |-> ScopeDepth(n), verifiedOnly |-> v] : n \in AskedDepth, v \in BOOLEAN}

OnLoadedGraphs(Holds(_, _, _)) ==
  Quiet => \A org \in Organisation, opt \in Asked :
    \A F \in LoadedGraphs(OwnEdges(org), TypeOf) : Holds(F, OwnNodes(org), opt)

(* dependsOn and dependents tell the same story, depth by depth. *)
DependenciesAreDual ==
  LET H(F, N, opt) == Dual(F, Assets(N, TypeOf), opt) IN OnLoadedGraphs(H)

(* Queries and the check of a new edge agree on what depends on what. *)
TraversalAgrees ==
  LET H(F, N, opt) ==
        LET A == Assets(N, TypeOf) IN
        Agrees(F, A, [opt EXCEPT !.maxDepth = IF A = {} THEN 0 ELSE Cardinality(A) - 1])
  IN  OnLoadedGraphs(H)

(* Who is exposed to a risk and what can fail for whom are consistent. *)
ExposureFollowsFailure ==
  LET H(F, N, opt) == ExposedThroughFailure(F, N, TypeOf, opt) IN OnLoadedGraphs(H)

(* Correlation does not depend on which of two entities asks. *)
CorrelationIsMutual ==
  LET H(F, N, opt) == SymmetricCorrelation(F, Entities(N, TypeOf), opt) IN OnLoadedGraphs(H)

(* Verified answers about dependencies and losses rest on no inferred edge. *)
VerifiedRestsOnVerified ==
  LET H(F, N, opt) == RestsOnVerified(F, N, TypeOf, opt.maxDepth) IN OnLoadedGraphs(H)

(* The picture of a risk leaves out nothing that the ontology allows. *)
PictureIsWhole ==
  LET H(F, N, opt) == WholePicture(F, N, TypeOf, opt) IN OnLoadedGraphs(H)

(* The queries of graph.ts and queries.ts agree with each other, with the  *)
(* ontology and with the check of new edges, on every graph loadGraph      *)
(* returns and at every depth a caller may ask for.                        *)
QueriesAgree ==
  /\ DependenciesAreDual /\ TraversalAgrees /\ ExposureFollowsFailure
  /\ CorrelationIsMutual /\ VerifiedRestsOnVerified /\ PictureIsWhole

(***************************************************************************)
(* A simulation never disagrees with the graph about what depends on what: *)
(* it exposes those for whom the trigger can fail.                         *)
(***************************************************************************)
ScenarioFollowsFailure ==
  Quiet => \A org \in Organisation : \A F \in LoadedGraphs(OwnEdges(org), TypeOf) :
    FollowsFailure(F, OwnNodes(org), TypeOf)

(* A scenario further down a chain of dependencies is not the milder one,  *)
(* for what both can see.                                                  *)
ScenarioSpreads ==
  Quiet => \A org \in Organisation : \A F \in LoadedGraphs(OwnEdges(org), TypeOf) :
    Spreads(F, OwnNodes(org), TypeOf)

(* The insured side of a simulation rests on a cover that is in the graph. *)
ScenarioInsuredIsCovered ==
  Quiet => \A org \in Organisation : \A F \in LoadedGraphs(OwnEdges(org), TypeOf) :
    InsuredIsCovered(F, OwnNodes(org), TypeOf)

(* Scenarios agree with the queries, with each other and with the covers. *)
ScenariosAgree == ScenarioFollowsFailure /\ ScenarioSpreads /\ ScenarioInsuredIsCovered
=============================================================================
