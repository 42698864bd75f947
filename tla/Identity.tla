------------------------------ MODULE Identity ------------------------------
(***************************************************************************)
(* Who may act: IdentityService keeps organisations, credentials, linked   *)
(* users and the mandates of agents; ApiCredentialGuard resolves the       *)
(* caller of every request; AgentService.mandateCheck gates what an agent  *)
(* does.  A request reads credential, organisation, mandate and principal  *)
(* one after the other while administrators change them.                   *)
(*                                                                         *)
(* An administrator's call reads a row, checks fields of it that never     *)
(* change and writes, so it is one step.                                   *)
(***************************************************************************)
EXTENDS Integers, Sequences

CONSTANTS
  Organisation,      \* ids of organisations
  Credential,        \* key ids, and subjects of the OIDC provider
  CredentialInputs,  \* what credentials and users are issued with
  MandateInputs,     \* what mandates are issued with
  Endpoints,         \* routes: required scope and roles, and the mandate action
  Values,            \* values of transactions
  Answers,           \* what Didit answers about an organisation
  Request,           \* slots for requests that are handled concurrently
  Production,        \* TRUE if NODE_ENV is production
  MaxMandates,       \* bound: mandates issued
  MaxTime,           \* bound: the clock
  None               \* no value

VARIABLES
  org,      \* the Organisation rows
  cred,     \* the ApiCredential rows and the linked User rows
  mandate,  \* the AgentMandate rows, oldest first
  now,      \* the clock
  audit,    \* the AuditRecords of mandate checks, as <<credential, action, value>>
  reports,  \* the AuditRecords of compliance checks and webhooks, as <<organisation, verdict>>
  decided,  \* history: what an administrator last decided about an organisation
  req       \* where each request is, and what it has resolved

compliance == <<reports, decided>>
vars == <<org, cred, mandate, now, audit, compliance, req>>

Kinds == {"COMPANY", "AI_AGENT"}
SubjectKinds == {"USER", "SERVICE", "AGENT"}
KybStatus == {"UNVERIFIED", "VERIFIED", "REJECTED"}
DiditStatus == {"Approved", "Declined", "In Review"}
Verdicts == {"NOT_INTEGRATED", "VERIFIED", "REJECTED", "REQUIRES_REVIEW"}
Role == UNION {e.roles : e \in Endpoints}
Scope == {e.scope : e \in Endpoints} \cup {"*"}
Action == {e.action : e \in Endpoints} \ {None}
Time == 0 .. MaxTime

OrganisationRow ==
  [kind : Kinds, principal : Organisation \cup {None}, kyb : KybStatus, roles : SUBSET Role]
CredentialInput ==
  [org : Organisation, kind : SubjectKinds \cup {None}, scopes : SUBSET Scope,
   expires : Time \cup {None}, oidc : BOOLEAN]
CredentialRow ==
  [org : Organisation, kind : SubjectKinds, scopes : SUBSET Scope,
   expires : Time \cup {None}, oidc : BOOLEAN, revoked : BOOLEAN]
MandateInput == [actions : SUBSET Action, max : Nat, expires : Time]
MandateRow ==
  [agent : Organisation, principal : Organisation, actions : SUBSET Action, max : Nat,
   expires : Time, revoked : BOOLEAN]

(* Where a request is, and what of it has been revoked since it was read. *)
RequestState ==
  [pc : {"idle", "organisation", "mandate", "principal", "audit", "act"},
   cred : Credential \cup {None}, route : Endpoints \cup {None},
   value : Values \cup {0}, mandate : 0 .. MaxMandates, checked : Time,
   late : SUBSET {"credential", "mandate"}]

ASSUME IdentityAssumption ==
  /\ MaxMandates \in Nat /\ MaxTime \in Nat
  /\ Values \subseteq Nat
  /\ Production \in BOOLEAN
  /\ None \notin Organisation \cup Credential
  /\ Answers \subseteq [key : {"key", None}, companies : Nat, status : DiditStatus]
  /\ CredentialInputs \subseteq CredentialInput
  /\ MandateInputs \subseteq MandateInput

(* No value is not taken for a row of a table or a route. *)
ASSUME RowAssumption ==
  /\ None \notin OrganisationRow \cup CredentialRow
  /\ None \notin Endpoints

Idle == [pc |-> "idle", cred |-> None, route |-> None, value |-> 0, mandate |-> 0,
         checked |-> 0, late |-> {}]

At(r, pc) == req[r].pc = pc
Become(r, q) == req' = [req EXCEPT ![r] = q]
OrgOf(r) == cred[req[r].cred].org
IsAgent(r) == cred[req[r].cred].kind = "AGENT"

Exists(o) == org[o] # None

(* The writes of the identity repository.  A role is granted once, however *)
(* often it is asked for; revoking what is revoked changes nothing more.   *)
InsertOrganisation(o, kind, principal) ==
  org' = [org EXCEPT ![o] = [kind |-> kind, principal |-> principal, kyb |-> "UNVERIFIED",
                             roles |-> {}]]
UpsertRole(o, role) == org' = [org EXCEPT ![o].roles = @ \cup {role}]
UpdateKybStatus(o, status) == org' = [org EXCEPT ![o].kyb = status]
InsertCredential(c, row) == cred' = [cred EXCEPT ![c] = row]
UpdateRevokedAt(c) == cred' = [cred EXCEPT ![c].revoked = TRUE]
InsertUser(c, row) == cred' = [cred EXCEPT ![c] = row]
InsertMandate(row) == mandate' = Append(mandate, row)
UpdateMandateRevokedAt(m) == mandate' = [mandate EXCEPT ![m].revoked = TRUE]

(* Its reads: findCredentialByKeyId for a key, findUserByOidcSubject for a *)
(* person who signs in.                                                    *)
Expired(c) == cred[c].expires # None /\ cred[c].expires <= now
FoundKey(c) == cred[c] # None /\ ~ cred[c].oidc
FoundUser(c) == cred[c] # None /\ cred[c].oidc
FindMandateById(m) == mandate[m]

-----------------------------------------------------------------------------
(* createOrganisation: an agent needs a principal that is not an agent. *)
CreateOrganisation(o, kind, principal) ==
  /\ ~ Exists(o)
  /\ kind = "AI_AGENT" =>
       principal # None /\ Exists(principal) /\ org[principal].kind # "AI_AGENT"
  /\ InsertOrganisation(o, kind, principal)
  /\ UNCHANGED <<cred, mandate, now, audit, compliance, req>>

(* grantRole; there is no operation that takes a role away. *)
GrantRole(o, role) ==
  /\ Exists(o)
  /\ UpsertRole(o, role)
  /\ UNCHANGED <<cred, mandate, now, audit, compliance, req>>

(* setKybStatus: an explicit decision of an administrator. *)
SetKybStatus(o, status) ==
  /\ Exists(o)
  /\ UpdateKybStatus(o, status)
  /\ decided' = [decided EXCEPT ![o] = status]
  /\ UNCHANGED <<cred, mandate, now, audit, reports, req>>

(***************************************************************************)
(* What a check by Didit concludes: of the first company its search finds, *)
(* and only a plain "Approved" is VERIFIED.  Without a key the null        *)
(* provider says NOT_INTEGRATED; a call that fails concludes nothing.      *)
(***************************************************************************)
Verdict(answer) ==
  CASE answer.key = None            -> "NOT_INTEGRATED"
    [] answer.companies = 0         -> "REQUIRES_REVIEW"
    [] answer.status = "Approved"   -> "VERIFIED"
    [] answer.status = "Declined"   -> "REJECTED"
    [] OTHER                        -> "REQUIRES_REVIEW"

(* Mutant of RunComplianceChecks: the verdict of the provider is applied. *)
RunComplianceChecksApplied(o, answer) ==
  /\ Exists(o)
  /\ reports' = reports \cup {<<o, Verdict(answer)>>}
  /\ org' = [org EXCEPT ![o].kyb = IF Verdict(answer) = "VERIFIED" THEN "VERIFIED" ELSE @]
  /\ UNCHANGED <<cred, mandate, now, audit, decided, req>>

(* runComplianceChecks: what the provider reports is recorded, no more. *)
RunComplianceChecks(o, answer) ==
  /\ Exists(o)
  /\ reports' = reports \cup {<<o, Verdict(answer)>>}
  /\ UNCHANGED <<org, cred, mandate, now, audit, decided, req>>

(***************************************************************************)
(* diditWebhook: the outcome of a hosted session, signed by Didit, for the *)
(* organisation that its vendor data names, known here or not; it may come *)
(* more than once and in any order.                                        *)
(***************************************************************************)
DiditWebhook(o, status) ==
  /\ reports' = reports \cup {<<o, status>>}
  /\ UNCHANGED <<org, cred, mandate, now, audit, decided, req>>

(* issueCredential, for a service unless told otherwise. *)
IssueCredential(c, input) ==
  /\ ~ input.oidc
  /\ cred[c] = None
  /\ Exists(input.org)
  /\ InsertCredential(c,
       [org |-> input.org, kind |-> IF input.kind = None THEN "SERVICE" ELSE input.kind,
        scopes |-> input.scopes, expires |-> input.expires, oidc |-> FALSE, revoked |-> FALSE])
  /\ UNCHANGED <<org, mandate, now, audit, compliance, req>>

(* provisionOidcUser: a person is linked to a subject of the provider. *)
ProvisionOidcUser(c, input) ==
  /\ input.oidc
  /\ cred[c] = None
  /\ Exists(input.org)
  /\ InsertUser(c,
       [org |-> input.org, kind |-> "USER", scopes |-> input.scopes,
        expires |-> input.expires, oidc |-> TRUE, revoked |-> FALSE])
  /\ UNCHANGED <<org, mandate, now, audit, compliance, req>>

(* The requests that go on with what has just been revoked. *)
Late(Uses(_), what) ==
  [r \in Request |-> IF ~ At(r, "idle") /\ Uses(r)
                     THEN [req[r] EXCEPT !.late = @ \cup {what}] ELSE req[r]]

(* revokeCredential; a linked user cannot be revoked. *)
RevokeCredential(c) ==
  /\ FoundKey(c)
  /\ UpdateRevokedAt(c)
  /\ req' = LET Uses(r) == req[r].cred = c IN Late(Uses, "credential")
  /\ UNCHANGED <<org, mandate, now, audit, compliance>>

(* createMandate: by the principal of an agent, for that agent. *)
CreateMandate(by, agent, input) ==
  /\ Len(mandate) < MaxMandates
  /\ Exists(by) /\ Exists(agent)
  /\ org[agent].kind = "AI_AGENT" /\ org[agent].principal = by
  /\ InsertMandate([agent |-> agent, principal |-> org[agent].principal,
       actions |-> input.actions, max |-> input.max, expires |-> input.expires,
       revoked |-> FALSE])
  /\ UNCHANGED <<org, cred, now, audit, compliance, req>>

(* revokeMandate: by the principal; a second time changes nothing more. *)
RevokeMandate(by, m) ==
  /\ FindMandateById(m).principal = by
  /\ UpdateMandateRevokedAt(m)
  /\ req' = LET Uses(r) == req[r].mandate = m IN Late(Uses, "mandate")
  /\ UNCHANGED <<org, cred, now, audit, compliance>>

(* listMandates' status of a mandate. *)
MandateStatus(m) ==
  CASE mandate[m].revoked -> "REVOKED"
    [] ~ mandate[m].revoked /\ mandate[m].expires <= now -> "EXPIRED"
    [] OTHER -> "ACTIVE"

Tick ==
  /\ now < MaxTime
  /\ now' = now + 1
  /\ UNCHANGED <<org, cred, mandate, audit, compliance, req>>

-----------------------------------------------------------------------------
(* Mutant of FindCredential: revokedAt is not looked at. *)
FindCredentialRevoked(r, c, route, value) ==
  /\ At(r, "idle")
  /\ cred[c] # None
  /\ ~ Expired(c)
  /\ Become(r, [Idle EXCEPT !.pc = "organisation", !.cred = c, !.route = route, !.value = value])
  /\ UNCHANGED <<org, cred, mandate, now, audit, compliance>>

(* resolve: the key is found and is valid; resolveOidc: the token is still *)
(* good and the subject is linked to a person.                             *)
FindCredential(r, c, route, value) ==
  /\ At(r, "idle")
  /\ (FoundKey(c) /\ ~ cred[c].revoked) \/ FoundUser(c)
  /\ ~ Expired(c)
  /\ Become(r, [Idle EXCEPT !.pc = "organisation", !.cred = c, !.route = route, !.value = value])
  /\ UNCHANGED <<org, cred, mandate, now, audit, compliance>>

(* hasScope, "*" being every scope. *)
HasScope(r, scope) == {scope, "*"} \cap cred[req[r].cred].scopes # {}

(* canActivate: the scope of the route, and one of its roles if it has any. *)
Admitted(r) ==
  LET route == req[r].route IN
  /\ HasScope(r, route.scope)
  /\ route.roles # {} => route.roles \cap org[OrgOf(r)].roles # {}

(* After the guard: a route that asks for a mandate goes on to the check. *)
AfterGuard(r) == IF req[r].route.action = None THEN "act" ELSE "principal"

(* The organisation is read; a key of an agent has its mandate read next,  *)
(* everyone else passes the guard.                                         *)
FindOrganisation(r) ==
  /\ At(r, "organisation")
  /\ Become(r, IF org[OrgOf(r)].kind = "AI_AGENT" /\ ~ cred[req[r].cred].oidc
               THEN [req[r] EXCEPT !.pc = "mandate"]
               ELSE IF Admitted(r) THEN [req[r] EXCEPT !.pc = AfterGuard(r)] ELSE Idle)
  /\ UNCHANGED <<org, cred, mandate, now, audit, compliance>>

Newest(S) == IF S = {} THEN 0 ELSE CHOOSE m \in S : \A n \in S : n <= m

(* Mutant of ActiveMandate: the newest one, revoked or not. *)
ActiveMandateAny(o) == Newest({m \in DOMAIN mandate : mandate[m].agent = o})

(* findActiveMandate: the newest that is not revoked, be it expired; 0 if  *)
(* there is none.                                                          *)
ActiveMandate(o) == Newest({m \in DOMAIN mandate : mandate[m].agent = o /\ ~ mandate[m].revoked})

FindActiveMandate(r) ==
  /\ At(r, "mandate")
  /\ Become(r, IF Admitted(r)
               THEN [req[r] EXCEPT !.pc = AfterGuard(r), !.mandate = ActiveMandate(OrgOf(r))]
               ELSE Idle)
  /\ UNCHANGED <<org, cred, mandate, now, audit, compliance>>

(* assertAgentMayAct: no question for anyone but an agent. *)
MayAct(r) ==
  LET m == req[r].mandate  principal == org[OrgOf(r)].principal IN
  IsAgent(r) =>
    /\ m # 0
    /\ principal # None /\ principal = mandate[m].principal
    /\ Production => org[principal].kyb = "VERIFIED"
    /\ mandate[m].expires > now
    /\ req[r].route.action \in mandate[m].actions
    /\ req[r].value <= mandate[m].max

(* mandateCheck: the principal is read and the assertion made, *)
MandateCheck(r) ==
  /\ At(r, "principal")
  /\ Become(r, IF MayAct(r)
               THEN [req[r] EXCEPT !.pc = IF IsAgent(r) THEN "audit" ELSE "act", !.checked = now]
               ELSE Idle)
  /\ UNCHANGED <<org, cred, mandate, now, audit, compliance>>

(* and for an agent recorded, before the service is called. *)
AuditCheck(r) ==
  /\ At(r, "audit")
  /\ audit' = audit \cup {<<req[r].cred, req[r].route.action, req[r].value>>}
  /\ Become(r, [req[r] EXCEPT !.pc = "act"])
  /\ UNCHANGED <<org, cred, mandate, now, compliance>>

(* The service that the route calls: what it does is another module's. *)
Act(r) ==
  /\ At(r, "act")
  /\ Become(r, Idle)
  /\ UNCHANGED <<org, cred, mandate, now, audit, compliance>>

-----------------------------------------------------------------------------
Init ==
  /\ org = [o \in Organisation |-> None]
  /\ cred = [c \in Credential |-> None]
  /\ mandate = <<>>
  /\ now = 0
  /\ audit = {}
  /\ reports = {}
  /\ decided = [o \in Organisation |-> "UNVERIFIED"]
  /\ req = [r \in Request |-> Idle]

Administer ==
  \/ \E o \in Organisation, kind \in Kinds, principal \in Organisation \cup {None} :
       CreateOrganisation(o, kind, principal)
  \/ \E o \in Organisation, role \in Role : GrantRole(o, role)
  \/ \E o \in Organisation, status \in KybStatus : SetKybStatus(o, status)
  \/ \E o \in Organisation, answer \in Answers :
       RunComplianceChecks(o, answer) \/ DiditWebhook(o, answer.status)
  \/ \E c \in Credential, input \in CredentialInputs :
       IssueCredential(c, input) \/ ProvisionOidcUser(c, input)
  \/ \E c \in Credential : RevokeCredential(c)
  \/ \E by, agent \in Organisation, input \in MandateInputs : CreateMandate(by, agent, input)
  \/ \E by \in Organisation, m \in DOMAIN mandate : RevokeMandate(by, m)

Call(r) ==
  \E c \in Credential, route \in Endpoints, value \in Values : FindCredential(r, c, route, value)

Step(r) ==
  FindOrganisation(r) \/ FindActiveMandate(r) \/ MandateCheck(r) \/ AuditCheck(r) \/ Act(r)

Next == Tick \/ Administer \/ \E r \in Request : Call(r) \/ Step(r)

Spec == Init /\ [][Next]_vars

(* The server goes on with a request it has begun. *)
FairSpec == Spec /\ \A r \in Request : WF_vars(Step(r))

-----------------------------------------------------------------------------
(* Type invariant. *)
TypeOK ==
  /\ org \in [Organisation -> OrganisationRow \cup {None}]
  /\ cred \in [Credential -> CredentialRow \cup {None}]
  /\ mandate \in Seq(MandateRow) /\ Len(mandate) <= MaxMandates
  /\ now \in Time
  /\ audit \subseteq Credential \X Action \X Values
  /\ reports \subseteq Organisation \X (Verdicts \cup DiditStatus)
  /\ decided \in [Organisation -> KybStatus]
  /\ req \in [Request -> RequestState]

(***************************************************************************)
(* Legal responsibility rests with a real organisation: the principal of   *)
(* an agent exists and is not an agent, and every mandate of an agent was  *)
(* issued by that principal.                                               *)
(***************************************************************************)
PrincipalsAnswer ==
  /\ \A o \in Organisation : Exists(o) /\ org[o].kind = "AI_AGENT" =>
       LET p == org[o].principal IN
       p # None /\ Exists(p) /\ org[p].kind # "AI_AGENT"
  /\ \A m \in DOMAIN mandate :
       /\ Exists(mandate[m].agent) /\ org[mandate[m].agent].kind = "AI_AGENT"
       /\ mandate[m].principal = org[mandate[m].agent].principal

(***************************************************************************)
(* An agent that has passed its check and is about to act does so within a *)
(* mandate of its own principal: the action is named in it, the value is   *)
(* under its ceiling and it had not expired when it was checked.           *)
(***************************************************************************)
ActsWithinMandate ==
  \A r \in Request :
    req[r].pc \in {"audit", "act"} /\ req[r].route.action # None /\ IsAgent(r) =>
    /\ req[r].mandate \in DOMAIN mandate
    /\ LET m == mandate[req[r].mandate] IN
       /\ m.agent = OrgOf(r) /\ m.principal = org[OrgOf(r)].principal
       /\ req[r].route.action \in m.actions
       /\ req[r].value <= m.max
       /\ req[r].checked < m.expires

(* The audit of the check is written before the agent acts. *)
CheckIsOnRecord ==
  \A r \in Request : At(r, "act") /\ req[r].route.action # None /\ IsAgent(r) =>
    <<req[r].cred, req[r].route.action, req[r].value>> \in audit

(***************************************************************************)
(* What is revoked serves only requests that had resolved it before: a     *)
(* revoked key or mandate never lets a new request in.                     *)
(***************************************************************************)
RevokedOnlyInFlight ==
  \A r \in Request : ~ At(r, "idle") =>
    /\ cred[req[r].cred].revoked => "credential" \in req[r].late
    /\ req[r].mandate # 0 /\ mandate[req[r].mandate].revoked => "mandate" \in req[r].late

(***************************************************************************)
(* In production no agent passes its check on the word of a provider: an   *)
(* administrator has decided that its principal is VERIFIED, and not       *)
(* decided otherwise since.                                                *)
(***************************************************************************)
PassesOnlyOnDecision ==
  [][\A r \in Request : At(r, "principal") /\ req'[r].pc = "audit" /\ Production =>
       decided[org[OrgOf(r)].principal] = "VERIFIED"]_vars

(* The KYB status of an organisation is what was last decided about it. *)
KybIsDecided ==
  \A o \in Organisation : decided[o] = IF Exists(o) THEN org[o].kyb ELSE "UNVERIFIED"

(* Whoever reaches a service holds the scope of its route, and a role. *)
ServedAreAdmitted == \A r \in Request : req[r].pc \in {"principal", "audit", "act"} =>
  /\ req[r].route.scope \in cred[req[r].cred].scopes \/ "*" \in cred[req[r].cred].scopes
  /\ req[r].route.roles # {} => req[r].route.roles \cap org[OrgOf(r)].roles # {}

(***************************************************************************)
(* What a credential and a request under way rest on: the organisation of  *)
(* a credential exists, a linked person is not revoked; the mandate that a *)
(* request holds is one of its own organisation, and only agents are asked *)
(* for it.                                                                 *)
(***************************************************************************)
Knows(r) ==
  /\ req[r].cred \in Credential /\ cred[req[r].cred] # None
  /\ req[r].route \in Endpoints /\ req[r].value \in Values
  /\ req[r].mandate # 0 =>
       req[r].mandate \in DOMAIN mandate /\ mandate[req[r].mandate].agent = OrgOf(r)
  /\ req[r].pc \in {"principal", "audit"} => req[r].route.action # None
  /\ At(r, "audit") => IsAgent(r)
HandlersKnow ==
  /\ \A c \in Credential : cred[c] # None =>
       Exists(cred[c].org) /\ (cred[c].oidc => ~ cred[c].revoked)
  /\ \A r \in Request : ~ At(r, "idle") => Knows(r)

(***************************************************************************)
(* The kill switch is final: once a mandate is revoked, there comes a time *)
(* after which no request is served under it.                              *)
(***************************************************************************)
RevocationDrains ==
  \A m \in 1 .. MaxMandates :
    (m \in DOMAIN mandate /\ mandate[m].revoked) ~> [](\A r \in Request : req[r].mandate # m)

(* Whoever acts was let in by what was valid when it came, within a mandate *)
(* that a principal answers for, and on record.                            *)
Inv ==
  /\ TypeOK /\ PrincipalsAnswer /\ ActsWithinMandate /\ CheckIsOnRecord
  /\ RevokedOnlyInFlight /\ ServedAreAdmitted /\ KybIsDecided /\ HandlersKnow
=============================================================================
