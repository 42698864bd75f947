----------------------------- MODULE MCIdentity -----------------------------
(* Values of the constants of Identity for TLC. *)
EXTENDS IdentityInMemory, TLC

CONSTANTS firm, rival, agent1, agent2

(* Permitted execution asks for a mandate, listing a submission for a role. *)
MCExecute == [scope |-> "agent:coverage:execute", roles |-> {}, action |-> "coverage.bind"]
MCList == [scope |-> "marketplace:write", roles |-> {"BROKER"}, action |-> None]
MCEndpoints == {MCExecute, MCList}

(* A key of the agent, and a person of its principal. *)
MCCredentialInputs ==
  {[org |-> agent1, kind |-> "AGENT", scopes |-> {"agent:coverage:execute"}, expires |-> 2, oidc |-> FALSE],
   [org |-> firm, kind |-> None, scopes |-> {"*"}, expires |-> None, oidc |-> TRUE]}

MCMandateInputs ==
  {[actions |-> {"coverage.bind"}, max |-> 2, expires |-> 1],
   [actions |-> {"coverage.bind"}, max |-> 1, expires |-> 2]}

(* Didit finds the company and has approved it. *)
MCAnswers == {[key |-> "key", companies |-> 1, status |-> "Approved"]}

(* Two companies and an agent of one of them are registered. *)
MCInit ==
  /\ org = [o \in Organisation |->
       IF o = agent2 THEN None
       ELSE [kind |-> IF o = agent1 THEN "AI_AGENT" ELSE "COMPANY",
             principal |-> IF o = agent1 THEN firm ELSE None, kyb |-> "UNVERIFIED", roles |-> {}]]
  /\ cred = [c \in Credential |-> None]
  /\ mandate = <<>>
  /\ now = 0
  /\ audit = {}
  /\ reports = {}
  /\ decided = [o \in Organisation |-> "UNVERIFIED"]
  /\ req = [r \in Request |-> Idle]
  /\ MemInit

(* Administrators register another agent, decide about the firm, and it issues the mandates. *)
MCAdminister ==
  \/ \E principal \in {firm, agent1} : CreateOrganisationBoth(agent2, "AI_AGENT", principal)
  \/ \E role \in Role : GrantRoleBoth(firm, role)
  \/ \E status \in {"VERIFIED", "REJECTED"} : SetKybStatusBoth(firm, status)
  \/ \E c \in Credential, input \in CredentialInputs :
       IssueCredentialBoth(c, input) \/ ProvisionOidcUserBoth(c, input)
  \/ \E c \in Credential : RevokeCredentialBoth(c)
  \/ \E by \in {firm, rival}, input \in MandateInputs : CreateMandateBoth(by, agent1, input)
  \/ \E by \in {firm, rival}, m \in DOMAIN mandate : RevokeMandateBoth(by, m)

(* What writes to neither repository. *)
MCElsewhere ==
  /\ \/ Tick
     \/ \E answer \in Answers : RunComplianceChecks(firm, answer) \/ DiditWebhook(firm, answer.status)
     \/ \E r \in Request : Call(r) \/ Step(r)
  /\ UNCHANGED mem

MCNext == MCAdminister \/ MCElsewhere

MCSpec ==
  MCInit /\ [][MCNext]_memVars /\ \A r \in Request : WF_memVars(Step(r) /\ UNCHANGED mem)
=============================================================================
