-------------------------- MODULE IdentityInMemory --------------------------
(***************************************************************************)
(* InMemoryIdentityRepository of persistence/in-memory.ts beside the       *)
(* database of Identity.tla: every write is made to both.  Keys and people *)
(* are two maps; the mandates are a map in the order of their issue.       *)
(***************************************************************************)
EXTENDS Identity

VARIABLE mem

memVars == <<vars, mem>>

(* Before the first credential both hold the same organisations. *)
MemInit == mem = [orgs |-> org, keys |-> cred, users |-> cred, mandates |-> mandate]

MemCreateOrganisation(o, kind, principal) ==
  mem' = [mem EXCEPT !.orgs[o] = [kind |-> kind, principal |-> principal, kyb |-> "UNVERIFIED",
                                  roles |-> {}]]

(* grantRole and setKybStatus throw when there is no organisation. *)
MemGrantRole(o, role) ==
  mem.orgs[o] # None /\ mem' = [mem EXCEPT !.orgs[o].roles = @ \cup {role}]
MemSetKybStatus(o, status) ==
  mem.orgs[o] # None /\ mem' = [mem EXCEPT !.orgs[o].kyb = status]

MemCreateCredential(c, row) == mem' = [mem EXCEPT !.keys[c] = row]
MemCreateUser(c, row) == mem' = [mem EXCEPT !.users[c] = row]
MemRevokeCredential(c) ==
  mem' = IF mem.keys[c] = None THEN mem ELSE [mem EXCEPT !.keys[c].revoked = TRUE]

MemCreateMandate(row) == mem' = [mem EXCEPT !.mandates = Append(@, row)]
MemRevokeMandate(m) == mem' = [mem EXCEPT !.mandates[m].revoked = TRUE]

MemFindUserByOidcSubject(c) == mem.users[c]
MemFindCredentialByKeyId(c) == mem.keys[c]

(* Mutant of MemLatest: the loop ends at the first that fits. *)
MemLatestFirst(o) ==
  LET fits == {m \in DOMAIN mem.mandates : mem.mandates[m].agent = o /\ ~ mem.mandates[m].revoked}
  IN  IF fits = {} THEN 0 ELSE CHOOSE m \in fits : \A n \in fits : m <= n

(* findActiveMandate goes through them all and keeps the last that fits:   *)
(* latest[m] is what it holds after the m-th.                              *)
MemLatest(o) ==
  LET latest[m \in 0 .. Len(mem.mandates)] ==
        IF m = 0 THEN 0
        ELSE IF mem.mandates[m].agent = o /\ ~ mem.mandates[m].revoked THEN m ELSE latest[m - 1]
  IN  latest[Len(mem.mandates)]

-----------------------------------------------------------------------------
(* The operations, with what they write written to both. *)
CreateOrganisationBoth(o, kind, principal) ==
  CreateOrganisation(o, kind, principal) /\ MemCreateOrganisation(o, kind, principal)
GrantRoleBoth(o, role) == GrantRole(o, role) /\ MemGrantRole(o, role)
SetKybStatusBoth(o, status) == SetKybStatus(o, status) /\ MemSetKybStatus(o, status)
IssueCredentialBoth(c, input) == IssueCredential(c, input) /\ MemCreateCredential(c, cred'[c])
ProvisionOidcUserBoth(c, input) == ProvisionOidcUser(c, input) /\ MemCreateUser(c, cred'[c])
RevokeCredentialBoth(c) == RevokeCredential(c) /\ MemRevokeCredential(c)
CreateMandateBoth(by, agent, input) ==
  CreateMandate(by, agent, input) /\ MemCreateMandate(mandate'[Len(mandate')])
RevokeMandateBoth(by, m) == RevokeMandate(by, m) /\ MemRevokeMandate(m)

AdministerBoth ==
  \/ \E o \in Organisation, kind \in Kinds, principal \in Organisation \cup {None} :
       CreateOrganisationBoth(o, kind, principal)
  \/ \E o \in Organisation, role \in Role : GrantRoleBoth(o, role)
  \/ \E o \in Organisation, status \in KybStatus : SetKybStatusBoth(o, status)
  \/ \E c \in Credential, input \in CredentialInputs :
       IssueCredentialBoth(c, input) \/ ProvisionOidcUserBoth(c, input)
  \/ \E c \in Credential : RevokeCredentialBoth(c)
  \/ \E by, agent \in Organisation, input \in MandateInputs : CreateMandateBoth(by, agent, input)
  \/ \E by \in Organisation, m \in DOMAIN mandate : RevokeMandateBoth(by, m)

(* What writes to neither repository. *)
Elsewhere ==
  /\ \/ Tick
     \/ \E o \in Organisation, answer \in Answers :
          RunComplianceChecks(o, answer) \/ DiditWebhook(o, answer.status)
     \/ \E r \in Request : Call(r) \/ Step(r)
  /\ UNCHANGED mem

MemNext == AdministerBoth \/ Elsewhere

MemSpec == Init /\ MemInit /\ [][MemNext]_memVars

(***************************************************************************)
(* The repository that the tests run on answers every question of the      *)
(* guard as the database does: the organisation, the key, the person and   *)
(* the mandate that is in force.                                           *)
(***************************************************************************)
MemoryAgrees ==
  /\ mem.orgs = org /\ mem.mandates = mandate
  /\ \A c \in Credential :
       /\ MemFindCredentialByKeyId(c) = IF FoundKey(c) THEN cred[c] ELSE None
       /\ MemFindUserByOidcSubject(c) = IF FoundUser(c) THEN cred[c] ELSE None
  /\ \A o \in Organisation : MemLatest(o) = ActiveMandate(o)
=============================================================================
