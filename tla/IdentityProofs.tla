--------------------------- MODULE IdentityProofs ---------------------------
(***************************************************************************)
(* Proofs about Identity, for any organisations, credentials, mandates and *)
(* routes, and any number of requests served concurrently.                 *)
(***************************************************************************)
EXTENDS IdentityInMemory, WellFoundedInduction, TLAPS

(* The newest of some mandates is one of them: the numbers below a bound   *)
(* have a largest one, since their distances to it are well-founded.       *)
LEMMA NewestIsMember ==
  ASSUME NEW n \in Nat, NEW S \in SUBSET (1 .. n)
  PROVE  IF S = {} THEN Newest(S) = 0 ELSE Newest(S) \in S
<1>1. CASE S = {}
  BY <1>1 DEF Newest
<1>2. CASE S # {}
  <2> DEFINE below == {ss \in Nat \X Nat : ss[1] < ss[2]}
             gaps  == {n - s : s \in S}
  <2>1. IsWellFoundedOn(below, Nat)
    BY NatLessThanWellFounded DEF OpToRel
  <2>2. gaps \subseteq Nat
    OBVIOUS
  <2>3. gaps # {}
    <3>1. PICK s \in S : TRUE
      BY <1>2
    <3>2. n - s \in gaps
      OBVIOUS
    <3>3. QED
      BY <3>2
  <2> HIDE DEF gaps, below
  <2>4. PICK g \in gaps : \A h \in gaps : ~ (<<h, g>> \in below)
    BY <2>1, <2>2, <2>3, WFMin
  <2>5. PICK m \in S : g = n - m
    BY <2>4 DEF gaps
  <2>6. \A k \in S : k <= m
    <3>1. ASSUME NEW k \in S PROVE ~ (n - k < n - m)
      BY <2>2, <2>4, <2>5, n - k \in gaps, n - m \in gaps DEF gaps, below
    <3>2. QED
      BY <3>1
  <2>7. QED
    BY <1>2, <2>6 DEF Newest
<1>3. QED
  BY <1>1, <1>2

USE IdentityAssumption, RowAssumption

(* So the mandate in force is one of the organisation's that stands. *)
LEMMA ActiveMandateStands ==
  ASSUME NEW o, mandate \in Seq(MandateRow), ActiveMandate(o) # 0
  PROVE  /\ ActiveMandate(o) \in DOMAIN mandate
         /\ mandate[ActiveMandate(o)].agent = o /\ ~ mandate[ActiveMandate(o)].revoked
<1> DEFINE S == {m \in DOMAIN mandate : mandate[m].agent = o /\ ~ mandate[m].revoked}
<1>1. Len(mandate) \in Nat /\ S \in SUBSET (1 .. Len(mandate))
  OBVIOUS
<1>2. ActiveMandate(o) = Newest(S)
  BY DEF ActiveMandate
<1> HIDE DEF S
<1>3. Newest(S) \in S
  BY <1>1, <1>2, NewestIsMember
<1>4. QED
  BY <1>2, <1>3 DEF S

-----------------------------------------------------------------------------
(* What Inv says of one credential and of one request. *)
Rooted(c) == cred[c] # None => Exists(cred[c].org) /\ (cred[c].oidc => ~ cred[c].revoked)

Passed(r) ==
  /\ req[r].mandate \in DOMAIN mandate
  /\ LET m == mandate[req[r].mandate] IN
     /\ m.agent = OrgOf(r) /\ m.principal = org[OrgOf(r)].principal
     /\ req[r].route.action \in m.actions
     /\ req[r].value <= m.max
     /\ req[r].checked < m.expires

Sound(r) ==
  /\ req[r].pc \in {"audit", "act"} /\ req[r].route.action # None /\ IsAgent(r) => Passed(r)
  /\ At(r, "act") /\ req[r].route.action # None /\ IsAgent(r) =>
       <<req[r].cred, req[r].route.action, req[r].value>> \in audit
  /\ ~ At(r, "idle") =>
       /\ cred[req[r].cred].revoked => "credential" \in req[r].late
       /\ req[r].mandate # 0 /\ mandate[req[r].mandate].revoked => "mandate" \in req[r].late
  /\ req[r].pc \in {"principal", "audit", "act"} =>
       /\ req[r].route.scope \in cred[req[r].cred].scopes \/ "*" \in cred[req[r].cred].scopes
       /\ req[r].route.roles # {} => req[r].route.roles \cap org[OrgOf(r)].roles # {}
  /\ ~ At(r, "idle") => Knows(r)

LEMMA InvBySound ==
  Inv <=> /\ TypeOK /\ PrincipalsAnswer /\ KybIsDecided
          /\ \A c \in Credential : Rooted(c)
          /\ \A r \in Request : Sound(r)
BY DEF Inv, ActsWithinMandate, CheckIsOnRecord, RevokedOnlyInFlight, ServedAreAdmitted,
   HandlersKnow, Rooted, Passed, Sound

LEMMA MandatesTyped ==
  ASSUME TypeOK, NEW m \in DOMAIN mandate
  PROVE  mandate[m] \in MandateRow /\ mandate[m].agent \in Organisation
<1>1. mandate \in Seq(MandateRow)
  BY DEF TypeOK
<1>2. mandate[m] \in MandateRow
  BY <1>1
<1>3. QED
  BY <1>2 DEF MandateRow

LEMMA InitInv == Init => Inv
<1> SUFFICES ASSUME Init PROVE Inv
  OBVIOUS
<1>1. TypeOK
  BY DEF Init, TypeOK, Idle, RequestState, Time, KybStatus
<1>2. QED
  BY <1>1 DEF Init, Inv, KybIsDecided, PrincipalsAnswer, ActsWithinMandate, CheckIsOnRecord,
     RevokedOnlyInFlight, ServedAreAdmitted, HandlersKnow, Idle, At, Exists

(***************************************************************************)
(* What no step takes away: an organisation keeps its kind, principal and  *)
(* roles, a credential its owner and scopes, a mandate its terms.          *)
(***************************************************************************)
Kept ==
  /\ \A o \in Organisation : org[o] # None =>
       /\ org'[o] # None /\ org[o].roles \subseteq org'[o].roles
       /\ org'[o].principal = org[o].principal
  /\ \A c \in Credential : cred[c] # None =>
       /\ cred'[c] # None
       /\ cred'[c].org = cred[c].org /\ cred'[c].kind = cred[c].kind
       /\ cred'[c].scopes = cred[c].scopes
  /\ \A m \in DOMAIN mandate :
       /\ m \in DOMAIN mandate'
       /\ mandate'[m].agent = mandate[m].agent /\ mandate'[m].principal = mandate[m].principal
       /\ mandate'[m].actions = mandate[m].actions /\ mandate'[m].max = mandate[m].max
       /\ mandate'[m].expires = mandate[m].expires
  /\ audit \subseteq audit'

(* A request that a step leaves where it is stays sound, provided that it  *)
(* is told when its credential or mandate is revoked.                      *)
LEMMA StaysSound ==
  ASSUME TypeOK, \A c \in Credential : Rooted(c), NEW r \in Request, Sound(r), Kept,
         req'[r].pc = req[r].pc, req'[r].cred = req[r].cred, req'[r].route = req[r].route,
         req'[r].value = req[r].value, req'[r].mandate = req[r].mandate,
         req'[r].checked = req[r].checked, req[r].late \subseteq req'[r].late,
         ~ At(r, "idle") => (cred'[req[r].cred].revoked =>
           cred[req[r].cred].revoked \/ "credential" \in req'[r].late),
         ~ At(r, "idle") /\ req[r].mandate # 0 => (mandate'[req[r].mandate].revoked =>
           mandate[req[r].mandate].revoked \/ "mandate" \in req'[r].late)
  PROVE  Sound(r)'
<1>1. CASE At(r, "idle")
  BY <1>1 DEF Sound, At
<1>2. CASE ~ At(r, "idle")
  <2>1. Knows(r)
    BY <1>2 DEF Sound
  <2>2. /\ req[r].cred \in Credential /\ cred[req[r].cred] # None
        /\ OrgOf(r) \in Organisation /\ org[OrgOf(r)] # None
    <3>1. req[r].cred \in Credential /\ cred[req[r].cred] # None
      BY <2>1 DEF Knows
    <3>2. cred[req[r].cred].org \in Organisation
      BY <3>1 DEF TypeOK, CredentialRow
    <3>3. QED
      BY <3>1, <3>2 DEF Rooted, OrgOf, Exists
  <2>3. /\ OrgOf(r)' = OrgOf(r) /\ IsAgent(r)' = IsAgent(r)
        /\ cred'[req[r].cred] # None /\ cred'[req[r].cred].scopes = cred[req[r].cred].scopes
        /\ org'[OrgOf(r)].principal = org[OrgOf(r)].principal
        /\ org[OrgOf(r)].roles \subseteq org'[OrgOf(r)].roles
    BY <2>2 DEF Kept, OrgOf, IsAgent
  <2>4. Knows(r)'
    BY <2>1, <2>3 DEF Knows, Kept, At
  <2>5. Passed(r) => Passed(r)'
    BY <2>3 DEF Passed, Kept
  <2>6. ASSUME req[r].pc \in {"principal", "audit", "act"}
        PROVE  (req[r].route.roles # {} => req[r].route.roles \cap org[OrgOf(r)].roles # {})'
    BY <2>3, <2>6 DEF Sound
  <2>7. ~ At(r, "idle")' /\ (cred[req[r].cred].revoked => "credential" \in req'[r].late)
        /\ (req[r].mandate # 0 /\ mandate[req[r].mandate].revoked => "mandate" \in req'[r].late)
    BY <1>2 DEF Sound, At
  <2>8. QED
    BY <2>3, <2>4, <2>5, <2>6, <2>7 DEF Sound, Kept, At
<1>3. QED
  BY <1>1, <1>2

(* A step of one request leaves the others alone. *)
LEMMA OneMoves ==
  ASSUME Inv, TypeOK', NEW r \in Request, Sound(r)',
         UNCHANGED <<org, cred, mandate, decided>>, audit \subseteq audit',
         \A s \in Request \ {r} : req'[s] = req[s]
  PROVE  Inv'
<1>1. TypeOK /\ PrincipalsAnswer /\ KybIsDecided /\ (\A c \in Credential : Rooted(c))
      /\ (\A s \in Request : Sound(s))
  BY InvBySound
<1>2. PrincipalsAnswer' /\ KybIsDecided' /\ \A c \in Credential : Rooted(c)'
  BY <1>1 DEF PrincipalsAnswer, KybIsDecided, Rooted, Exists
<1>3. Kept
  BY DEF Kept
<1>4. ASSUME NEW s \in Request PROVE Sound(s)'
  BY <1>1, <1>3, StaysSound
<1>5. QED
  BY <1>2, <1>4 DEF Inv, ActsWithinMandate, CheckIsOnRecord, RevokedOnlyInFlight,
     ServedAreAdmitted, HandlersKnow, Rooted, Passed, Sound

(* And an administrator's leaves them all where they are. *)
LEMMA NoneMoves ==
  ASSUME Inv, TypeOK', PrincipalsAnswer', KybIsDecided', \A c \in Credential : Rooted(c)', Kept,
         UNCHANGED req,
         \A c \in Credential : cred[c] # None => cred'[c].revoked = cred[c].revoked,
         \A m \in DOMAIN mandate : mandate'[m].revoked = mandate[m].revoked
  PROVE  Inv'
<1>1. TypeOK /\ (\A c \in Credential : Rooted(c)) /\ (\A s \in Request : Sound(s))
  BY InvBySound
<1>2. ASSUME NEW s \in Request PROVE Sound(s)'
  <2>1. ~ At(s, "idle") => req[s].cred \in Credential /\ cred[req[s].cred] # None
        /\ (req[s].mandate # 0 => req[s].mandate \in DOMAIN mandate)
    BY <1>1 DEF Sound, Knows
  <2>2. QED
    BY <1>1, <2>1, StaysSound
<1>3. QED
  BY <1>2 DEF Inv, ActsWithinMandate, CheckIsOnRecord, RevokedOnlyInFlight,
     ServedAreAdmitted, HandlersKnow, Rooted, Passed, Sound

-----------------------------------------------------------------------------
(* The administrators' steps. *)
LEMMA CreateOrganisationKeeps ==
  ASSUME Inv, NEW o \in Organisation, NEW kind \in Kinds,
         NEW principal \in Organisation \cup {None}, CreateOrganisation(o, kind, principal)
  PROVE  Inv'
<1> DEFINE row == [kind |-> kind, principal |-> principal, kyb |-> "UNVERIFIED", roles |-> {}]
<1>1. TypeOK /\ PrincipalsAnswer /\ KybIsDecided /\ \A c \in Credential : Rooted(c)
  BY InvBySound
<1>2. row \in OrganisationRow /\ row # None
  BY DEF OrganisationRow, KybStatus
<1>3. org' = [org EXCEPT ![o] = row] /\ org[o] = None
  BY DEF CreateOrganisation, InsertOrganisation, Exists
<1>4. TypeOK'
  BY <1>1, <1>2, <1>3 DEF TypeOK, CreateOrganisation, compliance
<1>5. org'[o] = row /\ \A p \in Organisation \ {o} : org'[p] = org[p]
  BY <1>1, <1>3 DEF TypeOK
<1>6. PrincipalsAnswer'
  <2>1. kind = "AI_AGENT" => principal \in Organisation \ {o} /\ org[principal] # None
                            /\ org[principal].kind # "AI_AGENT"
    BY <1>3 DEF CreateOrganisation, Exists
  <2>2. ASSUME NEW p \in Organisation, org'[p] # None, org'[p].kind = "AI_AGENT"
        PROVE  /\ org'[p].principal # None /\ org'[org'[p].principal] # None
               /\ org'[org'[p].principal].kind # "AI_AGENT"
    <3>1. CASE p = o
      BY <1>2, <1>5, <2>1, <2>2, <3>1
    <3>2. CASE p # o
      <4>1. org[p] \in OrganisationRow
        BY <1>1, <1>5, <2>2, <3>2 DEF TypeOK
      <4>2. /\ org[p].principal \in Organisation /\ org[org[p].principal] # None
            /\ org[org[p].principal].kind # "AI_AGENT"
        BY <1>1, <1>5, <2>2, <3>2, <4>1 DEF PrincipalsAnswer, Exists, OrganisationRow
      <4>3. QED
        BY <1>3, <1>5, <3>2, <4>2
    <3>3. QED
      BY <3>1, <3>2
  <2>3. ASSUME NEW m \in DOMAIN mandate
        PROVE  mandate[m].agent \in Organisation /\ org[mandate[m].agent] # None
    BY <1>1, MandatesTyped DEF PrincipalsAnswer, Exists
  <2>4. QED
    BY <1>1, <1>3, <1>5, <2>2, <2>3 DEF PrincipalsAnswer, Exists, CreateOrganisation
<1>7. ASSUME NEW c \in Credential PROVE Rooted(c)'
  BY <1>1, <1>2, <1>5 DEF Rooted, Exists, CreateOrganisation, TypeOK, CredentialRow
<1>8. Kept /\ KybIsDecided'
  BY <1>1, <1>2, <1>3, <1>5 DEF Kept, KybIsDecided, Exists, CreateOrganisation, compliance
<1>9. QED
  BY <1>4, <1>6, <1>7, <1>8, NoneMoves DEF CreateOrganisation

(* A role more, another KYB status: kinds and principals stay. *)
LEMMA UpdateOrganisationKeeps ==
  ASSUME Inv, NEW o \in Organisation, NEW row \in OrganisationRow, org[o] # None,
         org' = [org EXCEPT ![o] = row], row.kind = org[o].kind,
         row.principal = org[o].principal, org[o].roles \subseteq row.roles,
         decided' = [decided EXCEPT ![o] = row.kyb],
         UNCHANGED <<cred, mandate, now, audit, reports, req>>
  PROVE  Inv'
<1>1. TypeOK /\ PrincipalsAnswer /\ KybIsDecided /\ \A c \in Credential : Rooted(c)
  BY InvBySound
<1>2. TypeOK'
  BY <1>1 DEF TypeOK, OrganisationRow
<1>3. org'[o] = row /\ \A p \in Organisation \ {o} : org'[p] = org[p]
  BY <1>1 DEF TypeOK
<1>4. \A p \in Organisation : /\ (org'[p] # None) <=> (org[p] # None)
                              /\ org[p] # None => /\ org'[p].kind = org[p].kind
                                                  /\ org'[p].principal = org[p].principal
  BY <1>3
<1>5. PrincipalsAnswer'
  <2>1. \A p \in Organisation : org[p] # None => org[p].principal \in Organisation \cup {None}
    BY <1>1 DEF TypeOK, OrganisationRow
  <2>2. \A m \in DOMAIN mandate : mandate[m].agent \in Organisation
    BY <1>1, MandatesTyped
  <2>3. QED
    BY <1>1, <1>4, <2>1, <2>2 DEF PrincipalsAnswer, Exists
<1>6. ASSUME NEW c \in Credential PROVE Rooted(c)'
  BY <1>1, <1>4 DEF Rooted, Exists, TypeOK, CredentialRow
<1>7. Kept /\ KybIsDecided'
  BY <1>1, <1>3 DEF Kept, KybIsDecided, Exists, TypeOK
<1>8. QED
  BY <1>2, <1>5, <1>6, <1>7, NoneMoves

LEMMA GrantRoleKeeps ==
  ASSUME Inv, NEW o \in Organisation, NEW role \in Role, GrantRole(o, role)
  PROVE  Inv'
<1>1. org[o] \in OrganisationRow /\ org[o] # None
  BY DEF GrantRole, Exists, Inv, TypeOK
<1>2. PICK row : row = [org[o] EXCEPT !.roles = @ \cup {role}]
  OBVIOUS
<1>3. row \in OrganisationRow /\ row.kind = org[o].kind /\ row.principal = org[o].principal
      /\ org[o].roles \subseteq row.roles
  BY <1>1, <1>2 DEF OrganisationRow
<1>4. org' = [org EXCEPT ![o] = row]
  BY <1>2 DEF GrantRole, UpsertRole
<1>5. decided' = [decided EXCEPT ![o] = row.kyb]
  <2>1. row.kyb = org[o].kyb /\ decided' = decided
    BY <1>1, <1>2 DEF OrganisationRow, GrantRole, compliance
  <2>2. decided[o] = org[o].kyb /\ decided \in [Organisation -> KybStatus]
    BY <1>1 DEF Inv, KybIsDecided, Exists, TypeOK
  <2>3. QED
    BY <2>1, <2>2
<1>6. QED
  BY <1>1, <1>3, <1>4, <1>5, UpdateOrganisationKeeps DEF GrantRole, compliance

LEMMA SetKybStatusKeeps ==
  ASSUME Inv, NEW o \in Organisation, NEW status \in KybStatus, SetKybStatus(o, status)
  PROVE  Inv'
<1>1. org[o] \in OrganisationRow /\ org[o] # None
  BY DEF SetKybStatus, Exists, Inv, TypeOK
<1>2. PICK row : row = [org[o] EXCEPT !.kyb = status]
  OBVIOUS
<1>3. row \in OrganisationRow /\ row.kind = org[o].kind /\ row.principal = org[o].principal
      /\ org[o].roles \subseteq row.roles
  BY <1>1, <1>2 DEF OrganisationRow
<1>4. org' = [org EXCEPT ![o] = row]
  BY <1>2 DEF SetKybStatus, UpdateKybStatus
<1>5. decided' = [decided EXCEPT ![o] = row.kyb]
  BY <1>1, <1>2 DEF SetKybStatus, OrganisationRow
<1>6. QED
  BY <1>1, <1>3, <1>4, <1>5, UpdateOrganisationKeeps DEF SetKybStatus

(* Providers report; nothing but the report is written. *)
LEMMA ReportKeeps ==
  ASSUME Inv, NEW o \in Organisation, NEW answer \in Answers,
         RunComplianceChecks(o, answer) \/ DiditWebhook(o, answer.status)
  PROVE  Inv'
<1>1. TypeOK /\ PrincipalsAnswer /\ KybIsDecided /\ \A c \in Credential : Rooted(c)
  BY InvBySound
<1>2. Verdict(answer) \in Verdicts /\ answer.status \in DiditStatus
  BY DEF Verdict, Verdicts
<1>3. UNCHANGED <<org, cred, mandate, now, audit, decided, req>>
      /\ reports' \subseteq Organisation \X (Verdicts \cup DiditStatus)
  BY <1>1, <1>2 DEF RunComplianceChecks, DiditWebhook, TypeOK
<1>4. TypeOK'
  BY <1>1, <1>3 DEF TypeOK
<1>5. PrincipalsAnswer' /\ KybIsDecided' /\ (\A c \in Credential : Rooted(c)') /\ Kept
  BY <1>1, <1>3 DEF PrincipalsAnswer, KybIsDecided, Rooted, Exists, Kept
<1>6. QED
  BY <1>3, <1>4, <1>5, NoneMoves

LEMMA TickKeeps == ASSUME Inv, Tick PROVE Inv'
<1>1. TypeOK /\ PrincipalsAnswer /\ KybIsDecided /\ \A c \in Credential : Rooted(c)
  BY InvBySound
<1>2. UNCHANGED <<org, cred, mandate, audit, reports, decided, req>> /\ now' \in Time
  BY <1>1 DEF Tick, compliance, TypeOK, Time
<1>3. TypeOK'
  BY <1>1, <1>2 DEF TypeOK
<1>4. PrincipalsAnswer' /\ KybIsDecided' /\ (\A c \in Credential : Rooted(c)') /\ Kept
  BY <1>1, <1>2 DEF PrincipalsAnswer, KybIsDecided, Rooted, Exists, Kept
<1>5. QED
  BY <1>2, <1>3, <1>4, NoneMoves

(* A key and a linked user: rows under an id that was free. *)
LEMMA InsertKeeps ==
  ASSUME Inv, NEW c \in Credential, NEW row \in CredentialRow, cred[c] = None,
         Exists(row.org), row.revoked = FALSE, cred' = [cred EXCEPT ![c] = row],
         UNCHANGED <<org, mandate, now, audit, compliance, req>>
  PROVE  Inv'
<1>1. TypeOK /\ PrincipalsAnswer /\ KybIsDecided /\ \A d \in Credential : Rooted(d)
  BY InvBySound
<1>2. TypeOK'
  BY <1>1 DEF TypeOK, compliance
<1>3. cred'[c] = row /\ \A d \in Credential \ {c} : cred'[d] = cred[d]
  BY <1>1 DEF TypeOK
<1>4. ASSUME NEW d \in Credential PROVE Rooted(d)'
  BY <1>1, <1>3 DEF Rooted, Exists
<1>5. PrincipalsAnswer' /\ KybIsDecided' /\ Kept
  BY <1>1, <1>3 DEF PrincipalsAnswer, KybIsDecided, Exists, Kept, compliance
<1>6. QED
  BY <1>2, <1>3, <1>4, <1>5, NoneMoves

LEMMA IssueKeeps ==
  ASSUME Inv, NEW c \in Credential, NEW input \in CredentialInputs,
         IssueCredential(c, input) \/ ProvisionOidcUser(c, input)
  PROVE  Inv'
<1>1. input \in CredentialInput
  OBVIOUS
<1>2. CASE IssueCredential(c, input)
  <2>1. PICK row : row = [org |-> input.org,
          kind |-> IF input.kind = None THEN "SERVICE" ELSE input.kind,
          scopes |-> input.scopes, expires |-> input.expires, oidc |-> FALSE, revoked |-> FALSE]
    OBVIOUS
  <2>2. row \in CredentialRow /\ row.org = input.org /\ row.revoked = FALSE
    BY <1>1, <2>1 DEF CredentialInput, CredentialRow, SubjectKinds
  <2>3. QED
    BY <1>2, <2>1, <2>2, InsertKeeps DEF IssueCredential, InsertCredential
<1>3. CASE ProvisionOidcUser(c, input)
  <2>1. PICK row : row = [org |-> input.org, kind |-> "USER", scopes |-> input.scopes,
          expires |-> input.expires, oidc |-> TRUE, revoked |-> FALSE]
    OBVIOUS
  <2>2. row \in CredentialRow /\ row.org = input.org /\ row.revoked = FALSE
    BY <1>1, <2>1 DEF CredentialInput, CredentialRow, SubjectKinds
  <2>3. QED
    BY <1>3, <2>1, <2>2, InsertKeeps DEF ProvisionOidcUser, InsertUser
<1>4. QED
  BY <1>2, <1>3

(* A request that goes on with what is revoked is told so. *)
LEMMA LateTyped ==
  ASSUME TypeOK, NEW r \in Request, NEW what \in {"credential", "mandate"}
  PROVE  [req[r] EXCEPT !.late = @ \cup {what}] \in RequestState
<1>1. req[r] \in RequestState
  BY DEF TypeOK
<1>2. QED
  BY <1>1 DEF RequestState

LEMMA RevokeCredentialKeeps ==
  ASSUME Inv, NEW c \in Credential, RevokeCredential(c)
  PROVE  Inv'
<1>1. TypeOK /\ PrincipalsAnswer /\ KybIsDecided /\ (\A d \in Credential : Rooted(d))
      /\ \A r \in Request : Sound(r)
  BY InvBySound
<1>2. cred[c] \in CredentialRow /\ cred[c] # None /\ ~ cred[c].oidc
  BY <1>1 DEF RevokeCredential, FoundKey, TypeOK
<1>3. PICK row : row = [cred[c] EXCEPT !.revoked = TRUE]
  OBVIOUS
<1>4. /\ row \in CredentialRow /\ row # None
      /\ row.org = cred[c].org /\ row.kind = cred[c].kind /\ row.scopes = cred[c].scopes
      /\ row.oidc = cred[c].oidc
  BY <1>2, <1>3 DEF CredentialRow
<1>5. cred' = [cred EXCEPT ![c] = row]
  BY <1>3 DEF RevokeCredential, UpdateRevokedAt
<1>6. cred'[c] = row /\ \A d \in Credential \ {c} : cred'[d] = cred[d]
  BY <1>1, <1>5 DEF TypeOK
<1>7. /\ req' = [r \in Request |-> IF ~ At(r, "idle") /\ req[r].cred = c
                   THEN [req[r] EXCEPT !.late = @ \cup {"credential"}] ELSE req[r]]
      /\ UNCHANGED <<org, mandate, now, audit, reports, decided>>
  BY DEF RevokeCredential, Late, compliance
<1>8. TypeOK'
  BY <1>1, <1>4, <1>5, <1>7, LateTyped DEF TypeOK
<1>9. PrincipalsAnswer' /\ KybIsDecided' /\ Kept
  BY <1>1, <1>4, <1>6, <1>7 DEF PrincipalsAnswer, KybIsDecided, Exists, Kept
<1>10. ASSUME NEW d \in Credential PROVE Rooted(d)'
  BY <1>1, <1>2, <1>4, <1>6, <1>7 DEF Rooted, Exists
<1>11. ASSUME NEW r \in Request PROVE Sound(r)'
  <2>1. /\ req'[r].pc = req[r].pc /\ req'[r].cred = req[r].cred /\ req'[r].route = req[r].route
        /\ req'[r].value = req[r].value /\ req'[r].mandate = req[r].mandate
        /\ req'[r].checked = req[r].checked /\ req[r].late \subseteq req'[r].late
        /\ ~ At(r, "idle") /\ req[r].cred = c => "credential" \in req'[r].late
    BY <1>1, <1>7 DEF TypeOK, RequestState
  <2>2. ~ At(r, "idle") => req[r].cred \in Credential
    BY <1>1 DEF Sound, Knows
  <2>3. QED
    BY <1>1, <1>6, <1>7, <1>9, <2>1, <2>2, StaysSound
<1>12. QED
  BY <1>8, <1>9, <1>10, <1>11 DEF Inv, ActsWithinMandate, CheckIsOnRecord, RevokedOnlyInFlight,
     ServedAreAdmitted, HandlersKnow, Rooted, Passed, Sound

LEMMA RevokeMandateKeeps ==
  ASSUME Inv, NEW by \in Organisation, NEW m \in DOMAIN mandate, RevokeMandate(by, m)
  PROVE  Inv'
<1>1. TypeOK /\ PrincipalsAnswer /\ KybIsDecided /\ (\A d \in Credential : Rooted(d))
      /\ \A r \in Request : Sound(r)
  BY InvBySound
<1>2. mandate \in Seq(MandateRow) /\ mandate[m] \in MandateRow
  BY <1>1, MandatesTyped DEF TypeOK
<1>3. PICK row : row = [mandate[m] EXCEPT !.revoked = TRUE]
  OBVIOUS
<1>4. /\ row \in MandateRow
      /\ row.agent = mandate[m].agent /\ row.principal = mandate[m].principal
      /\ row.actions = mandate[m].actions /\ row.max = mandate[m].max
      /\ row.expires = mandate[m].expires
  BY <1>2, <1>3 DEF MandateRow
<1>5. mandate' = [mandate EXCEPT ![m] = row]
  BY <1>3 DEF RevokeMandate, UpdateMandateRevokedAt
<1>6. /\ mandate' \in Seq(MandateRow) /\ Len(mandate') = Len(mandate)
      /\ DOMAIN mandate' = DOMAIN mandate
      /\ mandate'[m] = row /\ \A n \in DOMAIN mandate \ {m} : mandate'[n] = mandate[n]
  BY <1>2, <1>4, <1>5
<1>7. /\ req' = [r \in Request |-> IF ~ At(r, "idle") /\ req[r].mandate = m
                   THEN [req[r] EXCEPT !.late = @ \cup {"mandate"}] ELSE req[r]]
      /\ UNCHANGED <<org, cred, now, audit, reports, decided>>
  BY DEF RevokeMandate, Late, compliance
<1>8. TypeOK'
  BY <1>1, <1>6, <1>7, LateTyped DEF TypeOK
<1>9. PrincipalsAnswer' /\ KybIsDecided' /\ Kept
  BY <1>1, <1>4, <1>6, <1>7 DEF PrincipalsAnswer, KybIsDecided, Exists, Kept
<1>10. ASSUME NEW d \in Credential PROVE Rooted(d)'
  BY <1>1, <1>7 DEF Rooted, Exists
<1>11. ASSUME NEW r \in Request PROVE Sound(r)'
  <2>1. /\ req'[r].pc = req[r].pc /\ req'[r].cred = req[r].cred /\ req'[r].route = req[r].route
        /\ req'[r].value = req[r].value /\ req'[r].mandate = req[r].mandate
        /\ req'[r].checked = req[r].checked /\ req[r].late \subseteq req'[r].late
        /\ ~ At(r, "idle") /\ req[r].mandate = m => "mandate" \in req'[r].late
    BY <1>1, <1>7 DEF TypeOK, RequestState
  <2>2. ~ At(r, "idle") /\ req[r].mandate # 0 => req[r].mandate \in DOMAIN mandate
    BY <1>1 DEF Sound, Knows
  <2>3. QED
    BY <1>1, <1>6, <1>7, <1>9, <2>1, <2>2, StaysSound
<1>12. QED
  BY <1>8, <1>9, <1>10, <1>11 DEF Inv, ActsWithinMandate, CheckIsOnRecord, RevokedOnlyInFlight,
     ServedAreAdmitted, HandlersKnow, Rooted, Passed, Sound

LEMMA CreateMandateKeeps ==
  ASSUME Inv, NEW by \in Organisation, NEW agent \in Organisation,
         NEW input \in MandateInputs, CreateMandate(by, agent, input)
  PROVE  Inv'
<1>1. TypeOK /\ PrincipalsAnswer /\ KybIsDecided /\ \A c \in Credential : Rooted(c)
  BY InvBySound
<1>2. input \in MandateInput
  OBVIOUS
<1>3. PICK row : row = [agent |-> agent, principal |-> org[agent].principal,
                        actions |-> input.actions, max |-> input.max,
                        expires |-> input.expires, revoked |-> FALSE]
  OBVIOUS
<1>4. org[agent].principal = by /\ org[agent] # None /\ org[agent].kind = "AI_AGENT"
  BY DEF CreateMandate, Exists
<1>5. row \in MandateRow /\ row.agent = agent /\ row.principal = by
  BY <1>2, <1>3, <1>4 DEF MandateInput, MandateRow
<1>6. mandate \in Seq(MandateRow) /\ mandate' = Append(mandate, row)
      /\ Len(mandate) < MaxMandates
  BY <1>1, <1>3 DEF TypeOK, CreateMandate, InsertMandate
<1>7. /\ mandate' \in Seq(MandateRow) /\ Len(mandate') <= MaxMandates
      /\ DOMAIN mandate' = DOMAIN mandate \cup {Len(mandate) + 1}
      /\ mandate'[Len(mandate) + 1] = row
      /\ \A m \in DOMAIN mandate : m \in DOMAIN mandate' /\ mandate'[m] = mandate[m]
  BY <1>5, <1>6
<1>8. UNCHANGED <<org, cred, now, audit, reports, decided, req>>
  BY DEF CreateMandate, compliance
<1>9. TypeOK'
  BY <1>1, <1>7, <1>8 DEF TypeOK
<1>10. PrincipalsAnswer'
  BY <1>1, <1>4, <1>5, <1>7, <1>8 DEF PrincipalsAnswer, Exists
<1>11. KybIsDecided' /\ (\A c \in Credential : Rooted(c)') /\ Kept
  BY <1>1, <1>7, <1>8 DEF KybIsDecided, Rooted, Exists, Kept
<1>12. QED
  BY <1>7, <1>8, <1>9, <1>10, <1>11, NoneMoves

-----------------------------------------------------------------------------
(* The steps of a request. *)
LEMMA Moves ==
  ASSUME Inv, NEW r \in Request, Call(r) \/ Step(r)
  PROVE  /\ UNCHANGED <<org, cred, mandate, now, reports, decided>>
         /\ audit \subseteq audit' /\ \A s \in Request \ {r} : req'[s] = req[s]
BY DEF Inv, TypeOK, Call, Step, FindCredential, FindOrganisation, FindActiveMandate, MandateCheck,
   AuditCheck, Act, Become, compliance

(* To answer for one is to type it and to find it sound. *)
LEMMA RequestMoves ==
  ASSUME Inv, NEW r \in Request, Call(r) \/ Step(r), NEW q, req' = [req EXCEPT ![r] = q],
         q \in RequestState, audit' \subseteq Credential \X Action \X Values,
         req'[r] = q => Sound(r)'
  PROVE  Inv'
<1>1. req'[r] = q
  BY DEF Inv, TypeOK
<1>2. TypeOK'
  BY Moves DEF Inv, TypeOK
<1>3. QED
  BY <1>1, <1>2, Moves, OneMoves

LEMMA IdleSound ==
  ASSUME NEW r \in Request, req'[r] = Idle
  PROVE  Sound(r)'
BY DEF Sound, Idle, At

LEMMA IdleTyped == Idle \in RequestState
  BY DEF Idle, RequestState, Time

LEMMA FindCredentialKeeps ==
  ASSUME Inv, NEW r \in Request, NEW c \in Credential, NEW route \in Endpoints,
         NEW value \in Values, FindCredential(r, c, route, value)
  PROVE  Inv'
<1>1. PICK q : q = [Idle EXCEPT !.pc = "organisation", !.cred = c, !.route = route,
                                !.value = value]
  OBVIOUS
<1>2. /\ q \in RequestState
      /\ q.pc = "organisation" /\ q.cred = c /\ q.route = route /\ q.value = value
      /\ q.mandate = 0 /\ q.late = {}
  <2>1. q = [pc |-> "organisation", cred |-> c, route |-> route, value |-> value,
             mandate |-> 0, checked |-> 0, late |-> {}]
    BY <1>1 DEF Idle
  <2>2. QED
    BY <2>1 DEF RequestState, Time
<1>3. req' = [req EXCEPT ![r] = q] /\ UNCHANGED <<cred, audit>>
  BY <1>1 DEF FindCredential, Become
<1>4. cred[c] # None /\ ~ cred[c].revoked
  <2>1. Rooted(c)
    BY InvBySound
  <2>2. QED
    BY <2>1 DEF FindCredential, FoundKey, FoundUser, Rooted
<1>5. req'[r] = q => Sound(r)'
  BY <1>2, <1>3, <1>4 DEF Sound, Knows, At
<1>6. Call(r) /\ audit' \subseteq Credential \X Action \X Values
  BY <1>3 DEF Call, Inv, TypeOK
<1>7. QED
  BY <1>2, <1>3, <1>5, <1>6, RequestMoves

(* A step that only changes the place of the request, once it is admitted. *)
LEMMA FindOrganisationKeeps ==
  ASSUME Inv, NEW r \in Request, FindOrganisation(r)
  PROVE  Inv'
<1>1. /\ req[r] \in RequestState /\ Sound(r) /\ Knows(r)
      /\ audit' \subseteq Credential \X Action \X Values
      /\ UNCHANGED <<org, cred, mandate, audit>> /\ Step(r)
  BY InvBySound DEF FindOrganisation, Sound, At, TypeOK, Step
<1>2. PICK q : /\ req' = [req EXCEPT ![r] = q]
               /\ \/ q = [req[r] EXCEPT !.pc = "mandate"]
                  \/ Admitted(r) /\ q = [req[r] EXCEPT !.pc = AfterGuard(r)]
                  \/ q = Idle
  BY DEF FindOrganisation, Become
<1>3. ASSUME q # Idle
      PROVE  /\ q \in RequestState
             /\ q.cred = req[r].cred /\ q.route = req[r].route /\ q.value = req[r].value
             /\ q.mandate = req[r].mandate /\ q.late = req[r].late
             /\ \/ q.pc = "mandate"
                \/ Admitted(r) /\ q.pc = AfterGuard(r)
  BY <1>1, <1>2, <1>3 DEF RequestState, AfterGuard
<1>4. q \in RequestState
  BY <1>3, IdleTyped
<1>5. req'[r] = q => Sound(r)'
  <2>1. CASE q = Idle
    BY <2>1, IdleSound
  <2>2. CASE q # Idle /\ q.pc = "mandate"
    BY <1>1, <1>3, <2>2 DEF Sound, Knows, At, OrgOf, FindOrganisation
  <2>3. CASE q # Idle /\ Admitted(r) /\ q.pc = AfterGuard(r)
    BY <1>1, <1>3, <2>3 DEF Sound, Knows, At, OrgOf, FindOrganisation, AfterGuard, Admitted,
       HasScope
  <2>4. QED
    BY <1>3, <2>1, <2>2, <2>3
<1>6. QED
  BY <1>1, <1>2, <1>4, <1>5, RequestMoves

LEMMA FindActiveMandateKeeps ==
  ASSUME Inv, NEW r \in Request, FindActiveMandate(r)
  PROVE  Inv'
<1>1. /\ TypeOK /\ mandate \in Seq(MandateRow) /\ Len(mandate) <= MaxMandates
      /\ req[r] \in RequestState /\ Sound(r) /\ Knows(r)
      /\ audit' \subseteq Credential \X Action \X Values
      /\ UNCHANGED <<org, cred, mandate, audit>> /\ Step(r)
  BY InvBySound DEF FindActiveMandate, Sound, At, TypeOK, Step
<1>2. PICK m : m = ActiveMandate(OrgOf(r))
  OBVIOUS
<1>3. /\ m \in 0 .. MaxMandates
      /\ m # 0 => m \in DOMAIN mandate /\ mandate[m].agent = OrgOf(r) /\ ~ mandate[m].revoked
  <2>1. CASE m = 0
    BY <2>1
  <2>2. CASE m # 0
    BY <1>1, <1>2, <2>2, ActiveMandateStands
  <2>3. QED
    BY <2>1, <2>2
<1>4. PICK q : /\ req' = [req EXCEPT ![r] = q]
               /\ \/ Admitted(r) /\ q = [req[r] EXCEPT !.pc = AfterGuard(r), !.mandate = m]
                  \/ q = Idle
  BY <1>2 DEF FindActiveMandate, Become
<1>5. ASSUME q # Idle
      PROVE  /\ q \in RequestState
             /\ q.cred = req[r].cred /\ q.route = req[r].route /\ q.value = req[r].value
             /\ q.mandate = m /\ q.late = req[r].late
             /\ Admitted(r) /\ q.pc = AfterGuard(r)
  BY <1>1, <1>3, <1>4, <1>5 DEF RequestState, AfterGuard
<1>6. q \in RequestState
  BY <1>5, IdleTyped
<1>7. req'[r] = q => Sound(r)'
  <2>1. CASE q = Idle
    BY <2>1, IdleSound
  <2>2. CASE q # Idle
    BY <1>1, <1>3, <1>5, <2>2 DEF Sound, Knows, At, OrgOf, FindActiveMandate, AfterGuard, Admitted,
       HasScope, IsAgent
  <2>3. QED
    BY <2>1, <2>2
<1>8. QED
  BY <1>1, <1>4, <1>6, <1>7, RequestMoves

(* The check holds the request to the mandate it carries. *)
LEMMA MandateCheckKeeps ==
  ASSUME Inv, NEW r \in Request, MandateCheck(r)
  PROVE  Inv'
<1>1. /\ TypeOK /\ req[r] \in RequestState /\ Sound(r) /\ Knows(r) /\ now \in Time
      /\ audit' \subseteq Credential \X Action \X Values
      /\ UNCHANGED <<org, cred, mandate, audit>> /\ Step(r)
      /\ req[r].route.action # None
  BY InvBySound DEF MandateCheck, Sound, Knows, At, TypeOK, Step
<1>2. PICK pc \in {"audit", "act"} : pc = IF IsAgent(r) THEN "audit" ELSE "act"
  OBVIOUS
<1>3. PICK q : /\ req' = [req EXCEPT ![r] = q]
               /\ \/ MayAct(r) /\ q = [req[r] EXCEPT !.pc = pc, !.checked = now]
                  \/ q = Idle
  BY <1>2 DEF MandateCheck, Become
<1>4. ASSUME q # Idle
      PROVE  /\ q \in RequestState
             /\ q.cred = req[r].cred /\ q.route = req[r].route /\ q.value = req[r].value
             /\ q.mandate = req[r].mandate /\ q.late = req[r].late /\ q.checked = now
             /\ MayAct(r) /\ q.pc = pc
  BY <1>1, <1>3, <1>4 DEF RequestState
<1>5. q \in RequestState
  BY <1>4, IdleTyped
<1>6. req'[r] = q => Sound(r)'
  <2>1. CASE q = Idle
    BY <2>1, IdleSound
  <2>2. CASE q # Idle
    <3> SUFFICES ASSUME req'[r] = q PROVE Sound(r)'
      OBVIOUS
    <3>1. OrgOf(r)' = OrgOf(r) /\ IsAgent(r)' = IsAgent(r)
      BY <1>1, <1>4, <2>2 DEF OrgOf, IsAgent
    <3>2. IsAgent(r) => Passed(r)'
      <4>1. IsAgent(r) =>
              /\ req[r].mandate # 0
              /\ LET m == mandate[req[r].mandate] IN
                 /\ org[OrgOf(r)].principal = m.principal /\ m.expires > now
                 /\ req[r].route.action \in m.actions /\ req[r].value <= m.max
        BY <1>4, <2>2 DEF MayAct
      <4>2. \A m \in DOMAIN mandate : mandate[m].expires \in Nat /\ now \in Nat
        BY <1>1, MandatesTyped DEF MandateRow, Time
      <4>3. QED
        BY <1>1, <1>4, <2>2, <3>1, <4>1, <4>2 DEF Passed, Knows
    <3>3. Knows(r)'
      BY <1>1, <1>2, <1>4, <2>2, <3>1 DEF Knows, At
    <3>4. QED
      BY <1>1, <1>2, <1>4, <2>2, <3>1, <3>2, <3>3 DEF Sound, At, MandateCheck
  <2>3. QED
    BY <2>1, <2>2
<1>7. QED
  BY <1>1, <1>3, <1>5, <1>6, RequestMoves

LEMMA AuditCheckKeeps ==
  ASSUME Inv, NEW r \in Request, AuditCheck(r)
  PROVE  Inv'
<1>1. /\ req[r] \in RequestState /\ Sound(r) /\ Knows(r) /\ IsAgent(r)
      /\ req[r].route.action # None /\ req[r].pc = "audit"
      /\ audit \subseteq Credential \X Action \X Values
      /\ UNCHANGED <<org, cred, mandate>> /\ Step(r)
  BY InvBySound DEF AuditCheck, Sound, Knows, At, TypeOK, Step
<1>2. audit' = audit \cup {<<req[r].cred, req[r].route.action, req[r].value>>}
  BY DEF AuditCheck
<1>3. audit' \subseteq Credential \X Action \X Values
  BY <1>1, <1>2 DEF Knows, Action
<1>4. PICK q : req' = [req EXCEPT ![r] = q] /\ q = [req[r] EXCEPT !.pc = "act"]
  BY DEF AuditCheck, Become
<1>5. /\ q \in RequestState
      /\ q.cred = req[r].cred /\ q.route = req[r].route /\ q.value = req[r].value
      /\ q.mandate = req[r].mandate /\ q.late = req[r].late /\ q.checked = req[r].checked
      /\ q.pc = "act"
  BY <1>1, <1>4 DEF RequestState
<1>6. req'[r] = q => Sound(r)'
  <2> SUFFICES ASSUME req'[r] = q PROVE Sound(r)'
    OBVIOUS
  <2>1. OrgOf(r)' = OrgOf(r) /\ IsAgent(r)' = IsAgent(r)
    BY <1>1, <1>5 DEF OrgOf, IsAgent
  <2>2. Passed(r)'
    BY <1>1, <1>5, <2>1 DEF Sound, Passed
  <2>3. Knows(r)'
    BY <1>1, <1>5, <2>1 DEF Knows, At
  <2>4. QED
    BY <1>1, <1>2, <1>5, <2>1, <2>2, <2>3 DEF Sound, At
<1>7. QED
  BY <1>1, <1>3, <1>4, <1>5, <1>6, RequestMoves

LEMMA ActKeeps ==
  ASSUME Inv, NEW r \in Request, Act(r)
  PROVE  Inv'
<1>1. req' = [req EXCEPT ![r] = Idle] /\ Step(r) /\ audit' \subseteq Credential \X Action \X Values
  BY DEF Act, Become, Step, Inv, TypeOK
<1>2. QED
  BY <1>1, IdleTyped, IdleSound, RequestMoves

-----------------------------------------------------------------------------
LEMMA NextInv == Inv /\ [Next]_vars => Inv'
<1> SUFFICES ASSUME Inv, [Next]_vars PROVE Inv'
  OBVIOUS
<1>1. CASE UNCHANGED vars
  BY <1>1 DEF vars, compliance, Inv, TypeOK, PrincipalsAnswer, ActsWithinMandate, CheckIsOnRecord,
     RevokedOnlyInFlight, ServedAreAdmitted, KybIsDecided, HandlersKnow, Knows, At, OrgOf, IsAgent,
     Exists
<1>2. CASE Tick
  BY <1>2, TickKeeps
<1>3. CASE Administer
  BY <1>3, CreateOrganisationKeeps, GrantRoleKeeps, SetKybStatusKeeps, ReportKeeps, IssueKeeps,
     RevokeCredentialKeeps, CreateMandateKeeps, RevokeMandateKeeps DEF Administer
<1>4. ASSUME NEW r \in Request, Call(r) PROVE Inv'
  BY <1>4, FindCredentialKeeps DEF Call
<1>5. ASSUME NEW r \in Request, Step(r) PROVE Inv'
  BY <1>5, FindOrganisationKeeps, FindActiveMandateKeeps, MandateCheckKeeps, AuditCheckKeeps,
     ActKeeps DEF Step
<1>6. QED
  BY <1>1, <1>2, <1>3, <1>4, <1>5 DEF Next

(* Whatever administrators revoke while requests are under way, who acts   *)
(* was let in by what was valid when it came, within a mandate, on record. *)
THEOREM WhoMayAct == Spec => []Inv
BY InitInv, NextInv, PTL DEF Spec

(* The check reads the KYB status of the principal, which is the decision. *)
LEMMA PassesOnDecision ==
  ASSUME Inv, [Next]_vars, NEW r \in Request, At(r, "principal"), req'[r].pc = "audit", Production
  PROVE  decided[org[OrgOf(r)].principal] = "VERIFIED"
<1>1. req \in [Request -> RequestState] /\ req[r].pc = "principal"
  BY DEF Inv, TypeOK, At
<1>2. MandateCheck(r)
  <2>1. ASSUME NEW s \in Request, Call(s) \/ Step(s), s # r PROVE FALSE
    BY <1>1, <2>1, Moves
  <2>2. ~ (Tick \/ Administer)
    <3>1. ASSUME Tick \/ Administer PROVE req'[r].pc = req[r].pc
      <4>1. CASE UNCHANGED req
        BY <4>1
      <4>2. ASSUME NEW c, RevokeCredential(c) PROVE req'[r].pc = req[r].pc
        BY <1>1, <4>2 DEF RevokeCredential, Late, RequestState
      <4>3. ASSUME NEW by, NEW m, RevokeMandate(by, m) PROVE req'[r].pc = req[r].pc
        BY <1>1, <4>3 DEF RevokeMandate, Late, RequestState
      <4>4. QED
        BY <3>1, <4>1, <4>2, <4>3 DEF Tick, Administer, CreateOrganisation, GrantRole,
           SetKybStatus, RunComplianceChecks, DiditWebhook, IssueCredential, ProvisionOidcUser,
           CreateMandate
    <3>2. QED
      BY <1>1, <3>1
  <2>3. Call(r) \/ Step(r)
    BY <1>1, <2>1, <2>2 DEF Next, vars
  <2>4. QED
    BY <1>1, <2>3 DEF Call, Step, FindCredential, FindOrganisation, FindActiveMandate, AuditCheck,
       Act, At
<1>3. MayAct(r) /\ IsAgent(r)
  <2>1. req' = [req EXCEPT ![r] = IF MayAct(r)
               THEN [req[r] EXCEPT !.pc = IF IsAgent(r) THEN "audit" ELSE "act", !.checked = now]
               ELSE Idle]
    BY <1>2 DEF MandateCheck, Become
  <2>2. QED
    BY <1>1, <2>1 DEF Idle, RequestState
<1>4. PICK p \in Organisation : p = org[OrgOf(r)].principal /\ org[p].kyb = "VERIFIED"
  <2>1. OrgOf(r) \in Organisation /\ org[OrgOf(r)] # None
    BY <1>1 DEF Inv, HandlersKnow, Knows, At, OrgOf, TypeOK, CredentialRow, Exists
  <2>2. org[OrgOf(r)].principal \in Organisation \cup {None}
    BY <2>1 DEF Inv, TypeOK, OrganisationRow
  <2>3. QED
    BY <1>3, <2>2 DEF MayAct
<1>5. Exists(p)
  <2>1. OrgOf(r) \in Organisation /\ org[OrgOf(r)] # None
    BY <1>1 DEF Inv, HandlersKnow, Knows, At, OrgOf, TypeOK, CredentialRow, Exists
  <2>2. req[r].mandate \in DOMAIN mandate /\ mandate[req[r].mandate].agent = OrgOf(r)
    BY <1>1, <1>3 DEF Inv, HandlersKnow, Knows, At, MayAct
  <2>3. QED
    BY <1>4, <2>1, <2>2 DEF Inv, PrincipalsAnswer
<1>6. QED
  BY <1>4, <1>5 DEF Inv, KybIsDecided

(* In production an agent passes only on what an administrator decided.    *)
THEOREM PassesAreDecided == Spec => PassesOnlyOnDecision
<1>1. Inv /\ [Next]_vars =>
        [\A r \in Request : At(r, "principal") /\ req'[r].pc = "audit" /\ Production =>
           decided[org[OrgOf(r)].principal] = "VERIFIED"]_vars
  BY PassesOnDecision
<1>2. QED
  BY <1>1, WhoMayAct, PTL DEF Spec, PassesOnlyOnDecision
-----------------------------------------------------------------------------
(* The in-memory repository. *)

(* Of the mandates before the m-th, the m-th is the newest if it fits. *)
LEMMA NewestOfMore ==
  ASSUME NEW m \in Nat \ {0}, NEW S \in SUBSET (1 .. m)
  PROVE  Newest(S) = IF m \in S THEN m ELSE Newest(S \cap (1 .. m - 1))
<1>1. CASE m \in S
  <2>1. \A k \in S : (\A n \in S : n <= k) => k = m
    BY <1>1
  <2>2. m \in S /\ \A n \in S : n <= m
    BY <1>1
  <2>3. (CHOOSE k \in S : \A n \in S : n <= k) = m
    BY <2>1, <2>2
  <2>4. QED
    BY <1>1, <2>3 DEF Newest
<1>2. CASE m \notin S
  <2>1. \A k \in S : k \in 1 .. m - 1
    BY <1>2
  <2>2. S \cap (1 .. m - 1) = S
    BY <2>1
  <2>3. QED
    BY <1>2, <2>2
<1>3. QED
  BY <1>1, <1>2

(* The loop of findActiveMandate ends with the newest that fits: so it     *)
(* does after each mandate, and there is no first after which it does not. *)
LEMMA LatestIsNewest ==
  ASSUME NEW o, NEW n \in Nat, NEW fits \in SUBSET (1 .. n), NEW latest,
         latest = [m \in 0 .. n |-> IF m = 0 THEN 0 ELSE IF m \in fits THEN m ELSE latest[m - 1]]
  PROVE  latest[n] = Newest(fits)
<1> DEFINE below == {ss \in Nat \X Nat : ss[1] < ss[2]}
           wrong == {m \in 0 .. n : latest[m] # Newest(fits \cap (1 .. m))}
<1>1. IsWellFoundedOn(below, Nat)
  BY NatLessThanWellFounded DEF OpToRel
<1>2. wrong = {}
  <2>1. SUFFICES ASSUME wrong # {} PROVE FALSE
    OBVIOUS
  <2>2. wrong \subseteq Nat
    OBVIOUS
  <2> HIDE DEF wrong, below
  <2>3. PICK m \in wrong : \A k \in wrong : ~ (<<k, m>> \in below)
    BY <1>1, <2>1, <2>2, WFMin
  <2>4. m \in 0 .. n /\ latest[m] # Newest(fits \cap (1 .. m))
    BY DEF wrong
  <2>5. \A k \in wrong : ~ (k < m)
    BY <2>2, <2>3 DEF below
  <2>6. CASE m = 0
    <3>1. fits \cap (1 .. 0) = {} /\ latest[0] = 0
      OBVIOUS
    <3>2. QED
      BY <2>4, <2>6, <3>1 DEF Newest
  <2>7. CASE m # 0
    <3>1. m - 1 \in 0 .. n /\ m \in Nat \ {0} /\ m - 1 < m
      BY <2>4, <2>7
    <3>2. latest[m - 1] = Newest(fits \cap (1 .. m - 1))
      BY <2>5, <3>1 DEF wrong
    <3>3. latest[m] = IF m \in fits THEN m ELSE latest[m - 1]
      BY <2>4, <2>7
    <3>4. /\ fits \cap (1 .. m) \in SUBSET (1 .. m)
          /\ (fits \cap (1 .. m)) \cap (1 .. m - 1) = fits \cap (1 .. m - 1)
          /\ m \in fits <=> m \in fits \cap (1 .. m)
      BY <3>1
    <3>5. Newest(fits \cap (1 .. m)) = IF m \in fits THEN m ELSE Newest(fits \cap (1 .. m - 1))
      BY <3>1, <3>4, NewestOfMore
    <3>6. QED
      BY <2>4, <3>2, <3>3, <3>5
  <2>8. QED
    BY <2>6, <2>7
<1> HIDE DEF wrong, below
<1>3. n \in 0 .. n /\ fits \cap (1 .. n) = fits
  <2>1. n \in 0 .. n
    OBVIOUS
  <2>2. \A k : k \in fits <=> k \in fits \cap (1 .. n)
    OBVIOUS
  <2>3. QED
    BY <2>1, <2>2
<1>4. latest[n] = Newest(fits \cap (1 .. n))
  <2>1. n \notin wrong
    BY <1>2
  <2>2. QED
    BY <1>3, <2>1 DEF wrong
<1>5. QED
  BY <1>3, <1>4

(* There is such a loop: it holds the newest of those before it. *)
LEMMA LatestExists ==
  ASSUME NEW n \in Nat, NEW fits \in SUBSET (1 .. n)
  PROVE  \E latest : latest =
           [m \in 0 .. n |-> IF m = 0 THEN 0 ELSE IF m \in fits THEN m ELSE latest[m - 1]]
<1> DEFINE so == [m \in 0 .. n |-> Newest(fits \cap (1 .. m))]
           loop == [m \in 0 .. n |-> IF m = 0 THEN 0 ELSE IF m \in fits THEN m ELSE so[m - 1]]
<1>1. ASSUME NEW m \in 0 .. n PROVE so[m] = loop[m]
  <2>1. CASE m = 0
    <3>1. fits \cap (1 .. 0) = {}
      OBVIOUS
    <3>2. QED
      BY <2>1, <3>1 DEF Newest
  <2>2. CASE m # 0
    <3>1. m - 1 \in 0 .. n /\ m \in Nat \ {0}
      BY <2>2
    <3>2. /\ fits \cap (1 .. m) \in SUBSET (1 .. m)
          /\ (fits \cap (1 .. m)) \cap (1 .. m - 1) = fits \cap (1 .. m - 1)
          /\ m \in fits <=> m \in fits \cap (1 .. m)
      BY <3>1
    <3>3. Newest(fits \cap (1 .. m)) = IF m \in fits THEN m ELSE Newest(fits \cap (1 .. m - 1))
      BY <3>1, <3>2, NewestOfMore
    <3>4. QED
      BY <2>2, <3>1, <3>3
  <2>3. QED
    BY <2>1, <2>2
<1>2. so = loop
  BY <1>1
<1>3. QED
  BY <1>2

(* So the memory's mandate in force is the database's. *)
LEMMA SameMandate ==
  ASSUME NEW o, mem.mandates = mandate, mandate \in Seq(MandateRow)
  PROVE  MemLatest(o) = ActiveMandate(o)
<1> DEFINE n == Len(mandate)
           fits == {m \in DOMAIN mandate : mandate[m].agent = o /\ ~ mandate[m].revoked}
           loop(f) == [m \in 0 .. Len(mem.mandates) |->
             IF m = 0 THEN 0
             ELSE IF mem.mandates[m].agent = o /\ ~ mem.mandates[m].revoked THEN m ELSE f[m - 1]]
           latest == CHOOSE f : f = loop(f)
<1>1. n \in Nat /\ fits \in SUBSET (1 .. n) /\ DOMAIN mandate = 1 .. n
  OBVIOUS
<1>2. MemLatest(o) = latest[n]
  BY DEF MemLatest
<1>3. ASSUME NEW f
      PROVE  loop(f) = [m \in 0 .. n |-> IF m = 0 THEN 0 ELSE IF m \in fits THEN m ELSE f[m - 1]]
  BY <1>1
<1> HIDE DEF n, fits, loop
<1>4. \E f : f = loop(f)
  <2>1. PICK f : f = [m \in 0 .. n |-> IF m = 0 THEN 0 ELSE IF m \in fits THEN m ELSE f[m - 1]]
    BY <1>1, LatestExists
  <2>2. QED
    BY <1>3, <2>1
<1>5. latest = loop(latest)
  BY <1>4
<1> HIDE DEF latest
<1>6. latest[n] = Newest(fits)
  BY <1>1, <1>3, <1>5, LatestIsNewest
<1>7. QED
  BY <1>2, <1>6 DEF fits, ActiveMandate

LEMMA MemNextIsNext == [MemNext]_memVars => [Next]_vars
  BY DEF MemNext, Next, memVars, AdministerBoth, Elsewhere, Administer, CreateOrganisationBoth,
     GrantRoleBoth, SetKybStatusBoth, IssueCredentialBoth, ProvisionOidcUserBoth,
     RevokeCredentialBoth, CreateMandateBoth, RevokeMandateBoth
(* The maps of the memory hold the rows of the tables: keys and people are *)
(* apart in it, and no row is in both.                                     *)
RowsAgree ==
  /\ mem = [orgs |-> mem.orgs, keys |-> mem.keys, users |-> mem.users, mandates |-> mem.mandates]
  /\ mem.orgs = org /\ mem.mandates = mandate
  /\ DOMAIN mem.keys = Credential /\ DOMAIN mem.users = Credential
  /\ \A c \in Credential :
       /\ mem.keys[c] = IF FoundKey(c) THEN cred[c] ELSE None
       /\ mem.users[c] = IF FoundUser(c) THEN cred[c] ELSE None

LEMMA OrganisationsAgree ==
  ASSUME RowsAgree, NEW orgs, org' = orgs, mem' = [mem EXCEPT !.orgs = orgs],
         UNCHANGED <<cred, mandate>>
  PROVE  RowsAgree'
<1>1. mem' = [orgs |-> orgs, keys |-> mem.keys, users |-> mem.users, mandates |-> mem.mandates]
  BY DEF RowsAgree
<1>2. QED
  BY <1>1 DEF RowsAgree, FoundKey, FoundUser

LEMMA MandatesAgree ==
  ASSUME RowsAgree, NEW rows, mandate' = rows, mem' = [mem EXCEPT !.mandates = rows],
         UNCHANGED <<cred, org>>
  PROVE  RowsAgree'
<1>1. mem' = [orgs |-> mem.orgs, keys |-> mem.keys, users |-> mem.users, mandates |-> rows]
  BY DEF RowsAgree
<1>2. QED
  BY <1>1 DEF RowsAgree, FoundKey, FoundUser

LEMMA KeysAgree ==
  ASSUME TypeOK, RowsAgree, NEW c \in Credential, NEW row \in CredentialRow, ~ row.oidc,
         cred[c] = None \/ FoundKey(c),
         cred' = [cred EXCEPT ![c] = row],
         mem' = [mem EXCEPT !.keys = [mem.keys EXCEPT ![c] = row]], UNCHANGED <<org, mandate>>
  PROVE  RowsAgree'
<1>1. row # None /\ DOMAIN cred = Credential
  BY DEF TypeOK
<1>2. mem' = [orgs |-> mem.orgs, keys |-> [mem.keys EXCEPT ![c] = row], users |-> mem.users,
              mandates |-> mem.mandates]
  BY DEF RowsAgree
<1>3. QED
  BY <1>1, <1>2 DEF RowsAgree, FoundKey, FoundUser

LEMMA UsersAgree ==
  ASSUME TypeOK, RowsAgree, NEW c \in Credential, NEW row \in CredentialRow, row.oidc,
         cred[c] = None, cred' = [cred EXCEPT ![c] = row],
         mem' = [mem EXCEPT !.users = [mem.users EXCEPT ![c] = row]], UNCHANGED <<org, mandate>>
  PROVE  RowsAgree'
<1>1. row # None /\ DOMAIN cred = Credential
  BY DEF TypeOK
<1>2. mem' = [orgs |-> mem.orgs, keys |-> mem.keys, users |-> [mem.users EXCEPT ![c] = row],
              mandates |-> mem.mandates]
  BY DEF RowsAgree
<1>3. QED
  BY <1>1, <1>2 DEF RowsAgree, FoundKey, FoundUser

LEMMA AdministerAgrees ==
  ASSUME Inv, RowsAgree, AdministerBoth
  PROVE  RowsAgree'
<1>1. ASSUME NEW o \in Organisation, NEW kind \in Kinds, NEW principal,
             CreateOrganisationBoth(o, kind, principal)
      PROVE  RowsAgree'
  BY <1>1, OrganisationsAgree DEF CreateOrganisationBoth, CreateOrganisation, InsertOrganisation,
     MemCreateOrganisation, RowsAgree
<1>2. ASSUME NEW o \in Organisation, NEW role \in Role, GrantRoleBoth(o, role)
      PROVE  RowsAgree'
  BY <1>2, OrganisationsAgree DEF GrantRoleBoth, GrantRole, UpsertRole, MemGrantRole, RowsAgree
<1>3. ASSUME NEW o \in Organisation, NEW status \in KybStatus, SetKybStatusBoth(o, status)
      PROVE  RowsAgree'
  BY <1>3, OrganisationsAgree DEF SetKybStatusBoth, SetKybStatus, UpdateKybStatus, MemSetKybStatus,
     RowsAgree
<1>4. ASSUME NEW c \in Credential, NEW input \in CredentialInputs, IssueCredentialBoth(c, input)
      PROVE  RowsAgree'
  <2>1. PICK row : row = [org |-> input.org,
          kind |-> IF input.kind = None THEN "SERVICE" ELSE input.kind,
          scopes |-> input.scopes, expires |-> input.expires, oidc |-> FALSE, revoked |-> FALSE]
    OBVIOUS
  <2>2. input \in CredentialInput /\ TypeOK
    BY DEF Inv
  <2>3. row \in CredentialRow /\ row.oidc = FALSE
    BY <2>1, <2>2 DEF CredentialInput, CredentialRow, SubjectKinds
  <2>4. cred[c] = None /\ cred' = [cred EXCEPT ![c] = row] /\ UNCHANGED <<org, mandate>>
    BY <1>4, <2>1 DEF IssueCredentialBoth, IssueCredential, InsertCredential
  <2>5. cred'[c] = row
    BY <2>2, <2>4 DEF TypeOK
  <2>6. mem' = [mem EXCEPT !.keys = [mem.keys EXCEPT ![c] = row]]
    BY <1>4, <2>5 DEF IssueCredentialBoth, MemCreateCredential, RowsAgree
  <2>7. QED
    BY <2>2, <2>3, <2>4, <2>6, KeysAgree
<1>5. ASSUME NEW c \in Credential, NEW input \in CredentialInputs, ProvisionOidcUserBoth(c, input)
      PROVE  RowsAgree'
  <2>1. PICK row : row = [org |-> input.org, kind |-> "USER", scopes |-> input.scopes,
          expires |-> input.expires, oidc |-> TRUE, revoked |-> FALSE]
    OBVIOUS
  <2>2. input \in CredentialInput /\ TypeOK
    BY DEF Inv
  <2>3. row \in CredentialRow /\ row.oidc = TRUE
    BY <2>1, <2>2 DEF CredentialInput, CredentialRow, SubjectKinds
  <2>4. cred[c] = None /\ cred' = [cred EXCEPT ![c] = row] /\ UNCHANGED <<org, mandate>>
    BY <1>5, <2>1 DEF ProvisionOidcUserBoth, ProvisionOidcUser, InsertUser
  <2>5. cred'[c] = row
    BY <2>2, <2>4 DEF TypeOK
  <2>6. mem' = [mem EXCEPT !.users = [mem.users EXCEPT ![c] = row]]
    BY <1>5, <2>5 DEF ProvisionOidcUserBoth, MemCreateUser, RowsAgree
  <2>7. QED
    BY <2>2, <2>3, <2>4, <2>6, UsersAgree
<1>6. ASSUME NEW c \in Credential, RevokeCredentialBoth(c) PROVE RowsAgree'
  <2>1. PICK row : row = [cred[c] EXCEPT !.revoked = TRUE]
    OBVIOUS
  <2>2. TypeOK /\ FoundKey(c) /\ cred[c] \in CredentialRow
    BY <1>6 DEF Inv, TypeOK, RevokeCredentialBoth, RevokeCredential, FoundKey
  <2>3. row \in CredentialRow /\ ~ row.oidc
    BY <2>1, <2>2 DEF CredentialRow, FoundKey
  <2>4. cred' = [cred EXCEPT ![c] = row] /\ UNCHANGED <<org, mandate>>
    BY <1>6, <2>1 DEF RevokeCredentialBoth, RevokeCredential, UpdateRevokedAt
  <2>5. mem.keys[c] = cred[c] /\ mem.keys[c] # None
    BY <2>2 DEF RowsAgree
  <2>6. mem' = [mem EXCEPT !.keys = [mem.keys EXCEPT ![c] = row]]
    BY <1>6, <2>1, <2>5 DEF RevokeCredentialBoth, MemRevokeCredential
  <2>7. QED
    BY <2>2, <2>3, <2>4, <2>6, KeysAgree
<1>7. ASSUME NEW by \in Organisation, NEW agent \in Organisation, NEW input \in MandateInputs,
             CreateMandateBoth(by, agent, input)
      PROVE  RowsAgree'
  <2>1. PICK row : row = [agent |-> agent, principal |-> org[agent].principal,
          actions |-> input.actions, max |-> input.max, expires |-> input.expires, revoked |-> FALSE]
    OBVIOUS
  <2>2. mandate' = Append(mandate, row) /\ UNCHANGED <<cred, org>>
    BY <1>7, <2>1 DEF CreateMandateBoth, CreateMandate, InsertMandate
  <2>3. input \in MandateInput /\ org[agent].principal \in Organisation /\ mandate \in Seq(MandateRow)
    BY <1>7 DEF CreateMandateBoth, CreateMandate, Inv, TypeOK
  <2>4. row \in MandateRow
    BY <2>1, <2>3 DEF MandateInput, MandateRow
  <2>5. mandate'[Len(mandate')] = row
    BY <2>2, <2>3, <2>4
  <2>6. mem' = [mem EXCEPT !.mandates = Append(mandate, row)]
    BY <1>7, <2>5 DEF CreateMandateBoth, MemCreateMandate, RowsAgree
  <2>7. QED
    BY <2>2, <2>6, MandatesAgree
<1>8. ASSUME NEW by \in Organisation, NEW m \in DOMAIN mandate, RevokeMandateBoth(by, m)
      PROVE  RowsAgree'
  <2>1. mandate' = [mandate EXCEPT ![m].revoked = TRUE] /\ UNCHANGED <<cred, org>>
    BY <1>8 DEF RevokeMandateBoth, RevokeMandate, UpdateMandateRevokedAt
  <2>2. mem' = [mem EXCEPT !.mandates = [mandate EXCEPT ![m].revoked = TRUE]]
    BY <1>8 DEF RevokeMandateBoth, MemRevokeMandate, RowsAgree
  <2>3. QED
    BY <2>1, <2>2, MandatesAgree
<1>9. QED
  BY <1>1, <1>2, <1>3, <1>4, <1>5, <1>6, <1>7, <1>8 DEF AdministerBoth

(* Whatever has been written, the repository the tests run on answers the  *)
(* guard as the database does: the same organisation, key and person, and  *)
(* the same mandate in force, found by its loop instead of by an order.    *)
THEOREM IdentityMemory == MemSpec => []MemoryAgrees
<1> DEFINE Agree == Inv /\ RowsAgree
<1>1. Init /\ MemInit => Agree
  BY InitInv DEF MemInit, Init, RowsAgree, FoundKey, FoundUser
<1>2. Agree /\ [MemNext]_memVars => Agree'
  <2> SUFFICES ASSUME Agree, [MemNext]_memVars PROVE Agree'
    OBVIOUS
  <2>1. Inv'
    BY NextInv, MemNextIsNext
  <2>2. ASSUME UNCHANGED <<org, cred, mandate, mem>> PROVE RowsAgree'
    BY <2>2 DEF RowsAgree, FoundKey, FoundUser
  <2>3. Elsewhere => UNCHANGED <<org, cred, mandate, mem>>
    BY DEF Elsewhere, Tick, RunComplianceChecks, DiditWebhook, Call, Step, FindCredential,
       FindOrganisation, FindActiveMandate, MandateCheck, AuditCheck, Act
  <2>4. RowsAgree'
    BY <2>2, <2>3, AdministerAgrees DEF MemNext, memVars, vars
  <2>5. QED
    BY <2>1, <2>4
<1>3. Agree => MemoryAgrees
  BY SameMandate DEF Inv, TypeOK, RowsAgree, MemoryAgrees, MemFindCredentialByKeyId,
     MemFindUserByOidcSubject
<1>4. QED
  BY <1>1, <1>2, <1>3, PTL DEF MemSpec
=============================================================================
