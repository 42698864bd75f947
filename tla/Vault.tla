------------------------------- MODULE Vault -------------------------------
(***************************************************************************)
(* The stablecoin vault of packages/contracts: SyndicationVaultFacet locks *)
(* the capital of a bound syndication, ClaimTriggerFacet releases a payout *)
(* of it and ExpiryFacet returns it.  A transaction sends its transfers    *)
(* one by one and the token may call back at each of them, so another call *)
(* can start in the middle; the guard in the shared storage is what keeps  *)
(* it out.  A transfer that fails undoes the whole transaction.            *)
(*                                                                         *)
(* The token is external: an ERC-20 with one balance for each account.     *)
(* Signatures are external too: a set of what has been signed.             *)
(***************************************************************************)
EXTENDS Money, Sequences, SequencesExt

CONSTANTS
  Bundle,       \* syndication ids
  Participant,  \* addresses of capital providers
  Governance,   \* addresses that may be given governance
  Relayer,      \* addresses that may be the relayer
  Signer,       \* addresses that may be the attestation signer
  Funds,        \* what each participant owns at first
  LockInputs,   \* what the relayer locks: participants, amounts, shares, mode, expiry
  Payouts,      \* payout amounts, in minor units
  Fees,         \* fee parameters that governance sets
  Denominator,  \* BPS_DENOMINATOR
  MaxSigned,    \* bound: attestations signed
  MaxTime,      \* bound: block.timestamp
  Unset         \* no value

VARIABLES
  bundle,      \* VaultStorage.bundles
  roles,       \* governance, relayer and attestationSigner
  fees,        \* baseSettlementFeeBps and oraclePremiumBps
  entered,     \* reentrancyLocked
  balance,     \* external: the token balances
  signed,      \* external: attestations, as <<signer, bundle, payout>>
  now,         \* block.timestamp
  calls,       \* the calls under way, the innermost last
  saved,       \* the state before the transaction, for its reversal
  claimed,     \* history: the payout a bundle was released for
  attestor,    \* history: who was the attestationSigner at that release
  sent         \* history: what each participant of a bundle has received, by place

storage == <<bundle, roles, fees, entered>>
vaultVars == <<bundle, roles, fees, entered, balance, signed, now, calls, saved, claimed,
              attestor, sent>>

Vault == "vault"
Account == Participant \cup {Vault}
Mode == {"ATTESTATION", "ORACLE"}
Places(input) == DOMAIN input.participants

LockInput == [participants : Seq(Participant), amounts : Seq(Nat), bps : Seq(Nat),
              oracle : Seq(BOOLEAN), expires : 0 .. MaxTime]

ASSUME VaultAssumption ==
  /\ Denominator \in Nat \ {0}
  /\ Funds \in Nat /\ MaxTime \in Nat /\ MaxSigned \in Nat
  /\ LockInputs \subseteq LockInput
  /\ Payouts \subseteq Nat
  /\ Fees \subseteq [base : Nat, premium : Nat]
  /\ Vault \notin Participant
  /\ Unset \notin Governance \cup Relayer \cup Signer

NoBundle == [status |-> "NONE"]
Locked(b) == bundle[b].status = "LOCKED"

(* A leg of a call: who pays whom how much.  The legs of a call that are   *)
(* still to come are a function of the place in the bundle they are for.   *)
Leg(from, to, amount) == [from |-> from, to |-> to, amount |-> amount]

-----------------------------------------------------------------------------
Snapshot == [bundle |-> bundle, balance |-> balance, claimed |-> claimed,
             attestor |-> attestor, sent |-> sent]

(* nonReentrant: refused while a call is under way, else the guard is set. *)
Enter(call) ==
  /\ ~ entered
  /\ entered' = TRUE
  /\ calls' = Append(calls, call)
  /\ saved' = IF calls = <<>> THEN Snapshot ELSE saved

(* Every participant has its amount, its share and its preference. *)
Matching(input) ==
  /\ DOMAIN input.amounts = Places(input)
  /\ DOMAIN input.bps = Places(input)
  /\ DOMAIN input.oracle = Places(input)

(* lockCapital's trigger mode: one participant asks, and all get it. *)
ModeOf(input) ==
  IF \E i \in DOMAIN input.oracle : input.oracle[i] THEN "ORACLE" ELSE "ATTESTATION"

(* Mutant of LockCapital: an id is locked again when its bundle has ended. *)
LockCapitalAgain(b, input) ==
  /\ roles.relayer # Unset
  /\ input.participants # <<>> /\ Matching(input)
  /\ ~ Locked(b)
  /\ SumOver(input.bps, DOMAIN input.bps) = Denominator
  /\ bundle' = [bundle EXCEPT ![b] =
       [status |-> "LOCKED", amount |-> SumOver(input.amounts, Places(input)),
        participants |-> input.participants, bps |-> input.bps, mode |-> ModeOf(input),
        expires |-> input.expires, put |-> input.amounts]]
  /\ sent' = [sent EXCEPT ![b] = [i \in Places(input) |-> 0]]
  /\ Enter([bundle |-> b, legs |->
       [i \in Places(input) |-> Leg(input.participants[i], Vault, input.amounts[i])]])
  /\ UNCHANGED <<roles, fees, balance, signed, now, claimed, attestor>>

(***************************************************************************)
(* lockCapital, by the relayer, once for an id and for complete shares:    *)
(* the bundle is stored as LOCKED, then the participants are charged.      *)
(***************************************************************************)
LockCapital(b, input) ==
  /\ roles.relayer # Unset
  /\ input.participants # <<>> /\ Matching(input)
  /\ bundle[b].status = "NONE"
  /\ SumOver(input.bps, DOMAIN input.bps) = Denominator
  /\ bundle' = [bundle EXCEPT ![b] =
       [status |-> "LOCKED", amount |-> SumOver(input.amounts, Places(input)),
        participants |-> input.participants, bps |-> input.bps, mode |-> ModeOf(input),
        expires |-> input.expires, put |-> input.amounts]]
  /\ sent' = [sent EXCEPT ![b] = [i \in Places(input) |-> 0]]
  /\ Enter([bundle |-> b, legs |->
       [i \in Places(input) |-> Leg(input.participants[i], Vault, input.amounts[i])]])
  /\ UNCHANGED <<roles, fees, balance, signed, now, claimed, attestor>>

(* The part of total that place i of a bundle gets. *)
Share(row, total, i) == (total * row.bps[i]) \div Denominator

(* The legs that pay total out by the shares, zero shares left out. *)
Shares(b, total) ==
  [i \in {i \in DOMAIN bundle[b].participants : Share(bundle[b], total, i) > 0} |->
     Leg(Vault, bundle[b].participants[i], Share(bundle[b], total, i))]

(* PricingLib.settlementFeeBps and feeAmount. *)
Fee(b, payout) ==
  LET bps == fees.base + (IF bundle[b].mode = "ORACLE" THEN fees.premium ELSE 0)
  IN  (payout * bps) \div Denominator

(* Mutant of Attested: any signature will do, whoever signs for the vault. *)
AttestedByAny(b, payout) ==
  bundle[b].mode = "ATTESTATION" /\ \E s \in Signer : <<s, b, payout>> \in signed

(* _verifyAttestation, by the signer of now; ORACLE mode always reverts. *)
Attested(b, payout) ==
  bundle[b].mode = "ATTESTATION" /\ roles.signer # Unset /\ <<roles.signer, b, payout>> \in signed

(***************************************************************************)
(* releaseClaim, by anyone who has an attestation.  A fee above the payout *)
(* underflows and reverts; the fee itself is sent nowhere.                 *)
(***************************************************************************)
ReleaseClaim(b, payout) ==
  /\ Locked(b)
  /\ payout <= bundle[b].amount
  /\ Attested(b, payout)
  /\ Fee(b, payout) <= payout
  /\ bundle' = [bundle EXCEPT ![b].status = "RELEASED"]
  /\ claimed' = [claimed EXCEPT ![b] = payout]
  /\ attestor' = [attestor EXCEPT ![b] = roles.signer]
  /\ Enter([bundle |-> b, legs |-> Shares(b, payout - Fee(b, payout))])
  /\ UNCHANGED <<roles, fees, balance, signed, now, sent>>

(* Mutant of ReturnCapital: the bundle stays LOCKED. *)
ReturnCapitalLocked(b) ==
  /\ Locked(b)
  /\ now >= bundle[b].expires
  /\ Enter([bundle |-> b, legs |-> Shares(b, bundle[b].amount)])
  /\ UNCHANGED <<bundle, roles, fees, balance, signed, now, claimed, attestor, sent>>

(* returnCapital, by anyone once the coverage has expired. *)
ReturnCapital(b) ==
  /\ Locked(b)
  /\ now >= bundle[b].expires
  /\ bundle' = [bundle EXCEPT ![b].status = "RETURNED"]
  /\ Enter([bundle |-> b, legs |-> Shares(b, bundle[b].amount)])
  /\ UNCHANGED <<roles, fees, balance, signed, now, claimed, attestor, sent>>

-----------------------------------------------------------------------------
Innermost == calls[Len(calls)]

(* The next leg of the innermost call: its places are served in order. *)
Due(i) == calls # <<>> /\ i \in DOMAIN Innermost.legs /\ \A j \in DOMAIN Innermost.legs : i <= j

(* safeTransferFrom and safeTransfer: the leg for place i is paid. *)
Transfer(i) ==
  LET leg == Innermost.legs[i] IN
  /\ Due(i)
  /\ balance[leg.from] >= leg.amount
  /\ balance' = [balance EXCEPT ![leg.from] = @ - leg.amount, ![leg.to] = @ + leg.amount]
  /\ sent' = IF leg.from = Vault
             THEN [sent EXCEPT ![Innermost.bundle][i] = @ + leg.amount] ELSE sent
  /\ calls' = [calls EXCEPT ![Len(calls)].legs = Restrict(@, DOMAIN @ \ {i})]
  /\ UNCHANGED <<bundle, roles, fees, entered, signed, now, saved, claimed, attestor>>

(* A transfer fails: the transaction never was. *)
Revert(i) ==
  /\ Due(i)
  /\ balance[Innermost.legs[i].from] < Innermost.legs[i].amount
  /\ bundle' = saved.bundle /\ balance' = saved.balance
  /\ claimed' = saved.claimed /\ attestor' = saved.attestor /\ sent' = saved.sent
  /\ calls' = <<>>
  /\ entered' = FALSE
  /\ saved' = Unset
  /\ UNCHANGED <<roles, fees, signed, now>>

(* A call is through: the guard is lifted and the caller goes on. *)
Return ==
  /\ calls # <<>> /\ DOMAIN Innermost.legs = {}
  /\ calls' = Front(calls)
  /\ entered' = FALSE
  /\ saved' = IF Len(calls) = 1 THEN Unset ELSE saved
  /\ UNCHANGED <<bundle, roles, fees, balance, signed, now, claimed, attestor, sent>>

(* Between transactions. *)
Quiet == calls = <<>>

(* initializeGovernance, by anyone, once. *)
InitializeGovernance(g) ==
  /\ Quiet
  /\ roles.governance = Unset
  /\ roles' = [roles EXCEPT !.governance = g]
  /\ UNCHANGED <<bundle, fees, entered, balance, signed, now, calls, saved, claimed,
                 attestor, sent>>

(* setRelayer and setAttestationSigner, by governance: one leaves the      *)
(* other alone.                                                            *)
SetRole(role, address) ==
  /\ Quiet
  /\ roles.governance # Unset
  /\ roles' = [roles EXCEPT ![role] = address]
  /\ UNCHANGED <<bundle, fees, entered, balance, signed, now, calls, saved, claimed,
                 attestor, sent>>

(* setFeeParameters, by governance: no limit on either. *)
SetFeeParameters(f) ==
  /\ Quiet
  /\ roles.governance # Unset
  /\ fees' = f
  /\ UNCHANGED <<bundle, roles, entered, balance, signed, now, calls, saved, claimed,
                 attestor, sent>>

(* External: the holder of a signing key attests an approved claim. *)
Attest(s, b, payout) ==
  /\ Quiet
  /\ Cardinality(signed) < MaxSigned
  /\ signed' = signed \cup {<<s, b, payout>>}
  /\ UNCHANGED <<storage, balance, now, calls, saved, claimed, attestor, sent>>

(* External: a participant spends the token elsewhere. *)
Spend(p) ==
  /\ Quiet
  /\ balance[p] > 0
  /\ balance' = [balance EXCEPT ![p] = 0]
  /\ UNCHANGED <<storage, signed, now, calls, saved, claimed, attestor, sent>>

Tick ==
  /\ Quiet
  /\ now < MaxTime
  /\ now' = now + 1
  /\ UNCHANGED <<storage, balance, signed, calls, saved, claimed, attestor, sent>>

-----------------------------------------------------------------------------
VaultInit ==
  /\ bundle = [b \in Bundle |-> NoBundle]
  /\ roles = [governance |-> Unset, relayer |-> Unset, signer |-> Unset]
  /\ fees = [base |-> 0, premium |-> 0]
  /\ entered = FALSE
  /\ balance = [a \in Account |-> IF a = Vault THEN 0 ELSE Funds]
  /\ signed = {}
  /\ now = 0
  /\ calls = <<>>
  /\ saved = Unset
  /\ claimed = [b \in Bundle |-> 0]
  /\ attestor = [b \in Bundle |-> Unset]
  /\ sent = [b \in Bundle |-> <<>>]

Govern ==
  \/ \E g \in Governance : InitializeGovernance(g)
  \/ \E r \in Relayer : SetRole("relayer", r)
  \/ \E s \in Signer : SetRole("signer", s)
  \/ \E f \in Fees : SetFeeParameters(f)

(* Open to callers at any time, a token's callback included. *)
Operate ==
  \/ \E b \in Bundle, input \in LockInputs : LockCapital(b, input)
  \/ \E b \in Bundle, payout \in Payouts : ReleaseClaim(b, payout)
  \/ \E b \in Bundle : ReturnCapital(b)

Environment ==
  \/ \E s \in Signer, b \in Bundle, payout \in Payouts : Attest(s, b, payout)
  \/ \E p \in Participant : Spend(p)
  \/ Tick

(* The call that is under way goes on. *)
Proceed == \E i \in UNION {DOMAIN calls[c].legs : c \in DOMAIN calls} : Transfer(i) \/ Revert(i)

VaultNext == Operate \/ Proceed \/ Return \/ Govern \/ Environment

VaultSpec == VaultInit /\ [][VaultNext]_vaultVars

-----------------------------------------------------------------------------
(* Type invariant. *)
VaultTypeOK ==
  /\ \A b \in Bundle : bundle[b] = NoBundle \/
       /\ bundle[b].status \in {"LOCKED", "RELEASED", "RETURNED"}
       /\ bundle[b].mode \in Mode /\ bundle[b].amount \in Nat
       /\ DOMAIN sent[b] = DOMAIN bundle[b].participants
  /\ roles \in [governance : Governance \cup {Unset}, relayer : Relayer \cup {Unset},
                signer : Signer \cup {Unset}]
  /\ fees \in Fees \cup {[base |-> 0, premium |-> 0]}
  /\ entered <=> ~ Quiet
  /\ balance \in [Account -> Nat]
  /\ signed \subseteq Signer \X Bundle \X Payouts
  /\ now \in 0 .. MaxTime

(* What the legs of a call that are still to come move into an account and *)
(* out of it.                                                              *)
Incoming(legs, a) ==
  SumOver([i \in DOMAIN legs |-> IF legs[i].to = a THEN legs[i].amount ELSE 0], DOMAIN legs)
Outgoing(legs, a) ==
  SumOver([i \in DOMAIN legs |-> IF legs[i].from = a THEN legs[i].amount ELSE 0], DOMAIN legs)

MovingIn == SumOver([c \in DOMAIN calls |-> Incoming(calls[c].legs, Vault)], DOMAIN calls)
MovingOut == SumOver([c \in DOMAIN calls |-> Outgoing(calls[c].legs, Vault)], DOMAIN calls)

(* What is locked, in all. *)
Held(rows) == SumOver([b \in Bundle |-> rows[b].amount], {b \in Bundle : rows[b].status = "LOCKED"})

(***************************************************************************)
(* The vault owns what it owes: its balance and what is still coming in    *)
(* cover every bundle that is LOCKED and what is still going out, at every *)
(* transfer and whatever the token calls back.                             *)
(***************************************************************************)
Solvent ==
  balance[Vault] + MovingIn >= MovingOut + Held(bundle)

(* The storage is well formed and the vault owns what it owes. *)
VaultInv == VaultTypeOK /\ Solvent

Paid(b) == SumOver(sent[b], DOMAIN sent[b])

(* A bundle is released only on an attestation of its payout, which is at  *)
(* most what was locked, by who was the signer at the release; an ORACLE   *)
(* bundle never is.                                                        *)
ReleasedOnAttestation ==
  \A b \in Bundle : bundle[b].status = "RELEASED" =>
    /\ claimed[b] <= bundle[b].amount
    /\ bundle[b].mode = "ATTESTATION"
    /\ <<attestor[b], b, claimed[b]>> \in signed

(* A bundle is paid for once: a released one at most the payout that was   *)
(* attested, and any other at most what was put in.                        *)
PaidWithinLock ==
  /\ ReleasedOnAttestation
  /\ \A b \in Bundle :
       /\ bundle[b].status = "NONE" \/ Locked(b) => Paid(b) = 0
       /\ bundle[b].status = "RETURNED" => Paid(b) <= bundle[b].amount
       /\ bundle[b].status = "RELEASED" => Paid(b) <= claimed[b]

(***************************************************************************)
(* Who put in its share gets it back: a participant whose amount is its    *)
(* share of the bundle, rounded either way, is returned no more than that  *)
(* and at most one minor unit less, each time it takes part.               *)
(***************************************************************************)
FairReturn ==
  Quiet => \A b \in Bundle : bundle[b].status = "RETURNED" =>
    \A i \in DOMAIN bundle[b].participants :
      LET exact == bundle[b].amount * bundle[b].bps[i]  put == bundle[b].put[i] * Denominator IN
      put < exact + Denominator /\ exact < put + Denominator =>
        sent[b][i] \in {bundle[b].put[i] - 1, bundle[b].put[i]}

(* What the participants of a bundle have received, by the way it ended. *)
PaidOut == PaidWithinLock /\ FairReturn

(***************************************************************************)
(* What is locked leaves for good and only by one way: a bundle that had   *)
(* ended before a transaction began is as it was at every transfer of the  *)
(* transaction, whatever the token calls back, and also when it reverts.   *)
(***************************************************************************)
Ended(b) == b.status \in {"RELEASED", "RETURNED"}

EndsOnce ==
  [][\A b \in Bundle :
       LET before == IF Quiet THEN Snapshot ELSE saved IN
       Ended(before.bundle[b]) =>
         bundle'[b] = before.bundle[b] /\ claimed'[b] = before.claimed[b]]_vaultVars
=============================================================================
