----------------------------- MODULE Settlement -----------------------------
(***************************************************************************)
(* SettlementService.initiate and the rails it pays through: the Null      *)
(* provider, Stripe, and OpenFireblocks for stablecoins, behind the router *)
(* that createSettlementProvider builds.  A rail is another system: it may *)
(* act and then answer with an error, or its answer may be lost, and a     *)
(* workflow of OpenFireblocks goes on when the poll for it has given up.   *)
(* Every request is a process; each awaited call is one step.              *)
(***************************************************************************)
EXTENDS Money

CONSTANTS
  Transaction,  \* ids of settlement transactions
  Request,      \* slots for requests that are handled concurrently
  Orders,       \* what callers ask to be settled
  Full,         \* 10_000 basis points
  Crashes,      \* TRUE if a process may die in the middle of a handler
  None          \* no value

VARIABLES
  rails,     \* the deployment: which adapters the environment configures
  row,       \* the SettlementTransaction rows
  audit,     \* the AuditRecords, as <<decision, transaction>>
  req,       \* where each request is in its handler
  transfer,  \* external: what Stripe has done for an idempotency key
  workflow,  \* external: OpenFireblocks' workflow for a transaction
  lost,      \* history: transactions whose handler died or threw
  told       \* history: transactions for which the rail's own id was told

vars == <<rails, row, audit, req, transfer, workflow, lost, told>>

Methods == {"BANK_TRANSFER", "DIGITAL_MONEY", "STABLECOIN"}
Destinations == {"account", "address", None}
Currencies == {"token", "other"}  \* one with a configured token and one without
Statuses == {"PENDING", "SUBMITTED", "CONFIRMED", "FAILED"}
Results == {"denied", "signed", "broadcasted", "confirmed", "failed"}

(* InitiateSettlementDto, with the fee configuration that applies. *)
Order == [method : Methods, destination : Destinations, currency : Currencies,
          gross : Nat \ {0}, fee : [flat : Nat, bps : 0 .. Full]]

ASSUME SettlementAssumption ==
  /\ Full \in Nat \ {0}
  /\ Orders \subseteq Order
  /\ Crashes \in BOOLEAN
  /\ None \notin Nat \cup STRING \cup Transaction

-----------------------------------------------------------------------------
(* packages/domain/src/settlement.ts *)

(* SETTLEMENT_TRANSITIONS *)
Transitions == [s \in Statuses |->
  CASE s = "PENDING"   -> {"SUBMITTED", "FAILED"}
    [] s = "SUBMITTED" -> {"CONFIRMED", "FAILED"}
    [] OTHER           -> {}]

(* computeSettlementFee: a flat and a proportional part, at most the gross. *)
Fee(gross, fee) ==
  LET sum == fee.flat + ScaleMoney(gross, fee.bps, Full)
  IN  IF sum <= gross THEN sum ELSE gross

-----------------------------------------------------------------------------
(* How a handler moves on. *)

Idle == [pc |-> "idle", id |-> None, succeeded |-> FALSE, ref |-> None]

At(r, pc) == req[r].pc = pc
Goto(r, pc) == req' = [req EXCEPT ![r].pc = pc]
Mine(r) == row[req[r].id]

(* The adapter returns a result, with the reference it leaves behind. *)
Return(r, succeeded, ref) ==
  req' = [req EXCEPT ![r] = [pc |-> "result", id |-> req[r].id,
                             succeeded |-> succeeded, ref |-> ref]]

(* A fetch throws: initiate does not catch it, and the handler is over. *)
Throw(r) ==
  /\ req' = [req EXCEPT ![r] = Idle]
  /\ lost' = lost \cup {req[r].id}

(* repository.create: a PENDING row. *)
InsertTransaction(t, order, fee) ==
  row' = [row EXCEPT ![t] =
    [status |-> "PENDING", method |-> order.method, destination |-> order.destination,
     currency |-> order.currency, gross |-> order.gross, fee |-> fee,
     net |-> order.gross - fee, ref |-> None]]

(* initiate: requireAnyRole has passed, and the split is computed.  What   *)
(* the row pays for, a claim payout or not, is not looked at: another      *)
(* transaction for the same payout is as good.                             *)
Create(r, t, order) ==
  /\ At(r, "idle")
  /\ row[t] = None
  /\ InsertTransaction(t, order, Fee(order.gross, order.fee))
  /\ req' = [req EXCEPT ![r] = [pc |-> "created", id |-> t, succeeded |-> FALSE, ref |-> None]]
  /\ UNCHANGED <<rails, audit, transfer, workflow, lost, told>>

(* setStatus: the status and what is known of the outcome, unconditionally. *)
SetStatus(t, status, ref) == row' = [row EXCEPT ![t].status = status, ![t].ref = ref]

Submit(r) ==
  /\ At(r, "created")
  /\ "SUBMITTED" \in Transitions[Mine(r).status]
  /\ SetStatus(req[r].id, "SUBMITTED", None)
  /\ Goto(r, "send")
  /\ UNCHANGED <<rails, audit, transfer, workflow, lost, told>>

-----------------------------------------------------------------------------
(* provider.submit *)

(* CompositeSettlementProvider.submit, or the fallback alone. *)
Route(method) ==
  IF method = "STABLECOIN" /\ rails.stablecoin THEN "openfireblocks" ELSE rails.fallback

(* The Null provider: an instant success that moves nothing. *)
SendNull(r) ==
  /\ At(r, "send") /\ Route(Mine(r).method) = "null-provider"
  /\ Return(r, TRUE, "simulated")
  /\ UNCHANGED <<rails, row, audit, transfer, workflow, lost, told>>

(* What the Stripe adapter refuses before it calls Stripe. *)
StripeRefuses(tx) == tx.method = "STABLECOIN" \/ tx.destination = None

(* StripeSettlementProvider.submit: the refusals, then POST /v1/transfers  *)
(* under the transaction's id.  Stripe transfers the net amount or not.    *)
(* It tells the transfer's id, or answers with any other status, which the *)
(* adapter reports as failed although an error of the server may come      *)
(* after the transfer; or the fetch throws.                                *)
SendStripe(r) ==
  /\ At(r, "send") /\ Route(Mine(r).method) = "stripe"
  /\ \/ /\ StripeRefuses(Mine(r))
        /\ Return(r, FALSE, "refused")
        /\ UNCHANGED <<transfer, lost, told>>
     \/ /\ ~ StripeRefuses(Mine(r))
        /\ transfer' \in {transfer, [transfer EXCEPT ![req[r].id] = Mine(r).net]}
        /\ \/ /\ transfer'[req[r].id] # None
              /\ Return(r, TRUE, "transfer")
              /\ told' = told \cup {req[r].id}
              /\ UNCHANGED lost
           \/ Return(r, FALSE, "declined") /\ UNCHANGED <<lost, told>>
           \/ Throw(r) /\ UNCHANGED told
  /\ UNCHANGED <<rails, row, audit, workflow>>

(* What the OpenFireblocks adapter refuses; it is only given STABLECOIN.   *)
FireblocksRefuses(tx) == tx.destination # "address" \/ tx.currency # "token"

(* OpenFireblocksSettlementProvider.submit: the refusals, then a workflow  *)
(* is started or not.  The adapter polls it if it is told its id; after    *)
(* any status but a good one it reports a failure without looking for it.  *)
StartWorkflow(r) ==
  /\ At(r, "send") /\ Route(Mine(r).method) = "openfireblocks"
  /\ \/ /\ FireblocksRefuses(Mine(r))
        /\ Return(r, FALSE, "refused")
        /\ UNCHANGED <<workflow, lost, told>>
     \/ /\ ~ FireblocksRefuses(Mine(r))
        /\ workflow' \in {workflow,
             [workflow EXCEPT ![req[r].id] = [net |-> Mine(r).net, result |-> "running"]]}
        /\ \/ /\ workflow'[req[r].id] # None
              /\ Goto(r, "poll")
              /\ told' = told \cup {req[r].id}
              /\ UNCHANGED lost
           \/ Return(r, FALSE, "declined") /\ UNCHANGED <<lost, told>>
           \/ Throw(r) /\ UNCHANGED told
  /\ UNCHANGED <<rails, row, audit, transfer>>

(* External: the workflow waits for approval, signs, broadcasts ... and in *)
(* the end has a result.                                                   *)
WorkflowEnds(t) ==
  /\ workflow[t] # None /\ workflow[t].result = "running"
  /\ \E result \in Results : workflow' = [workflow EXCEPT ![t].result = result]
  /\ UNCHANGED <<rails, row, audit, req, transfer, lost, told>>

(* Which results pollUntilTerminal counts as success. *)
Successful(result) == result \in {"confirmed", "broadcasted"}

(* A poll finds the workflow's result. *)
PollAnswered(r) ==
  /\ At(r, "poll")
  /\ workflow[req[r].id].result # "running"
  /\ Return(r, Successful(workflow[req[r].id].result), "workflow")
  /\ UNCHANGED <<rails, row, audit, transfer, workflow, lost, told>>

(* A poll's fetch throws. *)
PollThrows(r) ==
  /\ At(r, "poll")
  /\ Throw(r)
  /\ UNCHANGED <<rails, row, audit, transfer, workflow, told>>

(* Mutant of PollTimesOut: the caller is not told which workflow it was. *)
PollTimesOutSilently(r) ==
  /\ At(r, "poll")
  /\ Return(r, FALSE, "declined")
  /\ UNCHANGED <<rails, row, audit, transfer, workflow, lost, told>>

(* Mutant of PollTimesOut: it polls as long as the workflow runs. *)
PollNeverTimesOut(r) ==
  /\ At(r, "poll")
  /\ workflow[req[r].id].result # "running"
  /\ Return(r, FALSE, "workflow")
  /\ UNCHANGED <<rails, row, audit, transfer, workflow, lost, told>>

(* The deadline passes: reported as not succeeded, with the workflow's id. *)
(* The workflow itself goes on.                                            *)
PollTimesOut(r) ==
  /\ At(r, "poll")
  /\ Return(r, FALSE, "workflow")
  /\ UNCHANGED <<rails, row, audit, transfer, workflow, lost, told>>

(* The second setStatus.  The transition that is checked is from SUBMITTED *)
(* as such, not from the status of the row.                                *)
Conclude(r) ==
  /\ At(r, "result")
  /\ SetStatus(req[r].id, IF req[r].succeeded THEN "CONFIRMED" ELSE "FAILED", req[r].ref)
  /\ Goto(r, "audit")
  /\ UNCHANGED <<rails, audit, transfer, workflow, lost, told>>

Record(r) ==
  /\ At(r, "audit")
  /\ audit' = audit \cup {<<IF req[r].succeeded THEN "ALLOWED" ELSE "DENIED", req[r].id>>}
  /\ req' = [req EXCEPT ![r] = Idle]
  /\ UNCHANGED <<rails, row, transfer, workflow, lost, told>>

(* The process dies, or a write fails, between two calls. *)
Crash(r) ==
  /\ Crashes
  /\ ~ At(r, "idle")
  /\ Throw(r)
  /\ UNCHANGED <<rails, row, audit, transfer, workflow, told>>

Call(r) == \E t \in Transaction, order \in Orders : Create(r, t, order)

Step(r) ==
  \/ Submit(r) \/ SendNull(r) \/ SendStripe(r) \/ StartWorkflow(r)
  \/ PollAnswered(r) \/ PollTimesOut(r)
  \/ Conclude(r) \/ Record(r)

(* createSettlementProvider: each adapter is there if its environment is. *)
Init ==
  /\ rails \in [fallback : {"null-provider", "stripe"}, stablecoin : BOOLEAN]
  /\ row = [t \in Transaction |-> None]
  /\ audit = {}
  /\ req = [r \in Request |-> Idle]
  /\ transfer = [t \in Transaction |-> None]
  /\ workflow = [t \in Transaction |-> None]
  /\ lost = {}
  /\ told = {}

Next ==
  \/ \E r \in Request : Call(r) \/ Step(r) \/ PollThrows(r) \/ Crash(r)
  \/ \E t \in Transaction : WorkflowEnds(t)

Spec == Init /\ [][Next]_vars

(* The event loop goes on with what is not waiting, and a poll has a       *)
(* deadline; nothing is assumed of the rails.                              *)
FairSpec == Spec /\ \A r \in Request : WF_vars(Step(r))

-----------------------------------------------------------------------------
Pcs == {"idle", "created", "send", "poll", "result", "audit"}
Refs == {"simulated", "refused", "transfer", "declined", "workflow"}
Row == [status : Statuses, method : Methods, destination : Destinations,
        currency : Currencies, gross : Nat \ {0}, fee : Nat, net : Nat, ref : Refs \cup {None}]

Workflow == [net : Nat, result : Results \cup {"running"}]

ASSUME RowAssumption == None \notin Row \cup Workflow

(* Type invariant. *)
TypeOK ==
  /\ rails \in [fallback : {"null-provider", "stripe"}, stablecoin : BOOLEAN]
  /\ row \in [Transaction -> Row \cup {None}]
  /\ audit \subseteq {"ALLOWED", "DENIED"} \X Transaction
  /\ req \in [Request -> [pc : Pcs, id : Transaction \cup {None}, succeeded : BOOLEAN,
                          ref : Refs \cup {None}]]
  /\ transfer \in [Transaction -> Nat \cup {None}]
  /\ workflow \in [Transaction -> Workflow \cup {None}]
  /\ lost \subseteq Transaction
  /\ told \subseteq Transaction

Exists(t) == row[t] # None
TransferMade(t) == transfer[t] # None
WorkflowPaid(t) == workflow[t] # None /\ workflow[t].result \in {"broadcasted", "confirmed"}
Untouched(t) == ~ TransferMade(t) /\ workflow[t] = None

(* The rail for this transaction exists and is asked: no adapter refuses. *)
Asked(tx) ==
  \/ Route(tx.method) = "stripe" /\ ~ StripeRefuses(tx)
  \/ Route(tx.method) = "openfireblocks" /\ ~ FireblocksRefuses(tx)

(***************************************************************************)
(* The write-ahead order of initiate: whatever a rail was made to do is    *)
(* for a transaction that is on record as submitted, for exactly its net   *)
(* amount, by the one rail for its method.  So a crash or a lost answer    *)
(* leaves a SUBMITTED row to reconcile, never a payment without one.  An   *)
(* id that was told is that of a transfer or workflow that exists.         *)
(***************************************************************************)
RailsOnRecord ==
  \A t \in Transaction :
    /\ TransferMade(t) =>
         /\ Exists(t) /\ row[t].status # "PENDING" /\ row[t].method # "STABLECOIN"
         /\ transfer[t] = row[t].net
         /\ workflow[t] = None
    /\ workflow[t] # None =>
         /\ Exists(t) /\ row[t].status # "PENDING" /\ row[t].method = "STABLECOIN"
         /\ workflow[t].net = row[t].net
    /\ t \in told => ~ Untouched(t)

(* CONFIRMED means that the rail has moved the money, or that the Null     *)
(* provider simulated it and the row says so.                              *)
ConfirmedIsPaid ==
  \A t \in Transaction : Exists(t) /\ row[t].status = "CONFIRMED" =>
    \/ row[t].ref = "transfer" /\ TransferMade(t)
    \/ row[t].ref = "workflow" /\ WorkflowPaid(t)
    \/ row[t].ref = "simulated" /\ rails.fallback = "null-provider"

(* What is known of the money of a FAILED transaction is in its reference: *)
(* refused, no rail was asked and nothing was paid; workflow, the poll     *)
(* ended without success, and the payment is to be looked up there;        *)
(* declined, a rail that was asked answered with an error, and the money   *)
(* may have moved all the same, though no id of it was told.               *)
FailedSaysWhy ==
  \A t \in Transaction : Exists(t) /\ row[t].status = "FAILED" =>
    \/ row[t].ref = "refused" /\ Untouched(t)
    \/ row[t].ref = "workflow" /\ workflow[t] # None
    \/ row[t].ref = "declined" /\ Asked(row[t]) /\ t \notin told

(* No id that a rail has told gets lost on the way to a conclusion: a row  *)
(* that is CONFIRMED or FAILED, also after a timeout, names it.            *)
ToldIsKept ==
  \A t \in told :
    Exists(t) /\ row[t].status \in {"CONFIRMED", "FAILED"} => row[t].ref \in {"transfer", "workflow"}

(* What the audit trail says of a transaction is what its row says. *)
AuditTold ==
  \A t \in Transaction :
    /\ <<"ALLOWED", t>> \in audit => Exists(t) /\ row[t].status = "CONFIRMED"
    /\ <<"DENIED", t>> \in audit => Exists(t) /\ row[t].status = "FAILED"

(* What a handler is about to write is still true of the rails when it     *)
(* does, and no two handlers work on one transaction.                      *)
Outcome(q) ==
  IF q.succeeded
    THEN \/ q.ref = "transfer" /\ TransferMade(q.id)
         \/ q.ref = "workflow" /\ WorkflowPaid(q.id)
         \/ q.ref = "simulated" /\ rails.fallback = "null-provider" /\ q.id \notin told
    ELSE \/ q.ref = "workflow" /\ workflow[q.id] # None
         \/ q.ref = "refused" /\ Untouched(q.id)
         \/ q.ref = "declined" /\ Asked(row[q.id]) /\ q.id \notin told

Knows(q) ==
  q.pc # "idle" =>
    /\ q.id \in Transaction /\ Exists(q.id)
    /\ q.pc = "created" => row[q.id].status = "PENDING" /\ Untouched(q.id)
    /\ q.pc = "send" => row[q.id].status = "SUBMITTED" /\ Untouched(q.id)
    /\ q.pc = "poll" => row[q.id].status = "SUBMITTED" /\ workflow[q.id] # None
    /\ q.pc = "result" => row[q.id].status = "SUBMITTED" /\ Outcome(q)
    /\ q.pc = "audit" =>
         row[q.id].status = IF q.succeeded THEN "CONFIRMED" ELSE "FAILED"

HandlersKnow ==
  /\ \A r \in Request : Knows(req[r])
  /\ \A r, s \in Request :
       r # s /\ ~ At(r, "idle") /\ ~ At(s, "idle") => req[r].id # req[s].id

(* All of it: what the rows and the audit trail say of the rails is true   *)
(* or says that it is not known, whatever answers are wrong or lost and    *)
(* whichever handlers die.                                                 *)
Inv ==
  /\ TypeOK /\ RailsOnRecord /\ ConfirmedIsPaid /\ FailedSaysWhy /\ ToldIsKept
  /\ AuditTold /\ HandlersKnow

(* What a transaction has been told is final: CONFIRMED and FAILED stand,  *)
(* and nothing goes back from SUBMITTED to PENDING.                        *)
StatusForward ==
  [][\A t \in Transaction : Exists(t) /\ row'[t].status # row[t].status
       => row'[t].status \in Transitions[row[t].status]]_vars

(* Whatever the rails do, a transaction whose handler neither died nor met *)
(* a failed fetch is CONFIRMED or FAILED in the end.                       *)
Concluded ==
  \A t \in Transaction :
    Exists(t) ~> (t \in lost \/ (Exists(t) /\ row[t].status \in {"CONFIRMED", "FAILED"}))
=============================================================================
