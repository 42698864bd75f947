------------------------ MODULE SyndicationInMemory ------------------------
(***************************************************************************)
(* The in-memory repositories that stand in for the database: the marketplace,*)
(* syndication and capital repositories of persistence/in-memory.ts, run   *)
(* beside the database of Syndication.tla.  Every write of a handler is    *)
(* made to both, by the call the handler makes; the reads that decide what *)
(* a handler does next are those of the database.  Requests come one at a  *)
(* time.                                                                   *)
(*                                                                         *)
(* A method decides from what the memory holds, not from what the database *)
(* holds: it knows neither unique keys nor triggers.                       *)
(***************************************************************************)
EXTENDS Syndication, SequencesExt

VARIABLE mem

memVars == <<vars, mem>>

MemInit ==
  mem = [listing     |-> [l \in Listing |-> "OPEN"],
         interests   |-> [l \in Listing |-> <<>>],
         appetites   |-> [p \in Provider |-> None],
         commitments |-> [p \in Provider |-> None],
         synd        |-> [l \in Listing |-> "NONE"],
         rows        |-> [l \in Listing |-> <<>>],
         events      |-> [l \in Listing |-> {}]]

-----------------------------------------------------------------------------
(* Array.filter: the elements of s that are in S, in their order. *)
Among(s, S) ==
  LET Upto[n \in 0 .. Len(s)] ==
        IF n = 0 THEN <<>>
        ELSE IF s[n] \in S THEN Append(Upto[n - 1], s[n]) ELSE Upto[n - 1]
  IN  Upto[Len(s)]

(* InMemoryMarketplaceRepository: setListingStatus, upsertAppetite; an     *)
(* interest is stored again at the end of the list when it is renewed, and *)
(* stays in the list when it is withdrawn.                                 *)
MemSetListingStatus(l, status) == mem' = [mem EXCEPT !.listing[l] = status]
MemUpsertAppetite(p, e) == mem' = [mem EXCEPT !.appetites[p] = e]

MemExpressInterest(l, p) ==
  LET others == {i \in ToSet(mem.interests[l]) : i.org # p} IN
  mem' = [mem EXCEPT !.interests[l] =
            Append(Among(@, others), [org |-> p, withdrawn |-> FALSE])]

MemWithdrawInterest(l, p) ==
  mem' = [mem EXCEPT !.interests[l] =
            [n \in DOMAIN @ |-> IF @[n].org = p THEN [@[n] EXCEPT !.withdrawn = TRUE] ELSE @[n]]]

(* InMemoryCapitalRepository.upsertCommitment *)
MemUpsertCommitment(p, c) == mem' = [mem EXCEPT !.commitments[p] = c]

-----------------------------------------------------------------------------
(* InMemorySyndicationRepository: the allocations of a syndication are a   *)
(* list, in the order of their proposal.                                   *)
Event(action, org, share, amount) ==
  [action |-> action, org |-> org, share |-> share, amount |-> amount]

MemCreate(l) ==
  mem' = [mem EXCEPT !.synd[l] = "OPEN", !.rows[l] = <<>>, !.events[l] = {}]

MemAddAllocation(l, row) ==
  IF mem.synd[l] # "OPEN" THEN UNCHANGED mem
  ELSE mem' = [mem EXCEPT !.rows[l] = Append(@, row),
                          !.events[l] = @ \cup {Event("PROPOSED", row.org, row.share, row.amount)}]

(* Mutant of MemRemoveAllocation: the removal is not recorded. *)
MemRemoveAllocationSilently(l, p) ==
  LET others == {row \in ToSet(mem.rows[l]) : row.org # p} IN
  IF mem.synd[l] # "OPEN" THEN UNCHANGED mem
  ELSE mem' = [mem EXCEPT !.rows[l] = Among(@, others)]

(* Every row of the provider goes; the first is the one that is recorded. *)
MemRemoveAllocation(l, p) ==
  LET stored == ToSet(mem.rows[l])
      own == Among(mem.rows[l], {row \in stored : row.org = p})
      others == {row \in stored : row.org # p}
  IN
  IF mem.synd[l] # "OPEN" THEN UNCHANGED mem
  ELSE mem' = [mem EXCEPT
         !.rows[l] = Among(@, others),
         !.events[l] = IF own = <<>> THEN @
           ELSE @ \cup {Event("REMOVED", p, own[1].share, own[1].amount)}]

(***************************************************************************)
(* bind: the final allocations replace the list, keeping the ids by their  *)
(* place in it; there is no test of the status and none of the rows.       *)
(***************************************************************************)
MemBind(l, final) ==
  LET places == Among(mem.rows[l], {row \in ToSet(mem.rows[l]) : final[row.org] # None})
      rows == [n \in DOMAIN places |->
                [id |-> mem.rows[l][n].id, org |-> places[n].org,
                 share |-> final[places[n].org].share, amount |-> final[places[n].org].amount]]
  IN
  mem' = [mem EXCEPT
    !.rows[l] = rows, !.synd[l] = "BOUND",
    !.events[l] = @ \cup {Event("BOUND", rows[n].org, rows[n].share, rows[n].amount) :
                            n \in DOMAIN rows}]

-----------------------------------------------------------------------------
Quiet == \A r \in Request : At(r, "idle")

(* A write of a handler, to both. *)
WriteBoth(r) ==
  LET l == req[r].lst  p == req[r].org IN
  \/ OpenCreate(r) /\ synd[l] = "NONE" /\ MemCreate(l)
  \/ /\ ProposeInsert(r)
     /\ MemAddAllocation(l, [id |-> IF alloc'[l][p] = None THEN None ELSE alloc'[l][p].id,
                             org |-> p, share |-> req[r].share,
                             amount |-> Indicative(l, req[r].share)])
  \/ WithdrawDelete(r) /\ MemRemoveAllocation(l, p)
  \/ BindCommit(r) /\ MemBind(l, req[r].final)
  \/ BindMatch(r) /\ MemSetListingStatus(l, "MATCHED")
  \/ InterestUpsert(r) /\ MemExpressInterest(l, p)

(* Any other step of a handler. *)
ReadOnly(r) ==
  /\ Arrive(r) \/ Step(r)
  /\ ~ req[r].pc \in {"propose.insert", "withdraw.delete", "bind.commit", "bind.match",
                      "interest.upsert"}
  /\ At(r, "open.create") => synd[req[r].lst] # "NONE"
  /\ UNCHANGED mem

(* The operations that are a single write. *)
WriteDirectly ==
  \/ /\ Called("withdrawListing")
     /\ \E l \in Listing : WithdrawListing(l) /\ MemSetListingStatus(l, "WITHDRAWN")
  \/ /\ Called("withdrawInterest")
     /\ \E l \in Listing, p \in Provider : WithdrawInterest(p, l) /\ MemWithdrawInterest(l, p)
  \/ /\ Called("setAppetite")
     /\ \E p \in Provider, e \in Exposures : SetAppetite(p, e) /\ MemUpsertAppetite(p, e)
  \/ /\ Called("setCommitment")
     /\ \E p \in Provider, c \in Ceilings : SetCommitment(p, c) /\ MemUpsertCommitment(p, c)

MemNext ==
  \/ \E r \in Request :
       /\ \A s \in Request \ {r} : At(s, "idle")
       /\ WriteBoth(r) \/ ReadOnly(r)
  \/ Quiet /\ WriteDirectly

MemSpec == Init /\ MemInit /\ [][MemNext]_memVars

-----------------------------------------------------------------------------
(* What the two hold. *)

LiveInterest(l) ==
  {mem.interests[l][n].org : n \in {m \in DOMAIN mem.interests[l] : ~ mem.interests[l][m].withdrawn}}

(* listAllocationsForOrganisation, which the position of a provider is     *)
(* computed from.                                                          *)
AllocationsOf(p) ==
  UNION {{<<l, mem.synd[l], mem.rows[l][n].amount>> :
            n \in {m \in DOMAIN mem.rows[l] : mem.rows[l][m].org = p}} : l \in Listing}

Stored(l) ==
  {[id |-> alloc[l][p].id, org |-> p, share |-> alloc[l][p].share, amount |-> alloc[l][p].amount] :
     p \in Holders(alloc[l])}

Told(l) ==
  {Event("PROPOSED", proposed[i].org, proposed[i].share, proposed[i].amount) :
     i \in {j \in RowId : proposed[j] # None /\ proposed[j].lst = l}}
  \cup {Event("REMOVED", proposed[i].org, proposed[i].share, proposed[i].amount) :
     i \in {j \in removed : proposed[j].lst = l}}
  \cup {Event("BOUND", p, bound[l][p].share, bound[l][p].amount) : p \in Holders(bound[l])}

(***************************************************************************)
(* What the tests see is what production does: as long as requests come    *)
(* one at a time, the memory holds the rows, the events and the statuses   *)
(* that the database holds, though it enforces none of its constraints.    *)
(***************************************************************************)
MemoryAgrees ==
  /\ \A p \in Provider :
       AllocationsOf(p) =
         {<<l, synd[l], alloc[l][p].amount>> : l \in {k \in Listing : alloc[k][p] # None}}
  /\ mem.appetites = exposure /\ mem.commitments = commitment
  /\ \A l \in Listing :
       /\ mem.synd[l] = synd[l] /\ mem.listing[l] = listing[l]
       /\ ToSet(mem.rows[l]) = Stored(l) /\ Len(mem.rows[l]) = Cardinality(Stored(l))
       /\ mem.events[l] = Told(l)
       /\ LiveInterest(l) = interest[l]
=============================================================================
