--------------------------- MODULE MCReinsurance ---------------------------
(* Values of the constants of Reinsurance for TLC. *)
EXTENDS ReinsuranceInMemory

QS(share, cap) == [kind |-> "QUOTA_SHARE", share |-> share, limit |-> cap]
XL(attach, limit) == [kind |-> "EXCESS_OF_LOSS", attach |-> attach, limit |-> limit]
AG(attach, limit) == [kind |-> "AGGREGATE", attach |-> attach, limit |-> limit]

(* A quota share of a half, capped, below two aggregates; and a slice of   *)
(* each loss below one aggregate.                                          *)
MCPlacements == {<<QS(1, 3), AG(1, 3), AG(0, 2)>>, <<XL(2, 1), AG(3, 4)>>, <<QS(1, None)>>}

(* A handler that has started goes on; nobody has to send a request. *)
MCFairSpec ==
  MemSpec /\ \A r \in Request : WF_memVars(MemStep(r))
=============================================================================
