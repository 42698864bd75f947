---------------------------- MODULE MCSettlement ----------------------------
(* Values of the constants of Settlement for TLC. *)
EXTENDS SettlementInMemory

MCOrder(method, destination, currency, gross, flat) ==
  [method |-> method, destination |-> destination, currency |-> currency,
   gross |-> gross, fee |-> [flat |-> flat, bps |-> 1]]

(* Each method, each thing an adapter refuses, and a fee above the amount. *)
MCOrders ==
  {MCOrder("BANK_TRANSFER", "account", "other", 5, 2),
   MCOrder("DIGITAL_MONEY", None, "other", 5, 0),
   MCOrder("STABLECOIN", "address", "token", 5, 0),
   MCOrder("STABLECOIN", "address", "other", 1, 2),
   MCOrder("STABLECOIN", "account", "token", 5, 0)}
=============================================================================
