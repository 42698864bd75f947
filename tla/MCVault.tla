------------------------------ MODULE MCVault ------------------------------
(* Values of the constants of Vault for TLC. *)
EXTENDS Vault, TLC

CONSTANTS p, q

(* Amounts as bindAllocations splits them, a participant twice, shares     *)
(* that are not complete, and a participant without a share.               *)
MCLockInputs ==
  {[participants |-> <<p, q>>, amounts |-> <<1, 2>>, bps |-> <<3333, 6667>>,
    oracle |-> <<FALSE, FALSE>>, expires |-> 1],
   [participants |-> <<p, p>>, amounts |-> <<1, 1>>, bps |-> <<5000, 5000>>,
    oracle |-> <<FALSE, FALSE>>, expires |-> 0],
   [participants |-> <<q>>, amounts |-> <<2>>, bps |-> <<10000>>,
    oracle |-> <<TRUE>>, expires |-> 1],
   [participants |-> <<q>>, amounts |-> <<2>>, bps |-> <<4000>>,
    oracle |-> <<FALSE>>, expires |-> 0],
   [participants |-> <<p, q>>, amounts |-> <<1, 1>>, bps |-> <<10000>>,
    oracle |-> <<FALSE, FALSE>>, expires |-> 0]}

(* No fee, half of the payout, and more than all of it. *)
MCFees == {[base |-> 5000, premium |-> 100], [base |-> 20000, premium |-> 0]}
=============================================================================
