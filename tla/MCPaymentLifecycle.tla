------------------------- MODULE MCPaymentLifecycle -------------------------
(***************************************************************************)
(* Instances of PaymentLifecycle for TLC.                                  *)
(***************************************************************************)
EXTENDS PaymentLifecycle, TLC

\* A store that locks nothing does whatever one that locks rows does, so that
\* one is left out where they need not be told apart.  A provider with native
\* idempotency lets more happen than one without: the former is checked on the
\* store of which most is claimed, the latter on the one that allows most.  It
\* matters to a charge only when its creation is repeated, to a local payment
\* not at all, and neither provider that opens checkouts which callbacks settle
\* has it.
MCModes ==
    [store : {"serial"}, native : {TRUE}, kind : {"authorize"}]
    \cup [store : {"plain"}, native : {FALSE}, kind : {"authorize"}]
    \cup [store : {"serial", "locking", "plain"}, native : {TRUE}, kind : {"charge", "local"}]
    \cup [store : {"serial", "locking", "plain"}, native : {FALSE}, kind : {"checkout"}]

Symmetry == Permutations(Call)

=============================================================================
