--------------------------- MODULE MCEffectWorker ---------------------------
(***************************************************************************)
(* EffectWorker on two effects of one run: one that may be redispatched,   *)
(* and one that is neither idempotent nor reconcilable.                    *)
(***************************************************************************)
EXTENDS EffectWorker

CONSTANTS safe, once

MCContract ==
    [e \in {safe, once} |->
        IF e = safe
        THEN [idempotency |-> "IdempotencyKeySupported",
              reconciliation |-> "StatusLookup"]
        ELSE [idempotency |-> "NotIdempotent",
              reconciliation |-> "Impossible"]]
=============================================================================
