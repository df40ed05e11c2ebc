---------------------------- MODULE MC_CurlStack ----------------------------
(***************************************************************************)
(* Model-checking instance of CurlStack: four CurlGet objects and two    *)
(* slots (the scenario of spec section 8 plus one), so that two transfers *)
(* wait at the same time and the promotion order matters.                *)
(***************************************************************************)
EXTENDS CurlStack, TLC

CONSTANTS t1, t2, t3, t4

MCTransfers == {t1, t2, t3, t4}
MCMaxActive == 2


\* The liveness runs: three transfers, one of which waits for a slot.
MCTransfersLive == {t1, t2, t3}

\* libcurl may fail name resolution on a first attempt only.
MCFirstResults == {"ok", "fail", "resolve"}
MCRetryResults == {"ok", "fail"}

\* The combined safety and liveness run, over four transfers: a first
\* attempt succeeds or fails name resolution, and the IPv6 retry fails
\* otherwise, so that both completion paths and the retry are reached.
MCFirstResultsSmall == {"ok", "resolve"}
MCRetryResultsSmall == {"fail"}

\* libcurl may fail name resolution again after the IPv6 retry.
MCRetryResultsAll == {"ok", "fail", "resolve"}

MCSymmetry == Permutations(MCTransfers)
=============================================================================
