----------------------------- MODULE MCSyncCalls -----------------------------
(* SyncCalls with two bids, one of which has a detail page.                *)
EXTENDS SyncCalls, TLC

CONSTANTS c1, c2, b1, b2

MCCall     == {c1}
MCPair     == {c1, c2}
MCBids     == {b1, b2}
MCWithPage == {b1}

\* Every service, with and without bids given, from each entry; batches with and
\* without their detail step; a refresh, and one with the sample backend.
MCRequests ==
    {AdminListSync, CommandListSync, AdminDetail({b2}, "targeted"),
     AdminContract({}), AdminCrawl({b1, b2}), CommandDetail({}, "targeted"),
     CommandContract({b1}), CommandChanges({}), CommandCrawl({b2}),
     AdminBatch({}, "targeted", {}), AdminBatch({}, "all", {"detail"}),
     CommandBatch({b1}, "all", {"detail", "contract"}),
     RefreshFavorites, Sampled(RefreshFavorites), ManualAction("contract", b2)}

\* Batches that select their bids, and list syncs that bring new ones.
ScopeRequests ==
    {AdminBatch({}, "targeted", {"contract", "crawl", "reference"}), AdminListSync}

CallSymmetry == Permutations(MCPair)
=============================================================================
