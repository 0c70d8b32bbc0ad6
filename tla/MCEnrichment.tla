---------------------------- MODULE MCEnrichment ----------------------------
(* Enrichment with three runs for one bid and two distinguishable items.   *)
EXTENDS Enrichment, TLC

CONSTANTS r1, r2, r3, a, b

MCRuns  == {r1, r2, r3}
MCPairs == {r1, r2}
MCNames == {a, b}

\* One of the serial tables, alone and before the e-order attachments; the
\* contract process; the change history; the crawl.
MCPlans == {<<"license", "eorder">>, <<"integration", "timeline">>,
            <<"change">>, <<"crawl">>}

\* The purchase operations of the detail enrichment, in its order.
MCPurchases == {<<"goods", "services", "foreign">>}

MCLicenses == {<<"license">>}
MCCrawls   == {<<"crawl">>}

\* Runs are interchangeable, and so are names.
RunSymmetry == Permutations(MCRuns) \cup Permutations(MCNames)

=============================================================================
