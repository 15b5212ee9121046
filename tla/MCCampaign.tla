----------------------------- MODULE MCCampaign -----------------------------
EXTENDS Campaign

outcome(e, x, d, s, o) ==
    [errors |-> e, exit |-> x, dropped |-> d, stable |-> s, origins |-> o,
     full |-> TRUE, warmErrors |-> FALSE]
clean == outcome(FALSE, 0, FALSE, TRUE, FALSE)

\* The key-value client exits 3 for errors or drops, the HTTP client 1 for errors.
MCOutcomes(script) ==
    CASE script = "strong" -> {clean, outcome(FALSE, 3, TRUE, FALSE, FALSE),
                               outcome(TRUE, 3, FALSE, TRUE, FALSE)}
      [] script = "http"   -> {clean, outcome(FALSE, 0, FALSE, TRUE, TRUE)}
      [] OTHER             -> {clean}

r(engine, operation, small) ==
    [engine |-> engine, operation |-> operation, small |-> small,
     cacheMb |-> 96, flashMb |-> 512, cold |-> FALSE]

kvGroup == [name |-> "hybrid", kind |-> "kv", headline |-> TRUE, compared |-> TRUE,
            overload |-> FALSE, fullHit |-> TRUE,
            runs |-> <<r("grpc_nvm", "unary", FALSE)>>]
loadGroup == [kvGroup EXCEPT !.name = "ssd_offered", !.headline = FALSE, !.overload = TRUE,
                             !.fullHit = FALSE,
                             !.runs = <<r("grpc", "unary", FALSE)>>]
httpGroup == [kvGroup EXCEPT !.name = "http", !.kind = "http", !.fullHit = TRUE,
                             !.runs = <<r("grpc_adapter", "unary", FALSE)>>]

MCGroups == <<kvGroup, loadGroup, httpGroup>>
byHand == {
    [name |-> "matrix", script |-> "matrix",
     runs |-> <<r("redis", "pipeline", FALSE), r("grpc_nvm", "pipeline", FALSE)>>],
    [name |-> "media", script |-> "media",
     runs |-> <<r("nginx", "unary", FALSE), r("grpc_adapter", "unary", FALSE)>>],
    [name |-> "limits", script |-> "limits", runs |-> <<r("grpc", "unary", FALSE)>>],
    [name |-> "parity", script |-> "strong",
     runs |-> <<r("dragonfly_tiered", "unary", FALSE), r("redis", "batch-set", TRUE)>>],
    [name |-> "onepass", script |-> "http",
     runs |-> <<r("origin_direct", "unary", FALSE), r("nginx", "unary", FALSE)>>]}
MCJobs == {group_command(MCGroups[i]) : i \in DOMAIN MCGroups} \cup byHand
=============================================================================
