----------------------------- MODULE MCPlatform -----------------------------
(* An instance of Platform for TLC. *)
EXTENDS Platform, TLC

CONSTANTS a, c1, c2, s1, m1, m2, m3, k1, k2, k3, r1, r2, w1, w2, h1, h2, h3, h4, d1

MCHome  == (c1 :> a) @@ (c2 :> a)
MCSubOf == (c1 :> s1) @@ (c2 :> s1)
MCTo    == (m1 :> s1) @@ (m2 :> s1) @@ (m3 :> s1)

MCBuyer == (k1 :> w1) @@ (k2 :> w1) @@ (k3 :> w2)
MCEmail == (r1 :> "x") @@ (r2 :> "x") @@ (k3 :> "y")
MCName  == (r1 :> "p") @@ (r2 :> "long") @@ (k3 :> "p")

MCHookOwner  == (h1 :> w1) @@ (h2 :> w1) @@ (h3 :> w2) @@ (h4 :> w1)
MCHookEvents == (h1 :> {"failed", "delivered"}) @@ (h2 :> {"failed"}) @@ (h3 :> {"failed"}) @@ (h4 :> {"failed"})
MCDispatchOf == (d1 :> [owner |-> w1, event |-> "failed"])

MCSlots   == 1..6
MCFocuses == {"billing", "quota", "hub", "ratelimit", "webhooks", "server", "accounts",
              "webpush", "templates", "overview", "request", "realtime"}
=============================================================================
