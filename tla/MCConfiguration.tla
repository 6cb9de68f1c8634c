--------------------------- MODULE MCConfiguration ---------------------------
(***************************************************************************)
(* Files with every method and provider, each table complete or with one   *)
(* flaw, and an interval below the wrong header.                           *)
(***************************************************************************)
EXTENDS Configuration, TLC

Interval == "interval_secs" :> 60

MCRoots == {<<>>, Interval, "interval" :> 60}

MCPrefixes ==
  {"method" :> "dns" @@ "reference_domain" :> "router",
   "method" :> "ra" @@ "interface" :> "eth0",
   "method" :> "netlink" @@ "reference_domain" :> "router",
   "method" :> "radv" @@ "interface" :> "eth0"}

Rfc2136(server, algorithm, secret) ==
  "provider" :> "rfc2136" @@ "server" :> server @@ "key_name" :> "key" @@
  "key_algorithm" :> algorithm @@ "key_secret" :> secret

MCProviders ==
  {"provider" :> "cloudflare" @@ "zone_id" :> "zone" @@ "api_token" :> "env:VAR",
   "provider" :> "cloudflare" @@ "zone_id" :> "zone" @@ "api_token" :> "literal",
   "provider" :> "cloudflare",
   Rfc2136("ns1", "hmac-sha256", "env:VAR"),
   Rfc2136("ns1", "hmac-sha384", "literal"),
   Rfc2136("malformed", "hmac-sha512", "literal")}

HostTable == "suffix" :> "::1" @@ "domain" :> "server-a"

MCHostLists ==
  {<<>>, <<HostTable>>, <<HostTable, HostTable @@ Interval>>,
   <<"suffix" :> "malformed" @@ "domain" :> "server-a">>}

MCDockers == {<<>>, "enabled" :> TRUE}
=============================================================================
