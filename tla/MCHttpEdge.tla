------------------------------ MODULE MCHttpEdge ------------------------------
(* Two requests, so that one waits while the other fetches; one key that   *)
(* comes and goes, beside a kid that Cloudflare never publishes.           *)
EXTENDS HttpEdge
==============================================================================
