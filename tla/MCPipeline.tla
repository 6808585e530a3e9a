----------------------------- MODULE MCPipeline -----------------------------
(* A small instance of Pipeline. *)
EXTENDS Pipeline

CONSTANTS v4, v6, lb, junk, none, noversion, unparsable

Addresses == {v4, v6, lb}
Proxies == {lb}
Six == {v6}
Versions == {<<0, 1>>, <<0, 2>>, <<1, 1>>}
=============================================================================
