--------------------------- MODULE MCProxyClient ---------------------------
(* A proxy that reports nothing, one host, or a long line and two hosts,   *)
(* which fill the list.                                                    *)
EXTENDS ProxyClient

CONSTANTS h1, h2

MCReports == {<<>>, <<h1>>, <<Note, h1, h2>>}
=============================================================================
