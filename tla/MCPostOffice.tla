--------------------------- MODULE MCPostOffice ---------------------------
(* Two machines; the first has two threads, which may both be in Send. *)
EXTENDS PostOffice

MCClients == <<{1, 2}, {1}>>
MCMaxSends == <<2, 1>>
===========================================================================
