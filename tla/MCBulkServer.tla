----------------------------- MODULE MCBulkServer -----------------------------
(***************************************************************************)
(* Two clients: a may send enough lines for a block inside a block, b one  *)
(* line, for a share of the common bulk or a block it never closes.        *)
(***************************************************************************)
EXTENDS BulkServer

CONSTANTS a, b

MCClients == {a, b}
MCMaxLines == [c \in MCClients |-> IF c = a THEN 4 ELSE 1]
=============================================================================
