--------------------------- MODULE MCHttpExchange ---------------------------
(***************************************************************************)
(* HttpExchange for TLC: request bodies below, at and above the limit, and *)
(* responses of up to two chunks.                                          *)
(***************************************************************************)
EXTENDS HttpExchange, TLC

MCLimit == 1
MCMaxBody == 2
MCMaxAnswer == 2
=============================================================================
