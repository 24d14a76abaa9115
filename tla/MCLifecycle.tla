----------------------------- MODULE MCLifecycle -----------------------------
(***************************************************************************)
(* A small instance of Lifecycle: one test eUICC and two that only the     *)
(* database knows, so that a save may be cut between them.                 *)
(***************************************************************************)
EXTENDS Lifecycle

CONSTANTS test, extra1, extra2, c1, v0

MCTestEids == {test}

MCExtraEids == {extra1, extra2}

MCClients == {c1}

MCContents == {v0}
=============================================================================
