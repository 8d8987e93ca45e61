----------------------------- MODULE MCTableView -----------------------------
(* Instances of TableView for TLC: a connection is lost or refused, or a request fails. *)
EXTENDS TableView

=============================================================================
