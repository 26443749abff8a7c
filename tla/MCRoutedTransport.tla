------------------------- MODULE MCRoutedTransport -------------------------
(* Two direct routes and the relay. *)
EXTENDS RoutedTransport
=============================================================================
