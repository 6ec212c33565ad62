----------------------------- MODULE MCWsManager -----------------------------
(* The ConnectionManager with few workers, sockets and broadcasts. *)
EXTENDS WsManager, TLC

\* Sockets are interchangeable (for safety runs).
SocketSymmetry == Permutations(Sockets)
==============================================================================
