---------------------------- MODULE MCWebSessions ----------------------------
(* Symmetry for model checking WebSessions. *)
EXTENDS WebSessions, TLC

Symmetry == Permutations(Sessions) \cup Permutations(Sockets) \cup Permutations(Tokens)
              \cup Permutations(Passwords)
=============================================================================
