---------------------------- MODULE MCHttpSession ----------------------------
(* The instances of HttpSession that TLC checks. *)
EXTENDS HttpSession, TLC

(* Contexts are interchangeable; slots are not, for the first free one is taken. *)
ContextSymmetry == Permutations(Contexts)

=============================================================================
