----------------------------- MODULE MCHttpSend -----------------------------
(* The instances of HttpSend that TLC checks. *)
EXTENDS HttpSend
=============================================================================
