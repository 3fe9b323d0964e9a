----------------------------- MODULE MCHttpCore -----------------------------
(* The instances of HttpCore that TLC checks. *)
EXTENDS HttpCore

(***************************************************************************)
(* Every kind of request; 404 comes with a full file table.  A FIN ends a  *)
(* request with keep-alive as its absence does.                            *)
(***************************************************************************)
AllKinds ==
  {<<k, TRUE>> : k \in {"page", "cached", "list", "upload"}}
    \cup {<<k, FALSE>> : k \in {"redirect", "refused"}}

=============================================================================
