----------------------------- MODULE MCFileList -----------------------------
EXTENDS FileList

(* Up to six entries, some of them not listed. *)
MCFolders == UNION {[1..n -> 0..3] : n \in 0..6}

=============================================================================
