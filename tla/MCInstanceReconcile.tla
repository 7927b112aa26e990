------------------------ MODULE MCInstanceReconcile ------------------------
(* Small instances of InstanceReconcile. *)
EXTENDS InstanceReconcile
=============================================================================
