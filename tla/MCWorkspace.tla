----------------------------- MODULE MCWorkspace -----------------------------
(***************************************************************************)
(* Instances of Workspace for TLC.                                         *)
(***************************************************************************)
EXTENDS Workspace

\* A task may overwrite or delete any file.
MCWrites == [path: Paths, content: {"b", NoFile}]

=============================================================================
