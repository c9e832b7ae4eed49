----------------------------- MODULE MCRelease -----------------------------
(***************************************************************************)
(* Two versions and a source tree that gains a module and loses one.       *)
(***************************************************************************)
EXTENDS Release

MCModulesOf == <<{"core", "old"}, {"core", "new"}>>
=============================================================================
