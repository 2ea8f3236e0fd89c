---------------------------- MODULE MCOdhCleanup ----------------------------
(* Small instances of OdhCleanup for TLC: a Notebook an earlier release has    *)
(* left behind and one that is new, or two that are new.                       *)
EXTENDS OdhCleanup
=============================================================================
