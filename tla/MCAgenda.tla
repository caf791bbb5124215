------------------------------ MODULE MCAgenda ------------------------------
(* Agenda with the documents a first boot may find.                        *)
EXTENDS Agenda

Entry(n, w, max) ==
  [name |-> n, when |-> w, max |-> max, enabled |-> TRUE, attempting |-> FALSE]

NothingStored == <<>>
TwoBootItems == <<Entry("a", "boot", 2), Entry("b", "boot", 2)>>
OnceWithOneRun == <<Entry("a", "once", 1)>>
Mixed == <<Entry("a", "every", 2), Entry("b", "once", 2), Entry("c", "every", 1)>>
=============================================================================
