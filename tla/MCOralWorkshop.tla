--------------------------- MODULE MCOralWorkshop ---------------------------
(* Small instances of OralWorkshop for TLC: the ways a job may be created. *)
EXTENDS OralWorkshop

AnyMode == [manual : BOOLEAN, draftMode : BOOLEAN, video : BOOLEAN]
AutoOrManualDraft == {m \in AnyMode : m.manual = m.draftMode /\ ~m.video}
AutoDraft == {m \in AnyMode : ~m.manual /\ m.draftMode /\ ~m.video}
=============================================================================
