---------------------------- MODULE MCControls -----------------------------
(* The control in front of a push and the installation of sources: they     *)
(* share no state, so a behaviour is a behaviour of one of them.            *)
EXTENDS Prepush, Install

VARIABLE which

\* A manifest with a new file, an unchanged one and a changed one.
MCKind == <<"new", "equal", "changed">>

allVars == <<prepushVars, installVars, which>>

ControlsInit == PrepushInit /\ InstallInit /\ which \in {"prepush", "install"}

InPrepush == which = "prepush" /\ UNCHANGED <<installVars, which>>
InInstall == which = "install" /\ UNCHANGED <<prepushVars, which>>

ControlsNext == \/ InPrepush /\ PrepushNext
                \/ InInstall /\ InstallNext

ControlsSpec ==
    /\ ControlsInit /\ [][ControlsNext]_allVars
    /\ \A s \in Sessions : WF_allVars(InPrepush /\ SessionStep(s))
    /\ WF_allVars(InPrepush /\ KidStep)
    /\ SF_allVars(InPrepush /\ Retry)
    /\ WF_allVars(InInstall /\ \E p \in Installers : Works(p))
    /\ \A r \in Roots : SF_allVars(InInstall /\ RollsBack(r))

\* Publications, gates, files, receipts and the destination's lock hold the values
\* they may.
AllTypesOK == PrepushTypeOK /\ InstallTypeOK

\* An open reservation is settled and an interrupted installation undone; a failure
\* that apply_atom reports as restored is restored.
ControlsRecover == ReservationSettles /\ FailureRestores /\ InstallSettles
============================================================================
