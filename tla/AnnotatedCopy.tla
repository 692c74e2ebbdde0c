---------------------------- MODULE AnnotatedCopy ----------------------------
(***************************************************************************)
(* What wdiff promises its reader: the words of the comparison that the    *)
(* options ask for are shown in order, each once, and a run that succeeds  *)
(* has shown them all.                                                     *)
(***************************************************************************)
EXTENDS Sequences, Naturals

VARIABLES
    transcript,  \* the words to be shown
    shown,       \* those that have been
    outcome      \* "running" | "complete" | "stopped"

copy == <<transcript, shown, outcome>>

Init == shown = <<>> /\ outcome = "running"

Show ==
    /\ outcome = "running" /\ Len(shown) < Len(transcript)
    /\ shown' = Append(shown, transcript[Len(shown) + 1])
    /\ UNCHANGED <<transcript, outcome>>

Complete ==
    /\ outcome = "running" /\ outcome' = "complete"
    /\ shown = transcript
    /\ UNCHANGED <<transcript, shown>>

Stop ==
    /\ outcome = "running" /\ outcome' = "stopped"
    /\ UNCHANGED <<transcript, shown>>

Spec == Init /\ [][Show \/ Complete \/ Stop]_copy
=============================================================================
