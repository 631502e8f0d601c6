------------------------------ MODULE MCEscrow ------------------------------
(* Small instances of Escrow: one video appointment followed through its    *)
(* whole life, and one next to a physical appointment.                      *)
EXTENDS Escrow

CONSTANTS v1, p1   \* a video and a physical appointment

OneVideo       == {v1}
VideoAndOffice == {v1, p1}
=============================================================================
