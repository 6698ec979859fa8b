----------------------------- MODULE MCMainLoop -----------------------------
(***************************************************************************)
(* The main loop for TLC: the registrations of main.cpp scaled down (a     *)
(* task on every tick and one on every second tick, at offset 0 or 1), and *)
(* registrations that add_task refuses.                                    *)
(***************************************************************************)
EXTENDS MainLoop

Req(b, d, o) == [bound |-> b, divider |-> d, offset |-> o]

MCRequests == {Req(TRUE, 1, 0), Req(TRUE, 2, 1), Req(TRUE, 2, 0),
               Req(TRUE, 2, 2), Req(TRUE, 0, 0), Req(FALSE, 1, 0)}
=============================================================================
