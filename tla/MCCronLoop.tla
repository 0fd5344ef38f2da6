----------------------------- MODULE MCCronLoop -----------------------------
(***************************************************************************)
(* Model checking of CronLoop: three schedules, one of which has an        *)
(* instant every minute, and a file that is written twice.                 *)
(***************************************************************************)
EXTENDS CronLoop

MCSchedules == {1 .. 7, {3, 6}, {7}}
=============================================================================
