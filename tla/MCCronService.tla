--------------------------- MODULE MCCronService ---------------------------
(* Constants of the runs of CronService: a recurring job and a one-shot job  *)
(* that may be added later.                                                  *)
EXTENDS CronService

CONSTANTS every, at, m1, m2

MCJobs == {every, at}
MCOneShot == {at}
MCInitial == {every}
MCManuals == {m1}
=============================================================================
