---------------------------- MODULE MCSchedules ----------------------------
\* Two computers and one scheduled task.
EXTENDS Schedules
=============================================================================
