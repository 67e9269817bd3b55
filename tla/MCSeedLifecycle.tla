-------------------------- MODULE MCSeedLifecycle --------------------------
\* Instances of SeedLifecycle for TLC.
EXTENDS SeedLifecycle

CONSTANTS f1, f2

\* One incident with its two notes, and one or two rows in the other tables.
MCFixture ==
    [incidents |-> {f1}, work_notes |-> {f1, f2}, escalations |-> {f1},
     assignment_group |-> {f1}, sys_user |-> {f1, f2}, task_sla |-> {f1, f2}]
=============================================================================
