------------------------------ MODULE MCGovernor ------------------------------
\* Both builds, each active and dormant, and each with and without a cpu thermal zone.
EXTENDS Governor

MCSetups == {<<TRUE, FALSE, TRUE>>, <<TRUE, TRUE, FALSE>>,
             <<FALSE, FALSE, FALSE>>, <<FALSE, TRUE, TRUE>>}
=============================================================================
