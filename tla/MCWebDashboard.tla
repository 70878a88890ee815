--------------------------- MODULE MCWebDashboard ---------------------------
(* WebDashboard on small instances.  *)
EXTENDS WebDashboard

CONSTANTS t1, t2

TwoTabs  == {t1, t2}
=============================================================================
