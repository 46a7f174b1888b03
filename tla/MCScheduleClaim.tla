--------------------------- MODULE MCScheduleClaim ---------------------------
(***************************************************************************)
(* ScheduleClaim for TLC, in hours: the lease is three, a headless job     *)
(* lives for two, and a cadence of twelve stands for the daily and weekly  *)
(* ones (a longer one only adds hours in which nothing happens).           *)
(***************************************************************************)
EXTENDS ScheduleClaim

MCLease == 3
MCMaxTick == 2
MCPeriod == 12
=============================================================================
