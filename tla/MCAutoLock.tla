----------------------------- MODULE MCAutoLock -----------------------------
(* AutoLock on a small instance: the settings offer the default or never.  *)
EXTENDS AutoLock, TLC

NeverOrDefault == {0, DefaultTimeout}
=============================================================================
