--------------------------------- MODULE MCSeed ---------------------------------
(***************************************************************************)
(* Three runs of the seed over four sizes of Azure: one that derives, one  *)
(* of a refused family, one the pattern does not match, and one without    *)
(* vCPUs; and one size of each simulated provider.                         *)
(***************************************************************************)
EXTENDS Seed

CONSTANTS s1, s2, s3

MCSeeders == {s1, s2, s3}

Sz(m, f, n) == [matches |-> m, family |-> f, vcpu |-> n]

MCAzureSizes ==
  <<Sz(TRUE, "D", 2), Sz(TRUE, "B", 2), Sz(FALSE, "D", 4), Sz(TRUE, "F", 0)>>

MCSimulatedSizes ==
  <<[provider |-> "aws", instance_type |-> Sz(FALSE, "sim", 2), vcpu |-> 2, memory_mb |-> 8192],
    [provider |-> "gcp", instance_type |-> Sz(FALSE, "sim", 2), vcpu |-> 2, memory_mb |-> 8192]>>

\* The D size with half its memory, and a size that is no longer listed.
MCOldRows ==
  {[provider |-> "azure", instance_type |-> Sz(TRUE, "D", 2), vcpu |-> 2, memory_mb |-> 4096],
   [provider |-> "aws", instance_type |-> Sz(FALSE, "old", 4), vcpu |-> 4, memory_mb |-> 8192]}
================================================================================
