--------------------------------- MODULE MCTick ---------------------------------
(***************************************************************************)
(* One tick beside two runs of the seed: two pages of Azure's listing with *)
(* a tracked size and a refused one, and one size of each other provider.  *)
(***************************************************************************)
EXTENDS Tick

CONSTANTS p1, p2, s1, s2

MCPages == {p1, p2}

Sz(m, f, n) == [matches |-> m, family |-> f, vcpu |-> n]
Tracked == Sz(TRUE, "D", 2)
Refused == Sz(TRUE, "B", 2)

MCAzureSizes == <<Tracked, Refused>>

Sim(p) ==
  [provider |-> p, instance_type |-> Sz(FALSE, "sim", 2), vcpu |-> 2, memory_mb |-> 8192]
MCSimulatedSizes == <<Sim("aws"), Sim("gcp")>>

\* The size the script refuses today, which an older list had.
MCOldRows ==
  {[provider |-> "azure", instance_type |-> Refused, vcpu |-> 2, memory_mb |-> 8192]}

FirstItems == {<<>>, <<"spot", "spot">>, <<"null_sku">>}
SecondItems == {<<"spot", "spot">>, <<"spot", "incomplete">>}

\* A first page the loop chokes on, and a second that fails what the first had.  What the
\* second holds makes no difference where no link leads to it.
MCListings ==
  {l \in [MCPages -> [items : FirstItems \cup SecondItems, next : {p2, "none"}]] :
     /\ l[p1].items \in FirstItems /\ l[p2].items \in SecondItems
     /\ l[p1].next = "none" => l[p2] = [items |-> <<"spot", "spot">>, next |-> "none"]}

\* The first item of every page is of the tracked size.
MCSizeOf == [o \in MCPages \X (1..2) |-> IF o[2] = 1 THEN Tracked ELSE Refused]
================================================================================
