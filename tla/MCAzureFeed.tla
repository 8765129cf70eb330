------------------------------ MODULE MCAzureFeed ------------------------------
(***************************************************************************)
(* A small instance of AzureFeed: three pages at most, every way to link   *)
(* them, and pages that differ in what the loop does with their items.     *)
(***************************************************************************)
EXTENDS AzureFeed

CONSTANTS p1, p2, p3

MCPages == {p1, p2, p3}

MCContents ==
  {<<>>, <<"spot", "on_demand">>, <<"monthly", "spot">>, <<"spot", "incomplete">>,
   <<"not_object">>, <<"null_sku">>}

MCListings == [MCPages -> [items : MCContents, next : Links]]

MCCleanContents == {<<>>, <<"spot", "on_demand">>, <<"monthly", "spot">>}
MCCleanListings == [MCPages -> [items : MCCleanContents, next : Links]]
================================================================================
