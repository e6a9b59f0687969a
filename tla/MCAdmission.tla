------------------------------ MODULE MCAdmission ------------------------------
(* A small instance of Admission for TLC: the code's names with small sizes.  *)
EXTENDS Admission

Unsupported == "?"

SmallBytes ==
  [size \in Sizes |->
     CASE size = "0b" -> 0 [] size = "1kb" -> 4 [] size = "16kb" -> 6 [] size = "64kb" -> 8
       [] size = "256kb" -> 11 [] size = "1mb" -> 12 [] size = "4mb" -> 20]

\* Smaller than some sizes, larger than others, and more than twice the smallest.
SmallBodies ==
  [o \in {"create_user", "update_user", "create_order", "update_order"} |->
     CASE o = "create_user" -> 3 [] o = "update_user" -> 6 [] o = "create_order" -> 10
       [] o = "update_order" -> 4]

SmallTargets == {SmallBytes[size] : size \in Sizes}
SmallBases   == {SmallBodies[o] : o \in DOMAIN SmallBodies}

SmallRequests ==
  [service: {"users", "orders", Unsupported}, operation: Operations \cup {Unsupported},
   simulation: {"normal", Unsupported}, requestSize: Sizes \cup {Unsupported},
   responseSize: {"0b", "1mb", "4mb", Unsupported}, count: -1..4]
==============================================================================
