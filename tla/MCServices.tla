------------------------------ MODULE MCServices ------------------------------
(* Small instances of Services.                                             *)
EXTENDS Services, TLC

CONSTANTS e1, e2, e3, r1, r2, r3, o1, o2, o3, i1, i2

MCPriority == e1 :> 1 @@ e2 :> 2 @@ e3 :> 2
MCSubmitTime == e1 :> 2 @@ e2 :> 1 @@ e3 :> 2
MCIdFor == r1 :> i1 @@ r2 :> i1 @@ r3 :> i2
MCIdOf == o1 :> i1 @@ o2 :> i1 @@ o3 :> i2
=============================================================================
