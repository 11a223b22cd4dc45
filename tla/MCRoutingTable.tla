---------------------------- MODULE MCRoutingTable ----------------------------
(* Users are named by their distance from us, written as a binary number. *)
EXTENDS RoutingTable

MCUsers == {10, 100, 101, 110}
MCId == [u \in MCUsers |-> <<u \div 1000, (u \div 100) % 10, (u \div 10) % 10, u % 10>>]
MCTargets == {MCId[10], MCId[110]}
From(addr, verified) == [addr |-> addr, verified |-> verified]
MCOrigins == [u \in MCUsers |->
    CASE u = 10  -> {From(1, TRUE)}
      [] u = 100 -> {From(1, TRUE)}
      [] u = 101 -> {From(2, FALSE)}
      [] u = 110 -> {From(2, TRUE)}]
MCResultOrigins == [u \in MCUsers |-> IF u = 110 THEN {1} ELSE {}]
MCInfs == [u \in MCUsers |-> IF u = 110 THEN BOOLEAN ELSE {}]
===============================================================================
