----------------------------- MODULE MCTpccEpoch -----------------------------
(***************************************************************************)
(* Small instances of TpccEpoch for TLC.  Customer 1 is a row of two       *)
(* districts, and order 1 one of both, a new order in each; the tables     *)
(* with the busiest updates are on one server or on two.                   *)
(***************************************************************************)
EXTENDS TpccEpoch, TLC

MCRows == [t \in Tables |->
             CASE t = T_CUSTOMER -> {1, 2, 3}
               [] t \in {T_DISTRICT, T_STOCK, T_NEWORDER, T_ORDER, T_ORDERLINE} -> {1, 2}
               [] OTHER -> {1}]
MCPkVal == [t \in Tables |->
              CASE t = T_CUSTOMER -> <<1, 2, 1>>
                [] t \in {T_NEWORDER, T_ORDER, T_ORDERLINE} -> <<1, 1>>
                [] OTHER -> [r \in MCRows[t] |-> r]]
MCServers == {0, 1}
MCPrimaryKeys == 0 .. 31

\* One partition, or two, with the rows in another order.
Together(t) == CASE t = T_CUSTOMER -> <<<<1, 2, 3>>>>
                 [] t \in {T_DISTRICT, T_STOCK, T_NEWORDER, T_ORDER, T_ORDERLINE} -> <<<<1, 2>>>>
                 [] OTHER -> <<<<1>>>>
Apart(t) == CASE t = T_CUSTOMER -> <<<<3, 2>>, <<1>>>>
              [] t \in {T_STOCK, T_ORDER} -> <<<<2>>, <<1>>>>
              [] t \in {T_DISTRICT, T_NEWORDER, T_ORDERLINE} -> <<<<2, 1>>>>
              [] OTHER -> <<<<1>>>>
MCPartitionings == {[t \in Tables |-> Together(t)], [t \in Tables |-> Apart(t)]}

\* Customer 1 has both orders, customer 2 has none; each district has one.
MCCustomerOf == <<1, 1>>
MCDistrictOf == <<1, 2>>

Symmetry == Permutations(Clients)
==============================================================================
