---------------------------- MODULE MCZkEvaluation ----------------------------
(* Inputs around the bundled fixtures: each gate of evaluate and each rule   *)
(* of the two shapes has an input on both sides of it.                       *)
EXTENDS ZkEvaluation

Arg3(name, type, v) == [name |-> name, value |-> [type |-> type, v |-> v]]

ArgLists ==
  {<<Arg3(Amount, "u64", a), Arg3(Asset, "symbol", s), Arg3(Recipient, "address", 1)>> :
     a \in {0, 5, 6, 9, 10}, s \in {1, 2}}
  \cup
  {<<Arg3(Asset, "symbol", 1), Arg3(Amount, "u64", 5), Arg3(Recipient, "address", 1)>>,
   <<Arg3(Amount, "u64", 5), Arg3(Amount, "u64", 9), Arg3(Asset, "symbol", 1),
     Arg3(Recipient, "address", 1)>>,
   <<Arg3(Amount, "symbol", 5), Arg3(Asset, "symbol", 1), Arg3(Recipient, "address", 1)>>,
   <<Arg3(Amount, "u64", 5), Arg3(Asset, "symbol", 1), Arg3(Recipient, "address", 2)>>,
   <<Arg3(Amount, "u64", 5), Arg3(Asset, "symbol", 1), Arg3(Recipient, "address", 0)>>,
   <<Arg3(Amount, "u64", 5), Arg3(Asset, "symbol", 1)>>,
   <<>>}

BasePlan ==
  [schema_version |-> 1, intent_label |-> "ContractInvoke",
   action_kind |-> "soroban_contract_invoke", contract_id |-> 1, function |-> 1,
   args |-> <<>>, intent_confidence_bps |-> 9000]

MCPlans ==
  {[BasePlan EXCEPT !.args = args, !.intent_confidence_bps = bps] :
     args \in ArgLists, bps \in {8999, 9000, 10001}}
  \cup {[BasePlan EXCEPT !.args = <<Arg3(Amount, "u64", 5), Arg3(Asset, "symbol", 1),
                                     Arg3(Recipient, "address", 1)>>,
                         !.contract_id = c, !.function = f, !.schema_version = v] :
          c \in 0 .. 2, f \in 0 .. 2, v \in {1, 2}}

BasePolicy ==
  [schema_version |-> 1, policy_version |-> 7, commitment_salt |-> 0,
   allowed_contracts |-> <<1>>, allowed_contract_functions |-> <<11>>,
   allowed_assets |-> <<1>>, allowed_recipients |-> <<1>>,
   max_amount_minor |-> 9, approval_threshold_minor |-> 6,
   min_intent_confidence_bps |-> 9000]

MCPolicies ==
  {[BasePolicy EXCEPT !.max_amount_minor = m, !.approval_threshold_minor = t,
                      !.allowed_contracts = c, !.allowed_contract_functions = f] :
     m \in {5, 9}, t \in {5, 6}, c \in {<<1>>, <<1, 2>>}, f \in {<<11>>, <<11, 12>>}}
  \cup {[BasePolicy EXCEPT !.allowed_assets = a, !.min_intent_confidence_bps = b] :
          a \in {<<1>>, <<1, 2>>, <<2, 1>>, <<>>}, b \in {8999, 9000, 10001}}
  \cup {[BasePolicy EXCEPT !.policy_version = v, !.commitment_salt = s] :
          v \in {0, 8}, s \in {0, 1}}
==============================================================================
