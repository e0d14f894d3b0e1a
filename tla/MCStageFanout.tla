---------------------------- MODULE MCStageFanout ----------------------------
(* Bounded inputs for StageFanout: matrices of up to two axes over values  *)
(* that collide after sanitizing, every repeat and parallelism shape, and  *)
(* deployments over two services and two environments.                     *)
EXTENDS StageFanout

MCIndexTokens == <<"0", "1", "2">>

Us    == [raw |-> "us",   tokens |-> <<"us">>]
UsEa  == [raw |-> "us-e", tokens |-> <<"us", "e">>]
UsEb  == [raw |-> "us_e", tokens |-> <<"us", "e">>]       \* sanitizes like us-e
Ea    == [raw |-> "e",    tokens |-> <<"e">>]
Input == [raw |-> "<+input>", tokens |-> <<"", "", "input", "">>]

ValLists == {<<>>, <<Us>>, <<Us, UsEa>>, <<UsEa, UsEb>>, <<Ea, Us>>}
Axis(name, vals, scalar) == [name |-> name, vals |-> vals, scalar |-> scalar]
AxisLists ==
  {<<>>} \cup {<<Axis(1, v, b)>> : v \in ValLists, b \in BOOLEAN}
         \cup {<<Axis(2, v, TRUE), Axis(1, u, b)>> : u \in ValLists, v \in ValLists, b \in BOOLEAN}
         \cup {<<Axis(2, <<Us, Ea>>, TRUE), Axis(1, <<Ea>>, TRUE), Axis(3, <<UsEa, Us>>, TRUE)>>}
Excludes ==
  {{}, {[n \in {1} |-> "us"]}, {[n \in {1} |-> "us"], [n \in {1, 2} |-> "e"]}, {[n \in {4} |-> "us"]}, {[n \in {1, 4} |-> IF n = 1 THEN "us" ELSE ""]}}

Matrices == [type : {"matrix"}, axes : AxisLists, excludes : Excludes,
             flags : {{}, {"runtimeInput"}, {"badShape"}, {"nodeName"}, {"nodeName", "badShape"}}]
Repeats  == [type : {"repeat"}, flags : SUBSET {"nodeName", "ranged"}, times : -1..3, items : -1..2]
Others   == [type : {"parallelism"}, count : 0..3]
              \cup [type : {"none", "runtimeInput", "unrecognized"}]

Env(ref, infras, runtime, gitOps) ==
  [ref |-> ref, infras |-> infras, infraRuntime |-> runtime, gitOps |-> gitOps]
Deployments ==
  [envGroup : BOOLEAN,
   services : {<<>>, <<Us>>, <<Us, UsEa>>, <<Us, Input>>},
   envs : {<<>>, <<Env(Us, <<>>, FALSE, FALSE)>>, <<Env(Us, <<Ea, Us>>, FALSE, FALSE), Env(Ea, <<>>, FALSE, FALSE)>>,
           <<Env(Us, <<Ea>>, FALSE, FALSE), Env(UsEa, <<>>, FALSE, FALSE)>>,
           <<Env(Us, <<>>, TRUE, FALSE)>>, <<Env(Us, <<>>, FALSE, TRUE)>>, <<Env(Us, <<Input>>, FALSE, FALSE)>>}]

FewStrategies == {[type |-> "none"], [type |-> "unrecognized"], [type |-> "parallelism", count |-> 2]}

\* Every strategy without a deployment, and every deployment with a few.
MCRawStages ==
  ((Matrices \cup Repeats \cup Others) \X {NoDeployment}) \cup (FewStrategies \X Deployments)
=============================================================================
