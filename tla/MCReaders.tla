------------------------------ MODULE MCReaders ------------------------------
(* Readers on small instances; what is a function of one input is decided by the            *)
(* assumptions of ReaderFacts, before the first state.                                      *)
EXTENDS Readers, ReaderFacts

Metrics ==
    [capability : {8, 12, 17}, cost : {4, 12}, priority : {2, 18}, enabled : {TRUE}]
    \cup {[capability |-> 17, cost |-> 4, priority |-> 18, enabled |-> FALSE]}

\* A provider may offer a model that another offers, or one of the native ones.
Names ==
    <<{[name |-> <<"alpha">>, model |-> m, family |-> ""] : m \in {<<"m1">>, <<"claude", "opus">>}},
      {[name |-> <<"beta">>, model |-> m, family |-> ""] : m \in {<<"opus", "m2">>, <<"m1">>}},
      {[name |-> <<"claude", "opus">>, model |-> <<"claude", "opus">>, family |-> "opus"]}>>

MCOffers ==
    [i \in DOMAIN Names |->
        {n @@ m @@ [keyed |-> i # 3, anthropic |-> TRUE, router |-> FALSE] :
            n \in Names[i], m \in Metrics}]

\* What a router may answer: nothing, a part of a name, a name nobody has.
MCAnswers == {<<>>} \cup {<<[task |-> 1, model |-> m]>> : m \in {<<"m1">>, <<"m2">>, <<"opus">>, <<"none">>}}

MCFailures == {[a \in {"v", "w"} |-> a = "v"]}
MCFileLengths == {<<2, 3, 2>>, <<3, 3, 1>>}
=============================================================================
