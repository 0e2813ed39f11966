---------------------------- MODULE MCDeployment ----------------------------
(***************************************************************************)
(* Values for the constants of Deployment: what a dashboard may deliver,   *)
(* the options an operator installs with, the files that appear.           *)
(***************************************************************************)
EXTENDS Deployment

CONSTANTS m1, m2

Model(m, price, max) == [model |-> m, price |-> price, max_concurrent |-> max]

MCModels == {m1, m2}

Good(models) == [models |-> models, parses |-> TRUE, legible |-> TRUE]

MCActivations ==
  {Good(<<Model(m1, 0, 8), Model(m2, 1, 0)>>),
   Good(<<Model(m1, 1, 300)>>),
   Good(<<Model(m1, TomlMax + 1, 4)>>),
   Good(<<Model(m1, 1, 4), Model(m1, 1, 4)>>),
   [Good(<<Model(m1, 1, 4), Model(m2, 1, 4)>>) EXCEPT !.parses = FALSE]}

FirstAndThird == {<<1, 3>>}
Last          == {<<4>>}

NoOptions == {Bare}
MCOptions == {Bare, [config |-> "etc", log_level |-> "debug"]}

MCWrites == {<<"cwd", "workkey">>}
=============================================================================
