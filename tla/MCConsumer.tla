----------------------------- MODULE MCConsumer -----------------------------
(* Instances of the consumer for TLC: which job and which defect each      *)
(* message of the stream has.                                              *)
EXTENDS ConsumerProperties, TLC

TwoJobs == {"j1", "j2"}
ThreeJobs == {"j1", "j2", "j3"}

MsgPerJob == <<"j1", "j2">>
JobEach == <<"j1", "j2", "j3">>

BothOk == <<"ok", "ok">>
OkAndBadIR == <<"ok", "badIR">>
OkOkNoKeys == <<"ok", "ok", "noKeys">>
=============================================================================
