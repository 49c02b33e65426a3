-------------------------- MODULE MCRunLifecycle ----------------------------
(* Configurations, requests and replies for the run of RunLifecycle. *)
EXTENDS RunLifecycle

ConfOf(mode) ==
    [mode |-> mode, strict |-> FALSE, hmacEnv |-> TRUE, live |-> FALSE,
     allowLive |-> FALSE, upstream |-> mode = "record", free |-> FALSE, ignores |-> FALSE]

Recording == ConfOf("record")
Replaying == ConfOf("replay")
BothConfigs == {Recording, Replaying}
OneRequest == {[text |-> "ask", noise |-> "x", secret |-> NoSecret]}
OneReply == {[ok |-> TRUE, value |-> "a", object |-> TRUE, secret |-> "none"]}

=============================================================================
