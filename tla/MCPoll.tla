-------------------------------- MODULE MCPoll --------------------------------
(* PollScheduler with a short table of backoff tiers.                        *)
EXTENDS PollScheduler

MCTiers == {<<0, 1>>, <<1, 2>>}

(* One answer of each status that is not an error, or any at all.            *)
MCAnswers == {[status |-> "ok", usage |-> TRUE], [status |-> "limited", usage |-> TRUE],
              [status |-> "auth", usage |-> FALSE]}

===============================================================================
