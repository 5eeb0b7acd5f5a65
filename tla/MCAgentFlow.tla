---------------------------- MODULE MCAgentFlow ----------------------------
(* Instances of AgentFlow for TLC: the replies the model may give.         *)
EXTENDS ProviderRequests

Ask(tool) == [tool |-> tool, argument |-> "valid"]
AskWith(tool, argument) == [tool |-> tool, argument |-> argument]

(* A parallel wave before a call that needs approval, the reverse, and a   *)
(* question and a timer before a call they may abandon.                    *)
ToolReplies ==
    {<<Ask("read"), Ask("search"), Ask("deploy")>>, <<Ask("deploy"), Ask("read")>>,
     <<Ask("request_user_input"), Ask("read")>>, <<Ask("durable_wait"), Ask("deploy")>>}

(* Plan writes of every kind, alone and twice in one reply, a question     *)
(* before an abandoned call, a timer and an unknown tool.                  *)
PlanReplies ==
    {<<Ask("write_todos")>>, <<AskWith("write_todos", "invalid")>>,
     <<AskWith("write_todos", "all_done")>>, <<AskWith("write_todos", "no_tasks")>>,
     <<Ask("write_todos"), Ask("write_todos")>>, <<Ask("read")>>,
     <<Ask("request_user_input")>>, <<Ask("request_user_input"), Ask("read")>>,
     <<Ask("durable_wait"), Ask("no_such_tool")>>}

(* One call of each kind the flow can wait in.                             *)
WaitReplies ==
    {<<Ask("deploy")>>, <<Ask("read"), Ask("search")>>, <<Ask("request_user_input")>>,
     <<Ask("durable_wait")>>, <<AskWith("durable_wait", "invalid")>>,
     <<Ask("write_todos")>>}
=============================================================================
