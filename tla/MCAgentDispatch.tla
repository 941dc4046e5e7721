--------------------------- MODULE MCAgentDispatch ---------------------------
(***************************************************************************)
(* Instances of AgentDispatch: a cfg names the messages of each kind, those *)
(* whose text is a command, and those that belong to the second session.    *)
(***************************************************************************)
EXTENDS AgentDispatch

CONSTANTS
    Users, Autos, Systems, Directs,        \* the messages, by kind
    StopTexts, StatusTexts, CommandTexts,  \* the messages, by text
    SecondSession,                         \* messages of session s2
    s1, s2

MCMsgs == Users \union Autos \union Systems \union Directs

MCSessionOf == [m \in MCMsgs |-> IF m \in SecondSession THEN s2 ELSE s1]

MCKindOf == [m \in MCMsgs |->
    CASE m \in Users -> "user" [] m \in Autos -> "auto"
      [] m \in Systems -> "system" [] OTHER -> "direct"]

MCTextOf == [m \in MCMsgs |->
    CASE m \in StopTexts -> "stop" [] m \in StatusTexts -> "status"
      [] m \in CommandTexts -> "command" [] OTHER -> "chat"]
=============================================================================
