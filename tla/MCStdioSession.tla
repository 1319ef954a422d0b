---------------------------- MODULE MCStdioSession ----------------------------
(* One line of each kind the code tells apart.                             *)
EXTENDS StdioSession

Message(member, id, shape, target) ==
    [text |-> "json", member |-> member, id |-> id, shape |-> shape, target |-> target]

NoMessage(text) ==
    [text |-> text, member |-> "neither", id |-> "absent", shape |-> "invalid",
     target |-> "unknown"]

Call         == Message("method", "given", "valid", "answers")
UnknownTool  == Message("method", "given", "valid", "unknown")
Notification == Message("method", "absent", "valid", "answers")
NoVersion    == Message("method", "given", "invalid", "answers")
Response     == Message("result", "given", "valid", "answers")
NullIdCall   == Message("method", "null", "valid", "answers")

AllLines ==
    {Call, UnknownTool, Notification, NoVersion, Response}
        \union {NoMessage(t) : t \in {"blank", "binary", "garbage", "json"}}

=============================================================================
