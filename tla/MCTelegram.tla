----------------------------- MODULE MCTelegram -----------------------------
(* A TLC instance of Telegram: a forum chat 7 with a thread 1 and a plain   *)
(* chat 8; user 1 is allowed, user 2 is not.                               *)
EXTENDS Telegram

Update(kind, chat, thread, from, command, content) ==
    [kind |-> kind, chat |-> chat, thread |-> thread, from |-> from,
     command |-> command, content |-> content, whole |-> TRUE]

MCShapes ==
    {Update("message", 7, 1, 1, None, "text"),
     Update("message", 7, 1, 1, "new", "text"),
     Update("message", 8, None, 2, "help", "text"),
     Update("edited_message", 7, None, 2, None, "captioned"),
     Update("my_chat_member", 7, None, 1, None, "text")}
=============================================================================
