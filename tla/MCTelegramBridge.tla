-------------------------- MODULE MCTelegramBridge --------------------------
(* Two chats, two hosts and an administrator; the bot's account is still   *)
(* to be made.                                                             *)
EXTENDS TelegramBridge

CONSTANTS u1, u2, u3, t1, t2, h1, h2

McFirstUsers == [u \in Uids |-> IF u = u1 THEN [name |-> "root", role |-> "admin"] ELSE Unused]

McMessages == {[chat |-> t1, kind |-> "use", host |-> h] : h \in {h1, h2}}
              \cup {[chat |-> t1, kind |-> "ask", host |-> NoHost]}
              \cup {[chat |-> t2, kind |-> "use", host |-> h2],
                    [chat |-> t2, kind |-> "ask", host |-> NoHost]}
=============================================================================
