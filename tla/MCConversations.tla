---------------------------- MODULE MCConversations ----------------------------
(* Small instances of Conversations for TLC. *)
EXTENDS ConversationProperties, TLC

CONSTANTS s1, s2, p1, p2

\* s2 asks about a block of p2.
Crossing == [s \in Sends |-> IF s = s2 THEN p2 ELSE None]

\* Two messages, or one whose request is repeated.
AnyTwo == {{<<s1, 1>>, <<s2, 1>>}, {<<s1, 1>>, <<s1, 2>>}}
===============================================================================
