----------------------------- MODULE MCSession -----------------------------
(* One room, and texts that do not fit a line: "mid" only that of its delivery, *)
(* "long" that of its request twice; what is left of this reads as another     *)
(* text and as a quit, and what is left of its delivery as a delivery.         *)
EXTENDS Session

CONSTANTS r1

MCRoomNames == {r1}
MCTexts == {"mid", "long"}
MCTextLen == [t \in MCTexts \cup {""} |->
                CASE t = "" -> 0 [] t = "mid" -> 240 [] t = "long" -> 600]

MCTags == {"", "delivery", "sendall", "quit"}

Begins(tag, room, skip) == [tag |-> tag, room |-> room, skip |-> skip]

\* A request is cut after 246 characters of its text, and after 254 more; a delivery
\* after 237.
MCReads == [t \in MCTexts \cup {""} |-> [n \in 0..MCTextLen[t] |->
              CASE t = "long" /\ n = 237 -> Begins("delivery", "", 9)
                [] t = "long" /\ n = 246 -> Begins("sendall", "", 8)
                [] t = "long" /\ n = 500 -> Begins("quit", "", 5)
                [] OTHER -> Begins("", "", 0)]]
=============================================================================
