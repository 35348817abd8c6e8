------------------------------ MODULE MCToolReads ------------------------------
(* Two chats, of three messages and of two; three entries; bodies of up to   *)
(* five lines.                                                               *)
EXTENDS ToolReads, TLC

CONSTANTS c1, c2, alice, bob

Msg(id, chat, sender, time, score) ==
  [id |-> id, chat |-> chat, sender |-> sender, time |-> time, score |-> score]
MCMessage ==
  {Msg(1, c1, alice, 1, 1), Msg(2, c2, bob, 2, 3), Msg(3, c1, bob, 2, 0),
   Msg(4, c1, alice, 2, 2), Msg(5, c1, bob, 4, 3), Msg(6, c2, alice, 3, 2)}

Asked(chat, sender, after, before) ==
  [chat |-> chat, sender |-> sender, after |-> after, before |-> before]
MCFilter ==
  {Asked(Anyone, Anyone, 0, 0), Asked(c1, Anyone, 0, 4), Asked(Anyone, alice, 1, 0)}

MCText ==
  {[score |-> 3, boost |-> 1], [score |-> 2, boost |-> 2], [score |-> 1, boost |-> 4],
   [score |-> 0, boost |-> 1]}

Line(looks, size) == [looks |-> looks, size |-> size]
MCLine ==
  {Line("blank", 0), Line("quoted", 3), Line("quoted", 20), Line("header", 3),
   Line("boundary", 3), Line("signature", 3), Line("text", 1), Line("text", 6)}
MCBody ==
  {b \in UNION {[1..n -> MCLine] : n \in 1..5} :
     b[1].looks # "blank" /\ b[Len(b)].looks # "blank"}
=============================================================================
