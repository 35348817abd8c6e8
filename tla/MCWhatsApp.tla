------------------------------ MODULE MCWhatsApp ------------------------------
(* One chat with two messages.                                               *)
EXTENDS WhatsAppStore

CONSTANT family

MCMessage == {[id |-> 1, chat |-> family, time |-> 1],
              [id |-> 2, chat |-> family, time |-> 2]}
=============================================================================
