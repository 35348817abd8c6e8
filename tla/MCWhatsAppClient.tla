--------------------------- MODULE MCWhatsAppClient ---------------------------
(* Two instances, one send, one refresh at a time beside another.            *)
EXTENDS WhatsAppClient
=============================================================================
