----------------------------- MODULE MCConfigFile -----------------------------
(* Two processes: two terminals, or one and the daemon.                      *)
EXTENDS ConfigFile

Cmd(source, name, items) == [source |-> source, name |-> name, items |-> items]
MCCommands ==
  {Cmd("all", "reset", {})}
    \cup {Cmd("whatsapp", n, {}) : n \in {"login", "disable"}}
    \cup {Cmd("notebook", n, {"i1"}) : n \in {"add", "remove"}}
    \cup {Cmd("notebook", n, {}) : n \in {"enable", "reset"}}
    \cup {Cmd("browser_history", "enable", i) : i \in {{}, {"i1"}}}
    \cup {Cmd("browser_history", n, {}) : n \in {"disable", "reset"}}
    \cup {Cmd("gsuite", n, {"i1"}) : n \in {"login", "manage", "enable", "disable"}}
    \cup {Cmd("gsuite", n, {"i1", "i2"}) : n \in {"manage", "disable"}}
    \cup {Cmd("gsuite", "reset", {})}
=============================================================================
